-------------------------- MODULE DumpViewerProofs --------------------------
(***************************************************************************)
(* What the dump explorer guarantees for every archive and any number of   *)
(* listings and extractions in flight.                                     *)
(*                                                                         *)
(* DumpInv is inductive.  The two properties need what they do not say:    *)
(* the FileViewer is mounted only beside a listing and for the selected    *)
(* file (ViewerIsSelected), and a user who does not go back has no listing *)
(* in flight but the one for the URL, while the skeleton is shown          *)
(* (SelectionFollows).                                                     *)
(***************************************************************************)
EXTENDS DumpViewer, SequenceTheorems, TLAPS

FileOrNone == File \cup {NoFile}
Listing    == [file : FileOrNone, answer : Answer]
Viewer     == [file : FileOrNone, content : FileOrNone, loading : BOOLEAN, error : BOOLEAN]
Extraction == [file : File, kind : {"load", "download"}, stage : {"blob", "text"}]

PartsTyped ==
    /\ url \in [file : FileOrNone, full : BOOLEAN]
    /\ selected \in FileOrNone
    /\ wentBack \in BOOLEAN /\ loading \in BOOLEAN /\ failed \in BOOLEAN
    /\ listings \in Seq(Listing)
    /\ viewer \in Viewer
    /\ extracts \in Seq(Extraction)

ViewerIsSelected ==
    IF viewer = NoViewer
    THEN extracts = <<>>
    ELSE PanelsShown /\ viewer.file = selected /\ viewer.file # NoFile

ContentIsOwn == viewer.content \in {NoFile, viewer.file}

SelectionFollows ==
    ~wentBack =>
        /\ url.full => url.file # NoFile
        /\ loading  => /\ Len(listings) = 1 /\ listings[1].file = url.file
                       /\ url.file = NoFile => selected = NoFile
        /\ ~loading => listings = <<>> /\ (PanelsShown => selected = url.file)

\* The extraction a spinner waits for.
Serves(x, v) == x.kind = "download" \/ x.file = v.file

WaitIsServed ==
    /\ loading => listings # <<>>
    /\ viewer.loading => \E n \in DOMAIN extracts : Serves(extracts[n], viewer)

DumpInv ==
    PartsTyped /\ ViewerIsSelected /\ ContentIsOwn /\ SelectionFollows /\ WaitIsServed

-----------------------------------------------------------------------------
(* Sequences that lose an element. *)

LEMMA RemoveAtType ==
    ASSUME NEW S, NEW s \in Seq(S), NEW n \in DOMAIN s
    PROVE  /\ RemoveAt(s, n) \in Seq(S)
           /\ Len(RemoveAt(s, n)) = Len(s) - 1
<1> DEFINE a == SubSeq(s, 1, n - 1)
           b == SubSeq(s, n + 1, Len(s))
<1>1. Len(s) \in Nat /\ n \in 1..Len(s)
  OBVIOUS
<1>2. /\ a \in Seq(S) /\ Len(a) = n - 1
      /\ b \in Seq(S) /\ Len(b) = Len(s) - n
  BY <1>1
<1>3. RemoveAt(s, n) = a \o b
  BY DEF RemoveAt
<1> HIDE DEF a, b
<1>4. a \o b \in Seq(S) /\ Len(a \o b) = Len(a) + Len(b)
  BY <1>2, ConcatProperties
<1>5. QED
  BY <1>1, <1>2, <1>3, <1>4

LEMMA RemoveAtKeeps ==
    ASSUME NEW S, NEW s \in Seq(S), NEW n \in DOMAIN s, NEW m \in DOMAIN s, m # n
    PROVE  \E k \in DOMAIN RemoveAt(s, n) : RemoveAt(s, n)[k] = s[m]
<1> DEFINE a == SubSeq(s, 1, n - 1)
           b == SubSeq(s, n + 1, Len(s))
<1>1. Len(s) \in Nat /\ n \in 1..Len(s) /\ m \in 1..Len(s)
  OBVIOUS
<1>2. /\ a \in Seq(S) /\ Len(a) = n - 1 /\ \A i \in 1..(n - 1) : a[i] = s[i]
      /\ b \in Seq(S) /\ Len(b) = Len(s) - n
      /\ \A i \in 1..(Len(s) - n) : b[i] = s[i + n]
  BY <1>1
<1>3. RemoveAt(s, n) = a \o b
  BY DEF RemoveAt
<1> HIDE DEF a, b
<1>4. /\ DOMAIN (a \o b) = 1..(Len(s) - 1)
      /\ \A i \in 1..(Len(s) - 1) : (a \o b)[i] = IF i <= n - 1 THEN a[i] ELSE b[i - (n - 1)]
  <2>1. /\ a \o b \in Seq(S) /\ Len(a \o b) = Len(a) + Len(b)
        /\ \A i \in 1..Len(a) + Len(b) :
              (a \o b)[i] = IF i <= Len(a) THEN a[i] ELSE b[i - Len(a)]
    BY <1>2, ConcatProperties
  <2>2. Len(a) + Len(b) = Len(s) - 1
    BY <1>1, <1>2
  <2>3. DOMAIN (a \o b) = 1..Len(a \o b)
    BY <2>1
  <2>4. QED
    BY <1>2, <2>1, <2>2, <2>3
<1>5. CASE m < n
  <2>1. m \in 1..(n - 1) /\ m \in 1..(Len(s) - 1)
    BY <1>1, <1>5
  <2>2. (a \o b)[m] = s[m]
    BY <1>1, <1>2, <1>4, <2>1
  <2>3. QED
    BY <1>3, <1>4, <2>1, <2>2
<1>6. CASE m > n
  <2>1. /\ m - n \in 1..(Len(s) - n) /\ m - 1 \in 1..(Len(s) - 1)
        /\ (m - 1) - (n - 1) = m - n /\ (m - n) + n = m /\ ~(m - 1 <= n - 1)
    BY <1>1, <1>6
  <2>2. (a \o b)[m - 1] = b[(m - 1) - (n - 1)]
    BY <1>4, <2>1
  <2>3. b[m - n] = s[(m - n) + n]
    BY <1>2, <2>1
  <2>4. RemoveAt(s, n)[m - 1] = s[m]
    BY <1>3, <2>1, <2>2, <2>3
  <2>5. QED
    BY <1>3, <1>4, <2>1, <2>4
<1>7. QED
  BY <1>1, <1>5, <1>6

LEMMA RemoveAtOnly ==
    ASSUME NEW S, NEW s \in Seq(S), Len(s) = 1, NEW n \in DOMAIN s
    PROVE  RemoveAt(s, n) = <<>>
<1>1. RemoveAt(s, n) \in Seq(S) /\ Len(RemoveAt(s, n)) = 0
  BY RemoveAtType
<1>2. QED
  BY <1>1

-----------------------------------------------------------------------------
(* Commits. *)

LEMMA OpenedType ==
    ASSUME NEW f \in File
    PROVE  /\ Opened(f) \in Viewer
           /\ Loads(f) \in Seq(Extraction)
           /\ Opened(f).loading => Loads(f) = <<Extract(f, "load")>>
<1>1. (f \in Viewable) \in BOOLEAN
  OBVIOUS
<1>2. Opened(f) \in Viewer
  BY <1>1 DEF Opened, Viewer, FileOrNone
<1>3. Extract(f, "load") \in Extraction
  BY DEF Extract, Extraction
<1>4. Loads(f) \in Seq(Extraction)
  BY <1>3 DEF Loads
<1>5. Opened(f).loading => f \in Viewable
  BY DEF Opened
<1>6. QED
  BY <1>2, <1>4, <1>5 DEF Loads

(* After a commit the FileViewer is that of f, and what it waits for is in   *)
(* flight.                                                                 *)
LEMMA CommitViewerKeeps ==
    ASSUME PartsTyped, ContentIsOwn, WaitIsServed,
           NEW shown \in BOOLEAN, NEW f \in FileOrNone, CommitViewer(shown, f)
    PROVE  /\ viewer' \in Viewer /\ extracts' \in Seq(Extraction)
           /\ IF viewer' = NoViewer
              THEN extracts' = <<>>
              ELSE shown /\ viewer'.file = f /\ f # NoFile
           /\ viewer'.content \in {NoFile, viewer'.file}
           /\ viewer'.loading => \E n \in DOMAIN extracts' : Serves(extracts'[n], viewer')
<1>1. CASE ~shown \/ f = NoFile
  <2>1. viewer' = NoViewer /\ extracts' = <<>>
    BY <1>1 DEF CommitViewer
  <2>2. QED
    BY <2>1 DEF NoViewer, Viewer, FileOrNone
<1>2. CASE shown /\ f # NoFile /\ viewer.file = f
  <2>1. viewer' = viewer /\ extracts' = extracts
    BY <1>2 DEF CommitViewer
  <2>2. QED
    BY <1>2, <2>1 DEF PartsTyped, ContentIsOwn, WaitIsServed, Serves, NoViewer
<1>3. CASE shown /\ f # NoFile /\ viewer.file # f
  <2>1. f \in File
    BY <1>3 DEF FileOrNone
  <2>2. viewer' = Opened(f) /\ extracts' = extracts \o Loads(f)
    BY <1>3 DEF CommitViewer
  <2>3. /\ extracts' \in Seq(Extraction)
        /\ Len(extracts') = Len(extracts) + Len(Loads(f))
        /\ \A i \in 1..Len(extracts) + Len(Loads(f)) :
              extracts'[i] = IF i <= Len(extracts) THEN extracts[i] ELSE Loads(f)[i - Len(extracts)]
    BY <2>1, <2>2, OpenedType, ConcatProperties DEF PartsTyped
  <2>4. ASSUME viewer'.loading
        PROVE  \E n \in DOMAIN extracts' : Serves(extracts'[n], viewer')
    <3>1. Loads(f) = <<Extract(f, "load")>> /\ Len(extracts) \in Nat
      BY <2>1, <2>2, <2>4, OpenedType DEF PartsTyped
    <3>2. Len(extracts) + 1 \in DOMAIN extracts' /\ extracts'[Len(extracts) + 1] = Extract(f, "load")
      BY <2>3, <3>1
    <3>3. QED
      BY <2>2, <3>2 DEF Serves, Extract, Opened
  <2>5. QED
    BY <1>3, <2>1, <2>2, <2>3, <2>4, OpenedType DEF Opened, NoViewer
<1>4. QED
  BY <1>1, <1>2, <1>3

(* A change of the URL keeps the invariant when it was made in the browser's *)
(* history, or beside the panels and for a file it names.                  *)
LEMMA GoToKeeps ==
    ASSUME DumpInv, UNCHANGED info, wentBack' \in BOOLEAN,
           NEW u \in [file : FileOrNone, full : BOOLEAN], NEW f \in FileOrNone, GoTo(u, f),
           ~wentBack' => /\ ~wentBack /\ ~loading /\ f = u.file
                         /\ u.full => u.file # NoFile
    PROVE  DumpInv'
<1>1. url' = u /\ selected' = f
  BY DEF GoTo
<1>2. CASE u.file = url.file
  <2>1. CommitViewer(PanelsShown, f) /\ loading' = loading /\ failed' = failed /\ listings' = listings
    BY <1>2 DEF GoTo
  <2>2. PanelsShown \in BOOLEAN /\ PanelsShown' = PanelsShown
    BY <2>1 DEF PanelsShown, Panels
  <2>3. /\ viewer' \in Viewer /\ extracts' \in Seq(Extraction)
        /\ IF viewer' = NoViewer
           THEN extracts' = <<>>
           ELSE PanelsShown /\ viewer'.file = f /\ f # NoFile
        /\ viewer'.content \in {NoFile, viewer'.file}
        /\ viewer'.loading => \E n \in DOMAIN extracts' : Serves(extracts'[n], viewer')
    BY <2>1, <2>2, CommitViewerKeeps DEF DumpInv
  <2>4. PartsTyped'
    BY <1>1, <2>1, <2>3 DEF DumpInv, PartsTyped
  <2>5. ViewerIsSelected'
    BY <1>1, <2>2, <2>3 DEF ViewerIsSelected
  <2>6. SelectionFollows'
    BY <1>1, <1>2, <2>1 DEF DumpInv, SelectionFollows
  <2>7. WaitIsServed'
    BY <2>1, <2>3 DEF DumpInv, WaitIsServed
  <2>8. QED
    BY <2>3, <2>4, <2>5, <2>6, <2>7 DEF DumpInv, ContentIsOwn
<1>3. CASE u.file # url.file
  <2> DEFINE l == [file |-> u.file, answer |-> "none"]
  <2>1. /\ loading' = TRUE /\ failed' = FALSE /\ listings' = Append(listings, l)
        /\ viewer' = NoViewer /\ extracts' = <<>>
    BY <1>3 DEF GoTo
  <2>2. l \in Listing
    BY DEF Listing, Answer
  <2>3. listings' \in Seq(Listing) /\ listings' # <<>>
    BY <2>1, <2>2, AppendProperties DEF DumpInv, PartsTyped
  <2>4. PartsTyped'
    <3>1. viewer' \in Viewer
      BY <2>1 DEF NoViewer, Viewer, FileOrNone
    <3>2. extracts' \in Seq(Extraction)
      BY <2>1
    <3>3. loading' \in BOOLEAN /\ failed' \in BOOLEAN
      BY <2>1
    <3>4. QED
      BY <1>1, <2>3, <3>1, <3>2, <3>3 DEF PartsTyped
  <2>5. ~wentBack' => Len(listings') = 1 /\ listings'[1].file = u.file
    <3>1. ~wentBack' => listings = <<>>
      BY DEF DumpInv, SelectionFollows
    <3>2. QED
      BY <2>1, <3>1
  <2>6. SelectionFollows'
    BY <1>1, <2>1, <2>5 DEF SelectionFollows
  <2>7. WaitIsServed'
    BY <2>1, <2>3 DEF WaitIsServed, NoViewer
  <2>8. QED
    BY <2>1, <2>4, <2>6, <2>7 DEF DumpInv, ViewerIsSelected, ContentIsOwn, NoViewer
<1>4. QED
  BY <1>2, <1>3

-----------------------------------------------------------------------------
(* The invariant. *)

LEMMA DumpInvInit == DumpInit => DumpInv
<1> SUFFICES ASSUME DumpInit PROVE DumpInv
  OBVIOUS
<1>1. PICK u \in [file : FileOrNone, full : BOOLEAN] :
          DumpMounted(u) /\ (u.full => u.file # NoFile)
  <2>1. CASE \E f \in File \cup {NoFile} : DumpMounted([file |-> f, full |-> FALSE])
    <3>1. PICK f \in FileOrNone : DumpMounted([file |-> f, full |-> FALSE])
      BY <2>1 DEF FileOrNone
    <3> DEFINE v == [file |-> f, full |-> FALSE]
    <3>2. v \in [file : FileOrNone, full : BOOLEAN] /\ ~v.full
      OBVIOUS
    <3> HIDE DEF v
    <3>3. DumpMounted(v)
      BY <3>1 DEF v
    <3>4. QED
      BY <3>2, <3>3
  <2>2. CASE \E f \in LogFile : DumpMounted([file |-> f, full |-> TRUE])
    <3>1. PICK f \in LogFile : DumpMounted([file |-> f, full |-> TRUE])
      BY <2>2
    <3> DEFINE v == [file |-> f, full |-> TRUE]
    <3>2. f \in FileOrNone /\ f # NoFile
      BY DumpAssumption DEF FileOrNone
    <3>3. v \in [file : FileOrNone, full : BOOLEAN] /\ v.file # NoFile
      BY <3>2
    <3> HIDE DEF v
    <3>4. DumpMounted(v)
      BY <3>1 DEF v
    <3>5. QED
      BY <3>3, <3>4
  <2>3. QED
    BY <2>1, <2>2 DEF DumpInit
<1> DEFINE l == [file |-> u.file, answer |-> "none"]
<1>2. l \in Listing
  BY DEF Listing, Answer
<1>3. /\ url = u /\ wentBack = FALSE /\ loading = TRUE /\ failed = FALSE /\ selected = NoFile
      /\ listings = <<l>> /\ viewer = NoViewer /\ extracts = <<>>
  BY <1>1 DEF DumpMounted
<1>4. viewer \in Viewer /\ extracts \in Seq(Extraction) /\ listings \in Seq(Listing)
  BY <1>2, <1>3 DEF NoViewer, Viewer, FileOrNone
<1>5. PartsTyped
  BY <1>3, <1>4 DEF PartsTyped, FileOrNone
<1>6. SelectionFollows /\ WaitIsServed
  BY <1>1, <1>3 DEF SelectionFollows, WaitIsServed, NoViewer
<1>7. QED
  BY <1>3, <1>5, <1>6 DEF DumpInv, ViewerIsSelected, ContentIsOwn, NoViewer

(* What is open beside the panels is the file in the URL.                  *)
LEMMA OpenIsInURL ==
    ASSUME DumpInv, viewer # NoViewer
    PROVE  PanelsShown /\ ~loading /\ selected # NoFile /\ (~wentBack => url.file = selected)
BY DEF DumpInv, ViewerIsSelected, SelectionFollows, PanelsShown, Panels

LEMMA DumpInvSelectFile ==
    ASSUME DumpInv, NEW f \in File, SelectFile(f)
    PROVE  DumpInv'
<1> DEFINE u == [url EXCEPT !.file = f]
<1>1. u \in [file : FileOrNone, full : BOOLEAN] /\ u.file = f /\ f # NoFile /\ f \in FileOrNone
  BY DumpAssumption DEF DumpInv, PartsTyped, FileOrNone
<1>2. GoTo(u, f) /\ UNCHANGED <<wentBack, info>> /\ ~loading
  BY DEF SelectFile, PanelsShown, Panels
<1> HIDE DEF u
<1>3. QED
  BY <1>1, <1>2, GoToKeeps DEF DumpInv, PartsTyped

LEMMA DumpInvCloseFile ==
    ASSUME DumpInv, CloseFile
    PROVE  DumpInv'
<1> DEFINE u == [file |-> NoFile, full |-> FALSE]
<1>1. u \in [file : FileOrNone, full : BOOLEAN] /\ u.file = NoFile /\ NoFile \in FileOrNone /\ ~u.full
  BY DEF FileOrNone
<1>2. GoTo(u, NoFile) /\ UNCHANGED <<wentBack, info>> /\ ~loading
  BY OpenIsInURL DEF CloseFile
<1> HIDE DEF u
<1>3. QED
  BY <1>1, <1>2, GoToKeeps DEF DumpInv, PartsTyped

LEMMA DumpInvToggleFullWindow ==
    ASSUME DumpInv, ToggleFullWindow
    PROVE  DumpInv'
<1> DEFINE u == [url EXCEPT !.full = ~@]
<1>1. u \in [file : FileOrNone, full : BOOLEAN] /\ u.file = url.file /\ selected \in FileOrNone
  BY DEF DumpInv, PartsTyped
<1>2. viewer # NoViewer
  BY DEF ToggleFullWindow, NoViewer
<1>3. ~loading /\ selected # NoFile /\ (~wentBack => url.file = selected)
  BY <1>2, OpenIsInURL
<1>4. GoTo(u, selected) /\ UNCHANGED <<wentBack, info>>
  BY DEF ToggleFullWindow
<1> HIDE DEF u
<1>5. QED
  BY <1>1, <1>3, <1>4, GoToKeeps DEF DumpInv, PartsTyped

LEMMA DumpInvGoBack ==
    ASSUME DumpInv, GoBack
    PROVE  DumpInv'
<1>1. PICK u \in [file : FileOrNone, full : BOOLEAN] : GoTo(u, selected)
  BY DEF GoBack, FileOrNone
<1>2. UNCHANGED info /\ wentBack' = TRUE /\ selected \in FileOrNone
  BY DEF GoBack, DumpInv, PartsTyped
<1>3. QED
  BY <1>1, <1>2, GoToKeeps

LEMMA DumpInvListingAnswer ==
    ASSUME DumpInv, NEW n \in DOMAIN listings, ListingAnswer(n)
    PROVE  DumpInv'
<1>1. PICK answer \in Listings : listings' = [listings EXCEPT ![n].answer = answer]
  BY DEF ListingAnswer
<1>2. answer \in Answer
  BY DEF Listings, DumpInfo, Answer, Access, ByRange
<1>3. /\ UNCHANGED <<url, wentBack, info, loading, failed, selected, viewer, extracts>>
  BY DEF ListingAnswer
<1>4. /\ listings' \in Seq(Listing) /\ Len(listings') = Len(listings)
      /\ \A m \in DOMAIN listings : listings'[m].file = listings[m].file
  <2> DEFINE e == [listings[n] EXCEPT !.answer = answer]
  <2>1. listings \in Seq(Listing)
    BY DEF DumpInv, PartsTyped
  <2>2. listings[n] \in Listing
    BY <2>1
  <2>3. e \in Listing /\ e.file = listings[n].file
    BY <1>2, <2>2 DEF Listing
  <2>4. listings' = [listings EXCEPT ![n] = e]
    BY <1>1
  <2> HIDE DEF e
  <2>5. listings' \in Seq(Listing) /\ Len(listings') = Len(listings)
    BY <2>1, <2>3, <2>4
  <2>6. ASSUME NEW m \in DOMAIN listings PROVE listings'[m].file = listings[m].file
    BY <2>1, <2>3, <2>4
  <2>7. QED
    BY <2>5, <2>6
<1>5. PartsTyped'
  BY <1>3, <1>4 DEF DumpInv, PartsTyped
<1>6. SelectionFollows'
  <2>1. listings # <<>> /\ (Len(listings) = 1 => 1 \in DOMAIN listings)
    BY DEF DumpInv, PartsTyped
  <2>2. QED
    BY <1>3, <1>4, <2>1 DEF DumpInv, SelectionFollows, PanelsShown, Panels
<1>7. listings' # <<>>
  BY <1>4 DEF DumpInv, PartsTyped
<1>8. QED
  BY <1>3, <1>5, <1>6, <1>7
     DEF DumpInv, ViewerIsSelected, ContentIsOwn, WaitIsServed, PanelsShown, Panels

LEMMA DumpInvListingApplied ==
    ASSUME DumpInv, NEW n \in DOMAIN listings, ListingApplied(n)
    PROVE  DumpInv'
<1> DEFINE l     == listings[n]
           file  == IF l.answer = "listed" /\ l.file # NoFile THEN l.file ELSE selected
           fail  == failed \/ l.answer # "listed"
           shown == Panels(l.answer, FALSE, fail)
<1>1. /\ info' = l.answer /\ failed' = fail /\ loading' = FALSE /\ selected' = file
      /\ listings' = RemoveAt(listings, n) /\ CommitViewer(shown, file)
      /\ UNCHANGED <<url, wentBack>>
  BY DEF ListingApplied
<1>2. l \in Listing /\ file \in FileOrNone /\ fail \in BOOLEAN /\ shown \in BOOLEAN
  <2>1. listings \in Seq(Listing) /\ selected \in FileOrNone /\ failed \in BOOLEAN
    BY DEF DumpInv, PartsTyped
  <2>2. l \in Listing
    BY <2>1
  <2>3. l.file \in FileOrNone
    BY <2>2 DEF Listing
  <2>4. file \in FileOrNone
    BY <2>1, <2>3
  <2>5. fail \in BOOLEAN
    BY <2>1
  <2>6. shown \in BOOLEAN
    BY DEF Panels
  <2>7. QED
    BY <2>2, <2>4, <2>5, <2>6
<1>3. listings' \in Seq(Listing) /\ (Len(listings) = 1 => listings' = <<>>)
  BY <1>1, RemoveAtType, RemoveAtOnly DEF DumpInv, PartsTyped
<1>4. PanelsShown' = shown
  BY <1>1 DEF PanelsShown, Panels
<1>5. /\ viewer' \in Viewer /\ extracts' \in Seq(Extraction)
      /\ IF viewer' = NoViewer
         THEN extracts' = <<>>
         ELSE shown /\ viewer'.file = file /\ file # NoFile
      /\ viewer'.content \in {NoFile, viewer'.file}
      /\ viewer'.loading => \E k \in DOMAIN extracts' : Serves(extracts'[k], viewer')
  <2> HIDE DEF file, shown
  <2>1. QED
    BY <1>1, <1>2, CommitViewerKeeps DEF DumpInv
<1>6. PartsTyped'
  BY <1>1, <1>2, <1>3, <1>5 DEF DumpInv, PartsTyped
<1>7. SelectionFollows'
  <2>1. ~wentBack => loading /\ Len(listings) = 1 /\ l.file = url.file
                     /\ (url.file = NoFile => selected = NoFile)
    BY DEF DumpInv, PartsTyped, SelectionFollows
  <2>2. (~wentBack /\ shown) => file = url.file
    BY <2>1 DEF Panels
  <2>3. ~wentBack => (url.full => url.file # NoFile)
    BY DEF DumpInv, SelectionFollows
  <2> HIDE DEF file, shown, l, fail
  <2>4. QED
    BY <1>1, <1>3, <1>4, <2>1, <2>2, <2>3 DEF SelectionFollows
<1>8. QED
  <2> HIDE DEF file, shown, l, fail
  <2>1. QED
    BY <1>1, <1>4, <1>5, <1>6, <1>7 DEF DumpInv, ViewerIsSelected, ContentIsOwn, WaitIsServed

(* A download that ends serves no other request: it ends the wait.         *)
LEMMA DumpInvExtractEnds ==
    ASSUME DumpInv, NEW n \in DOMAIN extracts, ExtractEnds(n)
    PROVE  DumpInv'
<1> DEFINE x    == extracts[n]
           rest == RemoveAt(extracts, n)
<1>1. /\ UNCHANGED <<url, wentBack, info, loading, failed, selected, listings>>
      /\ PanelsShown' = PanelsShown
  BY DEF ExtractEnds, PanelsShown, Panels
<1>2. /\ extracts \in Seq(Extraction) /\ viewer \in Viewer
      /\ viewer.content \in {NoFile, viewer.file}
  BY DEF DumpInv, PartsTyped, ContentIsOwn
<1>3. x \in Extraction
  BY <1>2
<1>4. rest \in Seq(Extraction)
  BY <1>2, RemoveAtType
<1>5. PICK extracted \in Extractions :
        \/ /\ viewer' = [viewer EXCEPT !.loading = FALSE, !.error = @ \/ ~extracted]
           /\ extracts' = rest
        \/ /\ x.kind = "load" /\ x.file # viewer.file
           /\ viewer' = viewer /\ extracts' = rest
        \/ /\ viewer' = viewer /\ extracts' = [extracts EXCEPT ![n].stage = "text"]
        \/ /\ viewer' = [viewer EXCEPT !.loading = FALSE, !.error = TRUE]
           /\ extracts' = rest
        \/ /\ x.file = viewer.file
           /\ viewer' = [viewer EXCEPT !.loading = FALSE, !.content = x.file]
           /\ extracts' = rest
  <2>1. x.kind \in {"load", "download"} /\ x.stage \in {"blob", "text"}
    BY <1>3 DEF Extraction
  <2>2. QED
    BY <2>1 DEF ExtractEnds
<1>6. extracted \in BOOLEAN
  BY DEF Extractions, Extracted
<1>7. extracts' \in Seq(Extraction)
  <2> DEFINE e == [extracts[n] EXCEPT !.stage = "text"]
  <2>1. e \in Extraction
    BY <1>3 DEF Extraction
  <2>2. [extracts EXCEPT ![n].stage = "text"] = [extracts EXCEPT ![n] = e]
    OBVIOUS
  <2> HIDE DEF e
  <2>3. [extracts EXCEPT ![n] = e] \in Seq(Extraction)
    BY <1>2, <2>1
  <2> HIDE DEF x, rest
  <2>4. QED
    BY <1>4, <1>5, <2>2, <2>3
<1>8. /\ viewer' \in Viewer /\ viewer'.file = viewer.file
      /\ viewer'.content \in {NoFile, viewer'.file}
      /\ viewer'.loading => viewer' = viewer
  <2> HIDE DEF rest
  <2>1. CASE viewer' = viewer
    BY <1>2, <2>1
  <2>2. CASE viewer' = [viewer EXCEPT !.loading = FALSE, !.error = @ \/ ~extracted]
    <3>1. (viewer.error \/ ~extracted) \in BOOLEAN
      OBVIOUS
    <3>2. QED
      BY <1>2, <2>2, <3>1 DEF Viewer
  <2>3. CASE viewer' = [viewer EXCEPT !.loading = FALSE, !.error = TRUE]
    BY <1>2, <2>3 DEF Viewer
  <2>4. CASE x.file = viewer.file /\ viewer' = [viewer EXCEPT !.loading = FALSE, !.content = x.file]
    BY <1>2, <2>4 DEF Viewer
  <2>5. QED
    BY <1>5, <2>1, <2>2, <2>3, <2>4
<1>9. viewer # NoViewer /\ viewer.file # NoFile
  BY <1>2 DEF DumpInv, ViewerIsSelected
<1>10. ASSUME viewer'.loading
       PROVE  \E k \in DOMAIN extracts' : Serves(extracts'[k], viewer')
  <2>1. viewer' = viewer
    BY <1>8, <1>10
  <2>2. PICK k \in DOMAIN extracts : Serves(extracts[k], viewer)
    BY <1>10, <2>1 DEF DumpInv, WaitIsServed
  <2>3. CASE extracts' = [extracts EXCEPT ![n].stage = "text"]
    <3>1. k \in DOMAIN extracts' /\ extracts'[k].file = extracts[k].file
          /\ extracts'[k].kind = extracts[k].kind
      BY <1>2, <2>3 DEF Extraction
    <3>2. QED
      BY <2>1, <2>2, <3>1 DEF Serves
  <2>4. CASE x.kind = "load" /\ x.file # viewer.file /\ extracts' = rest
    <3>1. k # n
      BY <2>2, <2>4 DEF Serves
    <3>2. PICK j \in DOMAIN rest : rest[j] = extracts[k]
      BY <1>2, <3>1, RemoveAtKeeps
    <3> HIDE DEF rest
    <3>3. QED
      BY <2>1, <2>2, <2>4, <3>2
  <2>5. viewer' = [viewer EXCEPT !.loading = FALSE, !.error = @ \/ ~extracted] => FALSE
    BY <1>2, <1>10 DEF Viewer
  <2>6. viewer' = [viewer EXCEPT !.loading = FALSE, !.error = TRUE] => FALSE
    BY <1>2, <1>10 DEF Viewer
  <2>7. viewer' = [viewer EXCEPT !.loading = FALSE, !.content = x.file] => FALSE
    BY <1>2, <1>10 DEF Viewer
  <2> HIDE DEF x, rest
  <2>8. QED
    BY <1>5, <2>3, <2>4, <2>5, <2>6, <2>7
<1>11. viewer' # NoViewer
  BY <1>8, <1>9 DEF NoViewer
<1>12. PartsTyped' /\ ViewerIsSelected' /\ ContentIsOwn'
  BY <1>1, <1>7, <1>8, <1>9, <1>11
     DEF DumpInv, PartsTyped, ViewerIsSelected, ContentIsOwn
<1>13. SelectionFollows' /\ WaitIsServed'
  BY <1>1, <1>10 DEF DumpInv, SelectionFollows, WaitIsServed
<1>14. QED
  BY <1>12, <1>13 DEF DumpInv

LEMMA DumpInvDownload ==
    ASSUME DumpInv, Download
    PROVE  DumpInv'
<1> DEFINE x == Extract(viewer.file, "download")
<1>1. /\ UNCHANGED <<url, wentBack, info, loading, failed, selected, listings>>
      /\ PanelsShown' = PanelsShown /\ viewer # NoViewer
      /\ viewer' = [viewer EXCEPT !.loading = TRUE, !.error = FALSE]
      /\ extracts' = Append(extracts, x)
  BY DEF Download, PanelsShown, Panels
<1>2. extracts \in Seq(Extraction) /\ viewer \in Viewer
  BY DEF DumpInv, PartsTyped
<1>3. viewer' \in Viewer /\ viewer'.file = viewer.file /\ viewer'.content = viewer.content
  BY <1>1, <1>2 DEF Viewer
<1>4. x \in Extraction /\ x.kind = "download"
  <2>1. viewer.file \in File
    BY <1>1, <1>2 DEF DumpInv, ViewerIsSelected, Viewer, FileOrNone
  <2>2. QED
    BY <2>1 DEF Extract, Extraction
<1> HIDE DEF x
<1>5. /\ extracts' \in Seq(Extraction) /\ Len(extracts) \in Nat
      /\ Len(extracts) + 1 \in DOMAIN extracts' /\ extracts'[Len(extracts) + 1] = x
  BY <1>1, <1>2, <1>4, AppendProperties
<1>6. \E k \in DOMAIN extracts' : Serves(extracts'[k], viewer')
  BY <1>4, <1>5 DEF Serves
<1>7. viewer.file # NoFile /\ viewer' # NoViewer
  BY <1>1, <1>3 DEF DumpInv, ViewerIsSelected, NoViewer
<1>8. PartsTyped' /\ ViewerIsSelected' /\ ContentIsOwn'
  BY <1>1, <1>3, <1>5, <1>7 DEF DumpInv, PartsTyped, ViewerIsSelected, ContentIsOwn
<1>9. SelectionFollows' /\ WaitIsServed'
  BY <1>1, <1>6 DEF DumpInv, SelectionFollows, WaitIsServed
<1>10. QED
  BY <1>8, <1>9 DEF DumpInv

(* Folders and the search are no part of this invariant.                   *)
LEMMA DumpInvStep == DumpInv /\ [DumpNext]_dumpVars => DumpInv'
<1> SUFFICES ASSUME DumpInv, [DumpNext]_dumpVars PROVE DumpInv'
  OBVIOUS
<1>1. CASE \E f \in File : SelectFile(f)
  BY <1>1, DumpInvSelectFile
<1>2. CASE CloseFile
  BY <1>2, DumpInvCloseFile
<1>3. CASE ToggleFullWindow
  BY <1>3, DumpInvToggleFullWindow
<1>4. CASE GoBack
  BY <1>4, DumpInvGoBack
<1>5. CASE \E n \in DOMAIN listings : ListingAnswer(n) \/ ListingApplied(n)
  BY <1>5, DumpInvListingAnswer, DumpInvListingApplied
<1>6. CASE \E n \in DOMAIN extracts : ExtractEnds(n)
  BY <1>6, DumpInvExtractEnds
<1>7. CASE Download
  BY <1>7, DumpInvDownload
<1>8. CASE UNCHANGED <<url, wentBack, info, loading, failed, selected, listings,
                       viewer, extracts>>
  BY <1>8 DEF DumpInv, PartsTyped, ViewerIsSelected, ContentIsOwn, SelectionFollows,
              WaitIsServed, PanelsShown, Panels
<1>9. CASE \/ \E d \in Folder : ToggleFolder(d)
           \/ ExpandAll \/ CollapseAll
           \/ \E q \in Query : SearchFor(q)
  BY <1>8, <1>9 DEF ToggleFolder, ExpandAll, CollapseAll, SearchFor, Unfolded
<1>10. CASE UNCHANGED dumpVars
  BY <1>8, <1>10 DEF dumpVars
<1>11. QED
  BY <1>1, <1>2, <1>3, <1>4, <1>5, <1>6, <1>7, <1>9, <1>10 DEF DumpNext

-----------------------------------------------------------------------------
(* The tree. *)

(* What the tree unfolds and what is searched for.                         *)
TreeTyped ==
    /\ info \in Answer /\ folders \subseteq File \cup Folder
    /\ query \in Query \cup {NoQuery}

(* The parents of a folder are folders.                                    *)
LEMMA ParentsAreFolders ==
    ASSUME NEW p \in File \cup Folder PROVE Parents(p) \subseteq Folder
<1>1. CASE p \in File
  BY <1>1 DEF Folder
<1>2. CASE p \in Folder
  <2>1. PICK f \in File : p \in Parents(f)
    BY <1>2 DEF Folder
  <2>2. PICK n \in 1..(Len(f) - 1) : p = SubSeq(f, 1, n)
    BY <2>1 DEF Parents
  <2>3. f \in Seq(STRING) /\ Len(f) \in Nat
    BY DumpAssumption
  <2>4. /\ p \in Seq(STRING) /\ Len(p) = n /\ \A i \in 1..n : p[i] = f[i]
    BY <2>2, <2>3
  <2>5. ASSUME NEW m \in 1..(Len(p) - 1) PROVE SubSeq(p, 1, m) \in Parents(f)
    <3>1. m \in 1..(Len(f) - 1) /\ m < n /\ n \in Nat
      BY <2>2, <2>3, <2>4
    <3>2. /\ SubSeq(p, 1, m) \in Seq(STRING) /\ Len(SubSeq(p, 1, m)) = m
          /\ \A i \in 1..m : SubSeq(p, 1, m)[i] = p[i]
      BY <2>4, <3>1
    <3>3. /\ SubSeq(f, 1, m) \in Seq(STRING) /\ Len(SubSeq(f, 1, m)) = m
          /\ \A i \in 1..m : SubSeq(f, 1, m)[i] = f[i]
      BY <2>3, <3>1
    <3>4. SubSeq(p, 1, m) = SubSeq(f, 1, m)
      <4> DEFINE a == SubSeq(p, 1, m)
                 b == SubSeq(f, 1, m)
      <4>1. /\ a \in Seq(STRING) /\ b \in Seq(STRING) /\ Len(a) = Len(b)
            /\ \A i \in 1..Len(a) : a[i] = b[i]
        BY <2>4, <3>1, <3>2, <3>3
      <4> HIDE DEF a, b
      <4>2. a = b
        BY <4>1, SeqEqual
      <4>3. QED
        BY <4>2 DEF a, b
    <3>5. QED
      BY <3>1, <3>4 DEF Parents
  <2>6. Parents(p) \subseteq Parents(f)
    BY <2>5 DEF Parents
  <2>7. QED
    BY <2>6 DEF Folder
<1>3. QED
  BY <1>1, <1>2

LEMMA ExpandedByTyped ==
    ASSUME NEW q PROVE ExpandedBy(q) \subseteq File \cup Folder
BY ParentsAreFolders DEF ExpandedBy, Matching

LEMMA TreeGoTo ==
    ASSUME TreeTyped, NEW u, NEW f \in FileOrNone, GoTo(u, f), UNCHANGED <<info, query>>
    PROVE  TreeTyped'
<1>1. f # NoFile => Parents(f) \subseteq Folder
  BY ParentsAreFolders DEF FileOrNone
<1>2. QED
  BY <1>1 DEF TreeTyped, GoTo

LEMMA TreeStep ==
    ASSUME TreeTyped, PartsTyped, [DumpNext]_dumpVars
    PROVE  TreeTyped'
<1>1. CASE \E f \in File : SelectFile(f)
  BY <1>1, TreeGoTo DEF SelectFile, FileOrNone
<1>2. CASE CloseFile
  BY <1>2, TreeGoTo DEF CloseFile, FileOrNone
<1>3. CASE ToggleFullWindow
  BY <1>3, TreeGoTo DEF ToggleFullWindow, PartsTyped
<1>4. CASE GoBack
  BY <1>4, TreeGoTo DEF GoBack, PartsTyped
<1>5. ASSUME NEW n \in DOMAIN listings, ListingApplied(n) PROVE TreeTyped'
  <2>1. listings[n] \in Listing
    BY DEF PartsTyped
  <2> DEFINE file == IF listings[n].answer = "listed" /\ listings[n].file # NoFile
                     THEN listings[n].file ELSE selected
  <2>2. file \in FileOrNone
    BY <2>1 DEF PartsTyped, Listing
  <2>3. TreeMounted(file) \subseteq File \cup Folder
    <3> HIDE DEF file
    <3>1. QED
      BY <2>2, ParentsAreFolders, ExpandedByTyped DEF TreeMounted, FileOrNone
  <2>4. folders' \in {folders, folders \cup TreeMounted(file)}
    BY <1>5 DEF ListingApplied
  <2>5. info' \in Answer /\ query' = query
    BY <1>5, <2>1 DEF ListingApplied, Listing
  <2> HIDE DEF file
  <2>6. QED
    BY <2>3, <2>4, <2>5 DEF TreeTyped
<1>6. CASE \/ \E n \in DOMAIN listings : ListingAnswer(n)
           \/ \E n \in DOMAIN extracts : ExtractEnds(n)
           \/ Download \/ UNCHANGED dumpVars
  BY <1>6 DEF ListingAnswer, ExtractEnds, Download, dumpVars, TreeTyped
<1>7. CASE \E d \in Folder : ToggleFolder(d)
  BY <1>7 DEF ToggleFolder, Unfolded, TreeTyped
<1>8. CASE ExpandAll \/ CollapseAll
  BY <1>8 DEF ExpandAll, CollapseAll, Unfolded, TreeTyped
<1>9. CASE \E q \in Query : SearchFor(q)
  BY <1>9, ExpandedByTyped DEF SearchFor, Unfolded, TreeTyped
<1>10. QED
  BY <1>1, <1>2, <1>3, <1>4, <1>5, <1>6, <1>7, <1>8, <1>9 DEF DumpNext

-----------------------------------------------------------------------------
(* The theorems. *)

(* The invariant holds in every state of the explorer.                     *)
THEOREM DumpInvHolds == DumpSpec => []DumpInv
<1>1. QED
  BY DumpInvInit, DumpInvStep, PTL DEF DumpSpec

(* The explorer's state has its types: what the tree unfolds is in the      *)
(* archive.                                                                *)
THEOREM DumpTypeOKHolds == DumpSpec => []DumpTypeOK
<1>1. DumpInit => TreeTyped
  BY DEF DumpInit, DumpMounted, TreeTyped, Answer
<1>2. DumpInv /\ TreeTyped /\ [DumpNext]_dumpVars => TreeTyped'
  BY TreeStep DEF DumpInv
<1>3. DumpInv /\ TreeTyped => DumpTypeOK
  <2> SUFFICES ASSUME PartsTyped, TreeTyped PROVE DumpTypeOK
    BY DEF DumpInv
  <2>1. \A n \in DOMAIN listings : listings[n] \in Listing
    BY DEF PartsTyped
  <2>2. \A n \in DOMAIN extracts : extracts[n] \in Extraction
    BY DEF PartsTyped
  <2>3. viewer.file \in File \cup {NoFile} /\ viewer.content \in File \cup {NoFile}
    BY DEF PartsTyped, Viewer, FileOrNone
  <2>4. QED
    BY <2>1, <2>2, <2>3
       DEF PartsTyped, TreeTyped, DumpTypeOK, FileOrNone, Listing, Extraction
<1>4. QED
  BY <1>1, <1>2, <1>3, DumpInvHolds, PTL DEF DumpSpec

(* The content displayed is that of the file whose name is displayed,      *)
(* whichever files were opened in between and however late their           *)
(* extractions end (FileViewer's currentFilePathRef).                      *)
THEOREM ContentIsOfFileHolds == DumpSpec => []ContentIsOfFile
<1>1. DumpInv => ContentIsOfFile
  <2> SUFFICES ASSUME DumpInv, FileScreen = "content" PROVE viewer.content = viewer.file
    BY DEF ContentIsOfFile
  <2>1. viewer.content # NoFile
    BY DEF FileScreen, FullWindow
  <2>2. QED
    BY <2>1 DEF DumpInv, ContentIsOwn
<1>2. QED
  BY <1>1, DumpInvHolds, PTL

(* Without the browser's history, the URL names the displayed file, and    *)
(* asks for the full window only with a file.                              *)
THEOREM SelectionIsInURLHolds == DumpSpec => []SelectionIsInURL
<1>1. DumpInv => SelectionIsInURL
  BY DEF DumpInv, SelectionFollows, SelectionIsInURL, PanelsShown, Panels
<1>2. QED
  BY <1>1, DumpInvHolds, PTL

(* The explorer's skeleton and the viewer's spinner always wait for a      *)
(* request in flight.                                                      *)
THEOREM DumpSpinnersAreServedHolds == DumpSpec => []DumpSpinnersAreServed
<1>1. DumpInv => DumpSpinnersAreServed
  BY DEF DumpInv, WaitIsServed, DumpSpinnersAreServed
<1>2. QED
  BY <1>1, DumpInvHolds, PTL

=============================================================================
