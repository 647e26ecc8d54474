----------------------------- MODULE DumpViewer -----------------------------
(***************************************************************************)
(* The dump explorer: pages/DumpExplorer.tsx, which keeps the file shown   *)
(* in the URL, components/DumpFileViewer.tsx, which reads the listing of   *)
(* the archive, FolderTreeView.tsx and FileViewer.tsx, over the dump       *)
(* functions of lib/api.ts.                                                *)
(*                                                                         *)
(* The listing is fetched by an effect that depends on the file in the     *)
(* URL: every selection fetches it again, and meanwhile the panels, the    *)
(* FileViewer among them, are unmounted.  Nothing cancels a fetch, and the *)
(* user may go back to another URL while one is in flight.                 *)
(*                                                                         *)
(* One archive is shown.  Its entries are given with their paths; what a   *)
(* file contains is its path.  Line highlighting, wrapping, icons and the  *)
(* panel widths are left out.                                              *)
(***************************************************************************)
EXTENDS Naturals, Sequences, FiniteSets, SequencesExt

CONSTANTS
    File,         \* the paths of the archive's files, sequences of names
    Viewable,     \* files whose type is displayed
    Huge,         \* files of more than 5 MB
    LogFile,      \* the output.log of the two clients, for quick access
    Query,        \* what may be searched for: the names it matches
    NoFile,       \* no file selected, or none in the URL
    MaxListings,  \* bound: getDumpFileInfo calls in flight
    MaxExtracts   \* bound: extractions of one FileViewer in flight

ASSUME DumpAssumption ==
    /\ \A f \in File : f \in Seq(STRING) /\ f # <<>>
    /\ Viewable \subseteq File /\ Huge \subseteq File /\ LogFile \subseteq File
    /\ NoFile \notin File
    /\ MaxListings \in Nat /\ MaxExtracts \in Nat

VARIABLES
    url,       \* the search parameters file and fullWindow
    wentBack,  \* observation: the URL was changed by the browser's history
    info,      \* zipInfo: "none", "listed", "unlisted" or "missing"
    loading,   \* loading of DumpFileViewer
    failed,    \* its error
    selected,  \* selectedFile
    listings,  \* getDumpFileInfo calls in flight
    folders,   \* expandedFolders, kept in the session's storage
    query,     \* searchQuery
    viewer,    \* the FileViewer, when mounted
    extracts   \* its extractFileFromDump calls in flight

dumpVars == <<url, wentBack, info, loading, failed, selected, listings,
              folders, query, viewer, extracts>>

-----------------------------------------------------------------------------
(* The archive on the server. *)

\* What requests find: the HEAD request, range support and whether the
\* archive can be read by ranges, its size, the full download.
Access == [head : {"ok", "refused", "broken"}, ranges : BOOLEAN, rangeRead : BOOLEAN,
            large : BOOLEAN, blob : {"ok", "broken", "cors"}]

ByRange(net) == net.ranges /\ net.rangeRead

\* getDumpFileInfo: the listing by range requests or, when these are not
\* supported or fail, from a download of at most 100 MB.
DumpInfo(net) ==
    CASE net.head # "ok"       -> "missing"
      [] ByRange(net)          -> "listed"
      [] ~ByRange(net) /\ net.head = "ok" /\ net.large -> "unlisted"
      [] ~ByRange(net) /\ net.head = "ok" /\ ~net.large ->
            CASE net.blob = "ok"     -> "listed"
              [] net.blob = "cors"   -> "unlisted"
              [] net.blob = "broken" -> "missing"

\* extractFileFromDump: the same two ways and no limit; a HEAD request that is
\* refused has no range support.
Extracted(net) ==
    /\ net.head # "broken"
    /\ (net.head = "ok" /\ ByRange(net)) \/ net.blob = "ok"

\* What the two calls can come to.
Listings    == {DumpInfo(net) : net \in Access}
Extractions == {Extracted(net) : net \in Access}

-----------------------------------------------------------------------------
(* FolderTreeView. *)

Name(path)     == path[Len(path)]
Parents(path)  == {SubSeq(path, 1, n) : n \in 1..(Len(path) - 1)}
Folder         == UNION {Parents(f) : f \in File}
NoQuery        == {}

\* renderNode: a row is rendered inside expanded folders; a search leaves the
\* files that match and the folders that match or lead to a match.
FileShown(f) == Parents(f) \subseteq folders /\ (query = NoQuery \/ Name(f) \in query)
FolderShown(d) ==
    /\ Parents(d) \subseteq folders
    /\ \/ query = NoQuery
       \/ Name(d) \in query
       \/ \E p \in File \cup Folder : d \in Parents(p) /\ Name(p) \in query

\* What a search expands: the nodes that match, and their parents.
Matching(q) == {p \in File \cup Folder : Name(p) \in q}
ExpandedBy(q) == (Matching(q) \cup UNION {Parents(p) : p \in Matching(q)})

\* The effects of a tree that is mounted: the parents of the selected file,
\* and the search typed before.
TreeMounted(f) == (IF f = NoFile THEN {} ELSE Parents(f)) \cup ExpandedBy(query)

-----------------------------------------------------------------------------
(* What is displayed. *)

NoViewer == [file |-> NoFile, content |-> NoFile, loading |-> FALSE, error |-> FALSE]

\* DumpFileViewer shows a skeleton, an error, or the two panels.
Panels(inf, load, fail) == ~load /\ ~fail /\ inf = "listed"
PanelsShown == Panels(info, loading, failed)

\* The full window covers the tree and the panel of the file.
FullWindow == url.full /\ viewer.content # NoFile

\* FileViewer shows an error before a content, and a spinner before neither.
FileScreen ==
    CASE viewer = NoViewer -> "closed"
      [] viewer # NoViewer /\ FullWindow -> "content"
      [] viewer # NoViewer /\ ~FullWindow ->
            CASE viewer.error -> "error"
              [] ~viewer.error /\ viewer.content # NoFile -> "content"
              [] ~viewer.error /\ viewer.content = NoFile /\ viewer.loading
                    /\ viewer.file \in Viewable -> "spinner"
              [] OTHER -> "empty"

Extract(f, kind) == [file |-> f, kind |-> kind, stage |-> "blob"]

\* Mutant: another filePath does not reset the content.
BadOpenedKeepsContent(f) ==
    [file |-> f, content |-> viewer.content, loading |-> f \in Viewable, error |-> FALSE]

\* The effects of FileViewer on filePath: reset, then load what can be shown.
Opened(f) == [file |-> f, content |-> NoFile, loading |-> f \in Viewable, error |-> FALSE]
Loads(f)  == IF f \in Viewable THEN <<Extract(f, "load")>> ELSE <<>>

\* A commit mounts, keeps, switches or unmounts the FileViewer.
CommitViewer(shown, f) ==
    IF ~shown \/ f = NoFile
    THEN viewer' = NoViewer /\ extracts' = <<>>
    ELSE IF viewer.file = f
    THEN UNCHANGED <<viewer, extracts>>
    ELSE viewer' = Opened(f) /\ extracts' = extracts \o Loads(f)

\* The URL after it, and the effect that fetches the listing when the file in
\* the URL is another.
GoTo(u, f) ==
    /\ url' = u /\ selected' = f
    /\ IF u.file = url.file
       THEN /\ CommitViewer(PanelsShown, f)
            /\ folders' = folders \cup (IF f = NoFile \/ f = selected THEN {} ELSE Parents(f))
            /\ UNCHANGED <<loading, failed, listings>>
       ELSE /\ loading' = TRUE /\ failed' = FALSE
            /\ listings' = Append(listings, [file |-> u.file, answer |-> "none"])
            /\ Len(listings') <= MaxListings
            /\ viewer' = NoViewer /\ extracts' = <<>>
            /\ UNCHANGED folders

-----------------------------------------------------------------------------
(* Actions. *)

\* handleFileSelect with a file: a row of the tree or a quick access log.
SelectFile(f) ==
    /\ PanelsShown /\ ~FullWindow
    /\ FileShown(f) \/ f \in LogFile
    /\ GoTo([url EXCEPT !.file = f], f)
    /\ UNCHANGED <<wentBack, info, query>>

\* Mutant: fullWindow stays in the URL.
BadCloseFileKeepsFull ==
    /\ viewer # NoViewer /\ ~FullWindow
    /\ GoTo([url EXCEPT !.file = NoFile], NoFile)
    /\ UNCHANGED <<wentBack, info, query>>

\* The close button: handleFileSelect(null).
CloseFile ==
    /\ viewer # NoViewer /\ ~FullWindow
    /\ GoTo([file |-> NoFile, full |-> FALSE], NoFile)
    /\ UNCHANGED <<wentBack, info, query>>

ToggleFullWindow ==
    /\ viewer.content # NoFile
    /\ GoTo([url EXCEPT !.full = ~@], selected)
    /\ UNCHANGED <<wentBack, info, query>>

\* The browser's back and forward buttons, or a URL typed in.
GoBack ==
    /\ \E u \in [file : File \cup {NoFile}, full : BOOLEAN] \ {url} : GoTo(u, selected)
    /\ wentBack' = TRUE
    /\ UNCHANGED <<info, query>>

ListingAnswer(n) ==
    /\ listings[n].answer = "none"
    /\ \E answer \in Listings : listings' = [listings EXCEPT ![n].answer = answer]
    /\ UNCHANGED <<url, wentBack, info, loading, failed, selected, folders,
                   query, viewer, extracts>>

\* fetchZipInfo goes on: a listing selects the file its effect captured.
ListingApplied(n) ==
    LET l    == listings[n]
        file == IF l.answer = "listed" /\ l.file # NoFile THEN l.file ELSE selected
        fail == failed \/ l.answer # "listed"
        shown == Panels(l.answer, FALSE, fail)
    IN  /\ l.answer # "none"
        /\ info' = l.answer
        /\ failed' = fail /\ loading' = FALSE
        /\ selected' = file
        /\ listings' = RemoveAt(listings, n)
        /\ CommitViewer(shown, file)
        /\ folders' = IF shown THEN folders \cup TreeMounted(file) ELSE folders
        /\ UNCHANGED <<url, wentBack, query>>

\* An extraction ends.  loadFile looks after each await whether the viewer
\* still shows the file it loads; downloadFile does not.
ExtractEnds(n) ==
    LET x == extracts[n]
        current == x.file = viewer.file
        rest == RemoveAt(extracts, n)
    IN  /\ \E extracted \in Extractions :
              CASE x.kind = "download" ->
                      /\ viewer' = [viewer EXCEPT !.loading = FALSE,
                                                  !.error = @ \/ ~extracted]
                      /\ extracts' = rest
                [] x.kind = "load" /\ ~current ->
                      viewer' = viewer /\ extracts' = rest
                [] x.kind = "load" /\ current /\ x.stage = "blob"
                   /\ extracted /\ x.file \notin Huge ->
                      viewer' = viewer /\ extracts' = [extracts EXCEPT ![n].stage = "text"]
                [] x.kind = "load" /\ current /\ x.stage = "blob"
                   /\ ~(extracted /\ x.file \notin Huge) ->
                      /\ viewer' = [viewer EXCEPT !.loading = FALSE, !.error = TRUE]
                      /\ extracts' = rest
                [] x.kind = "load" /\ current /\ x.stage = "text" ->
                      /\ viewer' = [viewer EXCEPT !.loading = FALSE, !.content = x.file]
                      /\ extracts' = rest
        /\ UNCHANGED <<url, wentBack, info, loading, failed, selected, listings,
                       folders, query>>

\* The download button, disabled while loading except in the full window.
Download ==
    /\ viewer # NoViewer
    /\ ~viewer.loading \/ FullWindow
    /\ Len(extracts) < MaxExtracts
    /\ viewer' = [viewer EXCEPT !.loading = TRUE, !.error = FALSE]
    /\ extracts' = Append(extracts, Extract(viewer.file, "download"))
    /\ UNCHANGED <<url, wentBack, info, loading, failed, selected, listings,
                   folders, query>>

Unfolded(fs, q) ==
    /\ PanelsShown /\ ~FullWindow
    /\ folders' = fs /\ query' = q
    /\ UNCHANGED <<url, wentBack, info, loading, failed, selected, listings,
                   viewer, extracts>>

ToggleFolder(d) ==
    /\ FolderShown(d)
    /\ Unfolded(IF d \in folders THEN folders \ {d} ELSE folders \cup {d}, query)
ExpandAll   == Unfolded(Folder, query)
CollapseAll == Unfolded({}, query)
SearchFor(q) == q # query /\ Unfolded(folders \cup ExpandedBy(q), q)

\* The page is opened with a URL.
DumpMounted(u) ==
    /\ url = u /\ wentBack = FALSE
    /\ info = "none" /\ loading = TRUE /\ failed = FALSE /\ selected = NoFile
    /\ listings = <<[file |-> u.file, answer |-> "none"]>>
    /\ folders = {} /\ query = NoQuery
    /\ viewer = NoViewer /\ extracts = <<>>

\* The links of the details page: to the archive, and to the two logs in the
\* full window; a link copied from the explorer may name any file.
DumpInit ==
    \/ \E f \in File \cup {NoFile} : DumpMounted([file |-> f, full |-> FALSE])
    \/ \E f \in LogFile : DumpMounted([file |-> f, full |-> TRUE])

DumpNext ==
    \/ \E f \in File : SelectFile(f)
    \/ CloseFile
    \/ ToggleFullWindow
    \/ GoBack
    \/ \E n \in DOMAIN listings : ListingAnswer(n) \/ ListingApplied(n)
    \/ \E n \in DOMAIN extracts : ExtractEnds(n)
    \/ Download
    \/ \E d \in Folder : ToggleFolder(d)
    \/ ExpandAll
    \/ CollapseAll
    \/ \E q \in Query : SearchFor(q)

DumpSpec == DumpInit /\ [][DumpNext]_dumpVars

(***************************************************************************)
(* Properties                                                              *)
(***************************************************************************)

Answer == {"none", "listed", "unlisted", "missing"}

DumpTypeOK ==
    /\ url \in [file : File \cup {NoFile}, full : BOOLEAN]
    /\ wentBack \in BOOLEAN /\ loading \in BOOLEAN /\ failed \in BOOLEAN
    /\ info \in Answer
    /\ selected \in File \cup {NoFile}
    /\ \A n \in DOMAIN listings :
          listings[n] \in [file : File \cup {NoFile}, answer : Answer]
    /\ folders \subseteq File \cup Folder
    /\ query \in Query \cup {NoQuery}
    /\ viewer.file \in File \cup {NoFile} /\ viewer.content \in File \cup {NoFile}
    /\ \A n \in DOMAIN extracts :
          extracts[n] \in [file : File, kind : {"load", "download"}, stage : {"blob", "text"}]

\* The content displayed is the content of the file whose name is displayed,
\* whichever files were opened in between and however late their extractions
\* end.
ContentIsOfFile == FileScreen = "content" => viewer.content = viewer.file

\* Unless the user moves in the browser's history, the URL names the file that
\* is displayed once the listing is there, so a copied link opens what was
\* seen; and it asks for the full window only with a file.
SelectionIsInURL ==
    ~wentBack =>
        /\ PanelsShown => selected = url.file
        /\ url.full => url.file # NoFile

\* A skeleton or a spinner waits for a request that is in flight.
DumpSpinnersAreServed ==
    /\ loading => listings # <<>>
    /\ viewer.loading => extracts # <<>>

=============================================================================
