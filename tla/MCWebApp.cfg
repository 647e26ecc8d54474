CONSTANTS
  urlA = urlA
  urlB = urlB
  Url = {urlA, urlB}
  Run = {1, 2}
  RunsOf <- MCRunsOf
  EndpointList <- MCEndpointList
  PageSize = {1, 2}
  MaxFetches = 2
  MaxEvents = 2
  Nothing = Nothing
  Failed = Failed

  Test = {t1}
  MaxHistory = 2
  MaxPoint = 3
  MaxAsks = 2
  None = None
  Refused = Refused

  File <- MCFile
  Viewable <- MCViewable
  Huge <- MCHuge
  LogFile <- MCLogFile
  Query <- MCQuery
  NoFile = NoFile
  MaxListings = 2
  MaxExtracts = 2

  Report <- MCReport
  RawConfig <- MCRawConfig
  NetworkOrder <- MCNetworkOrder
  Column = {"timestamp", "duration"}
  Limit = {1, 2}
  DefaultLimit = 1
  Window = 1
  ListLimit = 4
  LookupLimit = 2
  RowsShown = 1
  BoxCount = {1}
  All = All
  Late <- MCLate
  Bookmarked <- MCBookmarked
  MaxDumps = 2
  MaxClicks = 2

  Finding <- MCFinding
  MainReport <- MCMainReport
  Recorded <- MCRecorded
  DumpEntry <- MCDumpEntry
  NoValue = NoValue
  NoMetrics = NoMetrics
  MaxMoves = 2
  MaxAsking = 2
  PointOf <- MCPointOf
  Second = 2
  RunKind <- MCRunKind
  NoData = NoData
  MaxGroup = 5
SPECIFICATION WebSpec
INVARIANTS
  WebTypeOK
  RowsOwnTests
  SpinnersAreServed
  ContentIsOfFile
  SelectionIsInURL
  MoreLinkListsGroup
  PagesTellTheirTest
  GroupShowsSuccesses
PROPERTIES
  HistoryOnlyGrows
  PagesStayInRange
CHECK_DEADLOCK FALSE
