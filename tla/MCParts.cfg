CONSTANTS
    c1 = c1  c2 = c2  e1 = e1  look = look  paint = paint
    Cards = {c1, c2}
    Wires = {e1}
    Looks = {look, paint}
    MaxZ = 1
    MaxActs = 1
    Ids <- ElementIds
    Vals <- ElementVals
    Absent = Absent
    human = human  s1 = s1  p1 = p1  p2 = p2  p3 = p3
    Sends = {p1, p2, p3}
    Sessions = {s1}
    Author <- SendAuthor
    Tagged <- SendTagged
    Broadcasts = {p1}
    CardOnly = {p3}
    Keyed = {p1}
    Quiet = {}
    MaxThreadMsgs = 2
    MaxTries = 2
    MaxRestarts = 1
    ThreadFaults = {"append", "lost"}
    TornLine = TornLine
    GarbageLine = GarbageLine
    NoLine = NoLine
    a = a  b = b  r1 = r1  d1 = d1
    Sids = {a, b}
    Roles = {r1}
    Docs = {d1}
    RoleOf <- OneRole
    MaxLive = 2
    MaxSeatRestarts = 1
    Free = Free
    Claude = {"c"}
    Codex = {"x"}
    Asks = {"q"}
    MaxRequestRestarts = 1
    SessionIds = {a}
    MaxObjects = 2
    MaxPending = 2
    MaxServerDeaths = 1
    MaxHostDeaths = 1
    NoProc = NoProc
    Inputs = {p1, p2, p3}
    Interrupts = {p3}
    MaxCodexSpawns = 3
    MaxRpcTimeouts = 1
    NoRpc = NoRpc
    n1 = n1  n2 = n2  x1 = x1  x2 = x2  x3 = x3
    Notebooks = {n1, n2}
    Runs = {x1, x2, x3}
    NotebookOf <- RunNotebook
    MaxKernels = 2
    MaxBrokerRestarts = 1
    h1 = h1  h2 = h2
    Presses = {h1, h2}
    NoTool = NoTool
    k1 = k1  k2 = k2  u = u  v = v  w = w  f1 = f1
    Books = {k1, k2}
    CellIds = {u, v, w}
    CardOf <- BookOf
    Texts <- BookTexts
    Files = {f1}
    Contents = {0, 1}
    Values = {0, 1}
    Eval <- Parity
    Blank = Blank
    NoSpec = NoSpec
    Undef = Undef
    MaxCalls = 3
    MaxCrashes = 1
    MaxNested = 20
    MaxVites = 5
    MaxBounces = 2
    MaxFastCrashes = 2
    Paths = {pa, pb}
    Editors = {s1}
    External = External
    MaxWrites = 1
    MaxEdits = 2
    MaxLedgerFaults = 1
    q1 = q1  q2 = q2  g1 = g1  word = word  other = other
    Annos = {q1, q2, g1}
    Questions = {q1, q2}
    Suggestions = {g1}
    Replacement <- OtherWord
    Drafts <- DocDrafts
    Preview = 2
    ContextLen = 1
    MaxTail = 3
    MaxEvents = 3
    MaxTextEdits = 1
    MaxQuote = 1
    NoText = NoText
    NoAnno = NoAnno
    NoSpan = NoSpan
    MaxCacheInputs = 3
    MaxCacheFaults = 1
    NotRead = NotRead
SPECIFICATION PartsSpec
INVARIANTS
    TypesOK ElementsWhole
    ThreadsTrue AcceptedSurvives MembersReached
    SeatsHold
    ShownIsWaitedFor DecisionsHold
    SessionsTrue TurnViewsAgree
    OneKernelPerNotebook
    PressesClean CellsCurrent
    OneStack LedgerHolds LedgerTrue CardsShowDisk
PROPERTIES LiveSeatKept EverythingEnds HealsAtOnce
CHECK_DEADLOCK FALSE
