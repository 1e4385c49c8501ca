\* Two browsers, two tokens, two requests at a time, a crash or a shutdown.
CONSTANTS
    Clients = {c1, c2}
    NoClient = NoClient
    Tokens = {t1, t2}
    NoToken = NoToken
    Ledgers <- MCLedgers
    Sheets <- MCSheets
    Bodies <- MCBodies
    NoBody = NoBody
    NoAsk = NoAsk
    NoResult = NoResult
    Requests = {r1, r2}
    MaxAccepted = 2
    MaxStops = 1
SPECIFICATION CommercialSpec
SYMMETRY Interchangeable
CHECK_DEADLOCK FALSE
INVARIANTS
    LatestRestsOnRecord
    AnswersStayInTenant
    DashboardReadsOwnAnalyses
