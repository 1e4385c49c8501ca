-------------------------- MODULE CommercialRuntime -------------------------
(***************************************************************************)
(* The commercial runtime server over its SQLite store, and the browsers   *)
(* that use it.  A session is a random token and names a tenant of its     *)
(* own.  A handler runs until it awaits: the body of the request, a file   *)
(* of the web page, or the store; other handlers run in between.  Sessions *)
(* and latest results live in the process, records in the store.  The      *)
(* process may die or be stopped, and answers may be lost.                 *)
(***************************************************************************)
EXTENDS Naturals, Sequences, FiniteSets, FinancialLedger

CONSTANTS
    Clients,        \* browsers
    NoClient,
    Tokens,         \* what randomBytes(24) may give; it never repeats
    NoToken,
    Ledgers,        \* CSV sources that browsers have
    Sheets,         \* balance sheets they give with one
    Bodies,         \* what they ask to be analysed
    NoBody, NoAsk,
    NoResult,
    Requests,       \* bound: requests under way at a time
    MaxAccepted,    \* bound: analyses accepted for a tenant
    MaxStops        \* bound: crashes and shutdowns

ASSUME CommercialNamesAssumption ==
    NoClient \notin Clients /\ NoToken \notin Tokens
ASSUME CommercialBoundsAssumption == MaxAccepted \in Nat /\ MaxStops \in Nat

(* What is asked to be analysed.                                           *)
Body == [ledger : Ledgers, sheet : Sheets]

ASSUME LedgersAssumption ==
    /\ Ledgers \subseteq Ledger /\ Sheets \subseteq Sheet
    /\ Bodies \subseteq Body

VARIABLES
    server,         \* "up", "closing" or "down"
    sessions,       \* tokens the process knows
    latest,         \* the latest accepted result of each tenant
    store,          \* keys of the persisted records: <<tenant, ledger>>
    owner,          \* history: the browser a token was made for
    submitted,      \* history: <<browser, ledger>> it has asked to analyse
    accepted,       \* history: analyses accepted for each tenant
    cookie,         \* the token a browser holds
    seen,           \* history: the latest analysis a browser had accepted
    at,             \* where a request is
    asked,          \* what it asks
    body,           \* the body its handler has read and still needs
    answer,         \* what it was answered
    stops

processVars == <<server, sessions, latest, stops>>
historyVars == <<owner, submitted, accepted>>
browserVars == <<cookie, seen>>
requestVars == <<at, asked, body, answer>>
commercialVars == <<processVars, store, historyVars, browserVars, requestVars>>

(* GET /health, /api/ready and the files of the page touch no state, nor   *)
(* does an unknown path.                                                   *)
Routes == {"openSession", "showSession", "analyze", "dashboard"}

Ask == [client : Clients, route : Routes, cookie : Tokens \cup {NoToken},
        floor : Nat]

Result == [tenant : Tokens, source : Ledgers, sheet : Sheets,
           metrics : {Figures(l, s) : l \in Ledgers, s \in Sheets},
           number : Nat]

Answer == [status : {0, 200, 201, 400, 401, 422},
           token : Tokens \cup {NoToken},
           result : Result \cup {NoResult}]

Unanswered == [status |-> 0, token |-> NoToken, result |-> NoResult]

(* Where a request is in the server, and where it may be at all.           *)
Handling == {"sent", "body", "stored"}
Places == Handling \cup {"free", "answered"}

CommercialInit ==
    /\ server = "up" /\ stops = 0
    /\ sessions = {} /\ store = {}
    /\ latest = [t \in Tokens |-> NoResult]
    /\ owner = [t \in Tokens |-> NoClient]
    /\ submitted = {}
    /\ accepted = [t \in Tokens |-> 0]
    /\ cookie = [c \in Clients |-> NoToken]
    /\ seen = [c \in Clients |-> 0]
    /\ at = [r \in Requests |-> "free"]
    /\ asked = [r \in Requests |-> NoAsk]
    /\ body = [r \in Requests |-> NoBody]
    /\ answer = [r \in Requests |-> Unanswered]

(***************************************************************************)
(* The browser.                                                            *)
(***************************************************************************)

(* web/app.js sends the cookie it holds with every request.                *)
Send(r, c, route) ==
    /\ server = "up"
    /\ at[r] = "free"
    /\ at' = [at EXCEPT ![r] = "sent"]
    /\ asked' = [asked EXCEPT ![r] =
         [client |-> c, route |-> route, cookie |-> cookie[c], floor |-> seen[c]]]
    /\ UNCHANGED <<processVars, store, historyVars, browserVars, body, answer>>

Release(r) ==
    /\ at' = [at EXCEPT ![r] = "free"]
    /\ asked' = [asked EXCEPT ![r] = NoAsk]
    /\ answer' = [answer EXCEPT ![r] = Unanswered]

(* Set-Cookie replaces the cookie; an answer to an older session's request *)
(* says nothing about the present one.                                     *)
Receive(r) ==
    LET c == asked[r].client
        a == answer[r]
    IN  /\ at[r] = "answered"
        /\ Release(r)
        /\ IF a.status = 201
           THEN /\ cookie' = [cookie EXCEPT ![c] = a.token]
                /\ seen' = [seen EXCEPT ![c] = 0]
           ELSE /\ cookie' = cookie
                /\ IF /\ asked[r].route = "analyze" /\ a.status = 200
                      /\ asked[r].cookie = cookie[c]
                      /\ a.result.number > seen[c]
                   THEN seen' = [seen EXCEPT ![c] = a.result.number]
                   ELSE seen' = seen
        /\ UNCHANGED <<processVars, store, historyVars, body>>

(* The connection breaks, or Node ends a request whose body does not come. *)
(* A handler that awaits the body fails, and answers nobody.               *)
Disconnect(r) ==
    /\ at[r] \in {"body", "answered"}
    /\ Release(r)
    /\ UNCHANGED <<processVars, store, historyVars, browserVars, body>>

(***************************************************************************)
(* The handler of createServer.                                            *)
(***************************************************************************)
AnswerWith(r, status, token, result) ==
    /\ at' = [at EXCEPT ![r] = "answered"]
    /\ body' = [body EXCEPT ![r] = NoBody]
    /\ answer' = [answer EXCEPT ![r] =
                    [status |-> status, token |-> token, result |-> result]]

Refuse(r, status) == AnswerWith(r, status, NoToken, NoResult)
AwaitBody(r) == at' = [at EXCEPT ![r] = "body"] /\ UNCHANGED <<body, answer>>

HasSession(r) == asked[r].cookie \in sessions

ShowSession(r) == AnswerWith(r, 200, asked[r].cookie, NoResult)
(* Fault: a tenant without a result is shown that of another.              *)
DashboardUnscoped(r) ==
    IF latest[asked[r].cookie] # NoResult
    THEN AnswerWith(r, 200, NoToken, latest[asked[r].cookie])
    ELSE \E t \in Tokens : AnswerWith(r, 200, NoToken, latest[t])

Dashboard(r) == AnswerWith(r, 200, NoToken, latest[asked[r].cookie])

(* Up to the first await.  The route of the session form is looked at      *)
(* before the session is asked for.                                        *)
Begin(r) ==
    /\ at[r] = "sent"
    /\ \/ asked[r].route = "openSession" /\ AwaitBody(r)
       \/ asked[r].route # "openSession" /\ ~ HasSession(r) /\ Refuse(r, 401)
       \/ asked[r].route = "showSession" /\ HasSession(r) /\ ShowSession(r)
       \/ asked[r].route = "analyze" /\ HasSession(r) /\ AwaitBody(r)
       \/ asked[r].route = "dashboard" /\ HasSession(r) /\ Dashboard(r)
    /\ UNCHANGED <<processVars, store, historyVars, browserVars, asked>>

(* The body is no JSON object, larger than a mebibyte (413), or lacks a    *)
(* required field; ingestCsv rejects the ledger, or the store fails.       *)
RefuseBody(r) ==
    /\ at[r] = "body"
    /\ Refuse(r, 400)
    /\ UNCHANGED <<processVars, store, historyVars, browserVars, asked>>

OpenSession(r, token) ==
    /\ at[r] = "body" /\ asked[r].route = "openSession"
    /\ owner[token] = NoClient
    /\ sessions' = sessions \cup {token}
    /\ owner' = [owner EXCEPT ![token] = asked[r].client]
    /\ AnswerWith(r, 201, token, NoResult)
    /\ UNCHANGED <<server, latest, stops, store, submitted, accepted,
                   browserVars, asked>>

(* Fault: the key of a record is the hash alone, so a ledger another       *)
(* tenant has sent is not written again.                                   *)
WriteUnscoped(tenant, ledger) ==
    store' = IF \E t \in Tokens : <<t, ledger>> \in store THEN store
             ELSE store \cup {<<tenant, ledger>>}

(* A record of the same tenant and hash is written over.                   *)
Write(tenant, ledger) == store' = store \cup {<<tenant, ledger>>}

IngestCsv(tenant, ledger) == LedgerAccepted(ledger) /\ Write(tenant, ledger)

(* The body has come; the handler awaits the write.                        *)
Ingest(r, given) ==
    /\ at[r] = "body" /\ asked[r].route = "analyze"
    /\ IngestCsv(asked[r].cookie, given.ledger)
    /\ submitted' = submitted \cup {<<asked[r].client, given.ledger>>}
    /\ at' = [at EXCEPT ![r] = "stored"]
    /\ body' = [body EXCEPT ![r] = given]
    /\ UNCHANGED <<processVars, owner, accepted, browserVars, asked, answer>>

(* A negative sheet, or reasoning that fails: the record stays.            *)
AnalysisBlocked(r) ==
    /\ at[r] = "stored"
    /\ Refuse(r, 422)
    /\ UNCHANGED <<processVars, store, historyVars, browserVars, asked>>

AnalysisResult(r) ==
    [tenant |-> asked[r].cookie, source |-> body[r].ledger,
     sheet |-> body[r].sheet, metrics |-> Figures(body[r].ledger, body[r].sheet),
     number |-> accepted[asked[r].cookie] + 1]

(* Fault: a tenant's first result is kept.                                 *)
AnalyseKeepsFirst(r) ==
    /\ at[r] = "stored"
    /\ SheetAccepted(body[r].sheet)
    /\ accepted[asked[r].cookie] < MaxAccepted
    /\ accepted' = [accepted EXCEPT ![asked[r].cookie] = @ + 1]
    /\ latest' = IF latest[asked[r].cookie] # NoResult THEN latest
                 ELSE [latest EXCEPT ![asked[r].cookie] = AnalysisResult(r)]
    /\ AnswerWith(r, 200, NoToken, AnalysisResult(r))
    /\ UNCHANGED <<server, sessions, stops, store, owner, submitted,
                   browserVars, asked>>

(* The latest result is the one whose handler resumes last.                *)
Analyse(r) ==
    /\ at[r] = "stored"
    /\ SheetAccepted(body[r].sheet)
    /\ accepted[asked[r].cookie] < MaxAccepted
    /\ accepted' = [accepted EXCEPT ![asked[r].cookie] = @ + 1]
    /\ latest' = [latest EXCEPT ![asked[r].cookie] = AnalysisResult(r)]
    /\ AnswerWith(r, 200, NoToken, AnalysisResult(r))
    /\ UNCHANGED <<server, sessions, stops, store, owner, submitted,
                   browserVars, asked>>

(***************************************************************************)
(* The process.  What it had not answered is lost with it.                 *)
(***************************************************************************)
Exit ==
    /\ server' = "down"
    /\ sessions' = {}
    /\ latest' = [t \in Tokens |-> NoResult]
    /\ at' = [r \in Requests |-> IF at[r] \in Handling THEN "free" ELSE at[r]]
    /\ asked' = [r \in Requests |-> IF at[r] \in Handling THEN NoAsk ELSE asked[r]]
    /\ body' = [r \in Requests |-> NoBody]
    /\ UNCHANGED <<store, historyVars, browserVars, answer>>

Crash ==
    /\ server # "down" /\ stops < MaxStops
    /\ stops' = stops + 1
    /\ Exit

(* SIGINT or SIGTERM: server.close, which lets requests end ...            *)
Shutdown ==
    /\ server = "up" /\ stops < MaxStops
    /\ stops' = stops + 1
    /\ server' = "closing"
    /\ UNCHANGED <<sessions, latest, store, historyVars, browserVars, requestVars>>

(* ... and then closes the database and leaves.                            *)
Closed ==
    /\ server = "closing"
    /\ \A r \in Requests : at[r] \notin Handling
    /\ Exit
    /\ UNCHANGED stops

Start ==
    /\ server = "down"
    /\ server' = "up"
    /\ UNCHANGED <<sessions, latest, stops, store, historyVars, browserVars,
                   requestVars>>

Handle(r) ==
    \/ Begin(r)
    \/ RefuseBody(r)
    \/ \E token \in Tokens : OpenSession(r, token)
    \/ \E given \in Bodies : Ingest(r, given)
    \/ AnalysisBlocked(r)
    \/ Analyse(r)

CommercialNext ==
    \/ \E r \in Requests, c \in Clients, route \in Routes : Send(r, c, route)
    \/ \E r \in Requests : Receive(r) \/ Disconnect(r) \/ Handle(r)
    \/ Crash \/ Shutdown \/ Closed \/ Start

CommercialSpec == CommercialInit /\ [][CommercialNext]_commercialVars

(***************************************************************************)
(* Properties.                                                             *)
(***************************************************************************)
CommercialTypeOK ==
    /\ server \in {"up", "closing", "down"} /\ stops \in Nat
    /\ sessions \subseteq Tokens
    /\ latest \in [Tokens -> Result \cup {NoResult}]
    /\ store \subseteq Tokens \X Ledgers
    /\ owner \in [Tokens -> Clients \cup {NoClient}]
    /\ submitted \subseteq Clients \X Ledgers
    /\ accepted \in [Tokens -> Nat]
    /\ cookie \in [Clients -> Tokens \cup {NoToken}]
    /\ seen \in [Clients -> Nat]
    /\ at \in [Requests -> Places]
    /\ asked \in [Requests -> Ask \cup {NoAsk}]
    /\ body \in [Requests -> Bodies \cup {NoBody}]
    /\ answer \in [Requests -> Answer]

(* What a result rests on: an accepted ledger that is persisted for the    *)
(* tenant and that the tenant's browser itself submitted.                  *)
RestsOnRecord(result) ==
    /\ LedgerAccepted(result.source) /\ SheetAccepted(result.sheet)
    /\ <<result.tenant, result.source>> \in store
    /\ <<owner[result.tenant], result.source>> \in submitted

(* The latest result of a tenant is the tenant's own, and rests on a       *)
(* persisted record: the store is written before the result is kept, and   *)
(* a stop that loses the results loses no record.                          *)
LatestRestsOnRecord ==
    \A t \in Tokens :
        latest[t] # NoResult => latest[t].tenant = t /\ RestsOnRecord(latest[t])

(* Whatever handlers run in between, a browser is shown results of its own *)
(* tenant only, and what it was told was accepted is persisted for good.   *)
AnswersStayInTenant ==
    \A r \in Requests :
        at[r] = "answered" /\ answer[r].result # NoResult =>
            /\ answer[r].result.tenant = asked[r].cookie
            /\ owner[asked[r].cookie] = asked[r].client
            /\ RestsOnRecord(answer[r].result)

(* A dashboard asked for after an analysis was accepted shows that         *)
(* analysis or a later one of the session, never an older one or none.     *)
DashboardReadsOwnAnalyses ==
    \A r \in Requests :
        at[r] = "answered" /\ asked[r].route = "dashboard"
        /\ answer[r].status = 200 /\ asked[r].floor > 0 =>
            /\ answer[r].result # NoResult
            /\ answer[r].result.number >= asked[r].floor
=============================================================================
