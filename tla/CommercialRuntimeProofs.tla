---------------------- MODULE CommercialRuntimeProofs -----------------------
(***************************************************************************)
(* The properties of the commercial server, for any number of browsers,    *)
(* sessions, ledgers, requests under way and stops; and of the identity    *)
(* service, for any number of users, organizations, sessions and events.   *)
(***************************************************************************)
EXTENDS CommercialRuntime, CommercialIdentity, FiniteSetTheorems, TLAPS

Shapes ==
    /\ at \in [Requests -> Places]
    /\ DOMAIN asked = Requests /\ DOMAIN body = Requests /\ DOMAIN answer = Requests
    /\ owner \in [Tokens -> Clients \cup {NoClient}]
    /\ cookie \in [Clients -> Tokens \cup {NoToken}]
    /\ seen \in [Clients -> Nat]
    /\ accepted \in [Tokens -> Nat]
    /\ DOMAIN latest = Tokens
    /\ sessions \subseteq Tokens
    /\ submitted \subseteq Clients \X Ledgers

(* A browser holds a token made for it, and has seen nothing yet to come.  *)
BrowserOK(c) ==
    /\ cookie[c] \in Tokens => owner[cookie[c]] = c /\ seen[c] <= accepted[cookie[c]]
    /\ cookie[c] \notin Tokens => seen[c] = 0

(* While a session lives, its latest result is the last one accepted.      *)
TenantOK(t) ==
    /\ latest[t] # NoResult =>
          /\ latest[t].tenant = t /\ RestsOnRecord(latest[t])
          /\ latest[t].number = accepted[t]
    /\ accepted[t] > 0 => owner[t] \in Clients /\ (t \in sessions => latest[t] # NoResult)

(* A request carries the token of its browser and what it had seen.        *)
AskOK(r) ==
    at[r] # "free" =>
        /\ asked[r] \in Ask
        /\ asked[r].cookie \in Tokens =>
              /\ owner[asked[r].cookie] = asked[r].client
              /\ asked[r].floor <= accepted[asked[r].cookie]
        /\ asked[r].cookie \notin Tokens => asked[r].floor = 0

(* A handler that awaits has a session, and after the store a record.      *)
HandlerOK(r) ==
    /\ at[r] = "body" /\ asked[r].route = "analyze" => asked[r].cookie \in Tokens
    /\ at[r] = "stored" =>
          /\ asked[r].route = "analyze" /\ asked[r].cookie \in Tokens
          /\ LedgerAccepted(body[r].ledger)
          /\ <<asked[r].cookie, body[r].ledger>> \in store
          /\ <<asked[r].client, body[r].ledger>> \in submitted

AnswerOK(r) ==
    at[r] = "answered" =>
        /\ answer[r].status = 201 =>
              answer[r].token \in Tokens /\ owner[answer[r].token] = asked[r].client
        /\ answer[r].result # NoResult =>
              /\ asked[r].cookie \in Tokens
              /\ answer[r].result.tenant = asked[r].cookie
              /\ RestsOnRecord(answer[r].result)
        /\ answer[r].status = 200 /\ asked[r].route = "analyze" =>
              /\ asked[r].cookie \in Tokens
              /\ answer[r].result.number \in Nat
              /\ answer[r].result.number <= accepted[asked[r].cookie]
        /\ answer[r].status = 200 /\ asked[r].route = "dashboard" /\ asked[r].floor > 0 =>
              /\ answer[r].result # NoResult
              /\ answer[r].result.number >= asked[r].floor

RequestOK(r) == AskOK(r) /\ HandlerOK(r) /\ AnswerOK(r)

CommercialInv ==
    /\ Shapes
    /\ \A c \in Clients : BrowserOK(c)
    /\ \A t \in Tokens : TenantOK(t)
    /\ \A r \in Requests : RequestOK(r)

(* Results are records, and the bodies that are asked for have a ledger.   *)
NamesApart == \A t, l, s, f, n :
    [tenant |-> t, source |-> l, sheet |-> s, metrics |-> f, number |-> n] # NoResult

-----------------------------------------------------------------------------
(* What is recorded is never taken back.                                   *)
Grows ==
    /\ \A t \in Tokens : owner[t] \in Clients => owner'[t] = owner[t]
    /\ \A t \in Tokens : accepted[t] <= accepted'[t]
    /\ store \subseteq store'
    /\ submitted \subseteq submitted'

LEMMA RecordsStay ==
    ASSUME Shapes, Grows, NEW result, result.tenant \in Tokens, RestsOnRecord(result)
    PROVE  RestsOnRecord(result)'
BY DEF Shapes, Grows, RestsOnRecord

(* A request nobody touches stays as it is.                                *)
LEMMA RequestStays ==
    ASSUME Shapes, Shapes', Grows, NEW r \in Requests, RequestOK(r),
           at'[r] = at[r], asked'[r] = asked[r], body'[r] = body[r],
           answer'[r] = answer[r]
    PROVE  RequestOK(r)'
<1>1. AskOK(r)'
    BY CommercialNamesAssumption DEF RequestOK, AskOK, Ask, Shapes, Grows
<1>2. HandlerOK(r)'
    BY DEF RequestOK, HandlerOK, Grows
<1>3. AnswerOK(r)'
    <2>1. CASE at[r] # "answered"
        BY <2>1 DEF AnswerOK
    <2>2. CASE at[r] = "answered"
        <3>1. /\ asked[r].client \in Clients
              /\ asked[r].floor \in Nat
            BY <2>2 DEF RequestOK, AskOK, Ask
        <3>2. answer[r].status = 201 =>
                 answer[r].token \in Tokens /\ owner'[answer[r].token] = asked[r].client
            BY <2>2, <3>1 DEF RequestOK, AnswerOK, Grows
        <3>3. answer[r].result # NoResult =>
                 /\ asked[r].cookie \in Tokens
                 /\ answer[r].result.tenant = asked[r].cookie
                 /\ RestsOnRecord(answer[r].result)'
            BY <2>2, RecordsStay DEF RequestOK, AnswerOK, RestsOnRecord, Grows, Shapes
        <3>4. answer[r].status = 200 /\ asked[r].route = "analyze" =>
                 /\ asked[r].cookie \in Tokens
                 /\ answer[r].result.number \in Nat
                 /\ answer[r].result.number <= accepted'[asked[r].cookie]
            BY <2>2 DEF RequestOK, AnswerOK, Grows, Shapes
        <3>5. answer[r].status = 200 /\ asked[r].route = "dashboard" /\ asked[r].floor > 0 =>
                 /\ answer[r].result # NoResult
                 /\ answer[r].result.number >= asked[r].floor
            BY <2>2 DEF RequestOK, AnswerOK
        <3> QED
            BY <3>2, <3>3, <3>4, <3>5 DEF AnswerOK
    <2> QED
        BY <2>1, <2>2
<1> QED
    BY <1>1, <1>2, <1>3 DEF RequestOK
LEMMA BrowserStays ==
    ASSUME Shapes, Shapes', Grows, NEW c \in Clients, BrowserOK(c),
           cookie'[c] = cookie[c], seen'[c] = seen[c]
    PROVE  BrowserOK(c)'
BY CommercialNamesAssumption DEF BrowserOK, Shapes, Grows

LEMMA TenantStays ==
    ASSUME Shapes, Shapes', Grows, NEW t \in Tokens, TenantOK(t),
           latest'[t] = latest[t], accepted'[t] = accepted[t],
           t \in sessions' => t \in sessions \/ accepted[t] = 0
    PROVE  TenantOK(t)'
<1>1. latest[t] # NoResult => RestsOnRecord(latest[t])'
    BY RecordsStay DEF TenantOK
<1>2. latest'[t] # NoResult =>
         /\ latest'[t].tenant = t /\ RestsOnRecord(latest[t])'
         /\ latest'[t].number = accepted'[t]
    BY <1>1 DEF TenantOK
<1>3. accepted'[t] > 0 =>
         owner'[t] \in Clients /\ (t \in sessions' => latest'[t] # NoResult)
    BY DEF TenantOK, Grows, Shapes
<1> QED
    BY <1>2, <1>3 DEF TenantOK

(* What is left to show of a step that does something to one request only. *)
LEMMA OneRequest ==
    ASSUME CommercialInv, Shapes', Grows, NEW r \in Requests, RequestOK(r)',
           UNCHANGED <<cookie, seen, latest, accepted>>,
           \A t \in Tokens : t \in sessions' => t \in sessions \/ accepted[t] = 0,
           \A q \in Requests \ {r} :
              /\ at'[q] = at[q] /\ asked'[q] = asked[q]
              /\ body'[q] = body[q] /\ answer'[q] = answer[q]
    PROVE  CommercialInv'
<1>1. \A q \in Requests : RequestOK(q)'
    <2>1. ASSUME NEW q \in Requests \ {r}
          PROVE  RequestOK(q)'
        BY <2>1, RequestStays DEF CommercialInv
    <2> QED
        BY <2>1
<1>2. \A c \in Clients : BrowserOK(c)'
    BY BrowserStays DEF CommercialInv
<1>3. \A t \in Tokens : TenantOK(t)'
    BY TenantStays DEF CommercialInv
<1> QED
    BY <1>1, <1>2, <1>3 DEF CommercialInv

(* A step that changes neither the records nor who has them.               *)
LEMMA NothingRecorded ==
    ASSUME Shapes, UNCHANGED <<owner, accepted, store, submitted>>
    PROVE  Grows
BY DEF Shapes, Grows

-----------------------------------------------------------------------------
LEMMA SendStep ==
    ASSUME CommercialInv, NEW r \in Requests, NEW c \in Clients, NEW route \in Routes,
           Send(r, c, route)
    PROVE  CommercialInv'
<1> DEFINE ask == [client |-> c, route |-> route, cookie |-> cookie[c], floor |-> seen[c]]
<1>1. /\ at' = [at EXCEPT ![r] = "sent"]
      /\ asked' = [asked EXCEPT ![r] = ask]
      /\ UNCHANGED <<sessions, latest, store, owner, submitted, accepted, cookie, seen,
                     body, answer>>
    BY DEF Send, processVars, historyVars, browserVars
<1>2. Shapes' /\ Grows
    BY <1>1, NothingRecorded DEF CommercialInv, Shapes, Places, Handling
<1>3. at'[r] = "sent" /\ asked'[r] = ask
    BY <1>1 DEF CommercialInv, Shapes
<1>4. ask \in Ask
    BY DEF Ask, CommercialInv, Shapes
<1>5. AskOK(r)'
    BY <1>1, <1>3, <1>4, CommercialNamesAssumption DEF AskOK, CommercialInv, BrowserOK
<1>6. HandlerOK(r)' /\ AnswerOK(r)'
    BY <1>3 DEF HandlerOK, AnswerOK
<1> HIDE DEF ask
<1> QED
    BY <1>1, <1>2, <1>5, <1>6, OneRequest DEF RequestOK, CommercialInv, Shapes

(* A request that is over leaves nothing to keep.                          *)
LEMMA ReleasedOK ==
    ASSUME CommercialInv, NEW r \in Requests, Release(r)
    PROVE  /\ at' \in [Requests -> Places]
           /\ DOMAIN asked' = Requests /\ DOMAIN answer' = Requests
           /\ RequestOK(r)'
           /\ \A q \in Requests \ {r} :
                /\ at'[q] = at[q] /\ asked'[q] = asked[q] /\ answer'[q] = answer[q]
<1>1. /\ at' = [at EXCEPT ![r] = "free"]
      /\ asked' = [asked EXCEPT ![r] = NoAsk]
      /\ answer' = [answer EXCEPT ![r] = Unanswered]
      /\ at \in [Requests -> Places] /\ DOMAIN asked = Requests /\ DOMAIN answer = Requests
    BY DEF Release, CommercialInv, Shapes
<1>2. at'[r] = "free" /\ at' \in [Requests -> Places]
    BY <1>1 DEF Places
<1>3. RequestOK(r)'
    BY <1>2 DEF RequestOK, AskOK, HandlerOK, AnswerOK
<1> QED
    BY <1>1, <1>2, <1>3

LEMMA DisconnectStep ==
    ASSUME CommercialInv, NEW r \in Requests, Disconnect(r)
    PROVE  CommercialInv'
<1>1. /\ Release(r)
      /\ UNCHANGED <<sessions, latest, store, owner, submitted, accepted, cookie, seen, body>>
    BY DEF Disconnect, processVars, historyVars, browserVars
<1>2. Shapes' /\ Grows
    BY <1>1, ReleasedOK, NothingRecorded DEF CommercialInv, Shapes
<1> QED
    BY <1>1, <1>2, ReleasedOK, OneRequest DEF CommercialInv, Shapes

(* A browser that takes an answer changes nothing for the others.          *)
LEMMA OtherThanBrowsers ==
    ASSUME CommercialInv, Shapes', Grows, NEW r \in Requests, Release(r),
           UNCHANGED <<sessions, latest, accepted, body>>,
           \A c \in Clients : BrowserOK(c)'
    PROVE  CommercialInv'
<1>1. \A q \in Requests : RequestOK(q)'
    <2>1. ASSUME NEW q \in Requests \ {r}
          PROVE  RequestOK(q)'
        BY <2>1, ReleasedOK, RequestStays DEF CommercialInv
    <2> QED
        BY <2>1, ReleasedOK
<1>2. \A t \in Tokens : TenantOK(t)'
    BY TenantStays DEF CommercialInv
<1> QED
    BY <1>1, <1>2 DEF CommercialInv

LEMMA ReceiveStep ==
    ASSUME CommercialInv, NEW r \in Requests, Receive(r)
    PROVE  CommercialInv'
<1>0. PICK c, a : c = asked[r].client /\ a = answer[r]
    OBVIOUS
<1>1. /\ at[r] = "answered" /\ Release(r)
      /\ UNCHANGED <<sessions, latest, store, owner, submitted, accepted, body>>
      /\ \/ /\ a.status = 201
            /\ cookie' = [cookie EXCEPT ![c] = a.token]
            /\ seen' = [seen EXCEPT ![c] = 0]
         \/ /\ cookie' = cookie
            /\ asked[r].route = "analyze" /\ a.status = 200
            /\ asked[r].cookie = cookie[c]
            /\ seen' = [seen EXCEPT ![c] = a.result.number]
         \/ cookie' = cookie /\ seen' = seen
    BY <1>0 DEF Receive, processVars, historyVars
<1>2. AskOK(r) /\ AnswerOK(r) /\ Shapes /\ c \in Clients
    BY <1>0, <1>1 DEF CommercialInv, RequestOK, AskOK, Ask
<1>3. CASE /\ a.status = 201
           /\ cookie' = [cookie EXCEPT ![c] = a.token]
           /\ seen' = [seen EXCEPT ![c] = 0]
    <2>1. a.token \in Tokens /\ owner[a.token] = c
        BY <1>0, <1>1, <1>2, <1>3 DEF AnswerOK
    <2>2. Shapes' /\ Grows
        BY <1>1, <1>2, <1>3, <2>1, ReleasedOK, NothingRecorded DEF Shapes
    <2>3. \A d \in Clients : BrowserOK(d)'
        <3>1. ASSUME NEW d \in Clients \ {c}
              PROVE  BrowserOK(d)'
            BY <1>2, <1>3, <2>2, BrowserStays DEF CommercialInv, Shapes
        <3>2. cookie'[c] = a.token /\ seen'[c] = 0 /\ accepted'[a.token] \in Nat
            BY <1>1, <1>2, <1>3, <2>1 DEF Shapes
        <3>3. BrowserOK(c)'
            BY <1>1, <2>1, <3>2 DEF BrowserOK
        <3> QED
            BY <3>1, <3>3
    <2> QED
        BY <1>1, <2>2, <2>3, OtherThanBrowsers
<1>4. CASE /\ cookie' = cookie
           /\ asked[r].route = "analyze" /\ a.status = 200
           /\ asked[r].cookie = cookie[c]
           /\ seen' = [seen EXCEPT ![c] = a.result.number]
    <2>1. /\ cookie[c] \in Tokens
          /\ a.result.number \in Nat /\ a.result.number <= accepted[cookie[c]]
        BY <1>0, <1>1, <1>2, <1>4 DEF AnswerOK
    <2>2. Shapes' /\ Grows
        BY <1>1, <1>2, <1>4, <2>1, ReleasedOK, NothingRecorded DEF Shapes
    <2>3. \A d \in Clients : BrowserOK(d)'
        <3>1. ASSUME NEW d \in Clients \ {c}
              PROVE  BrowserOK(d)'
            BY <1>2, <1>4, <2>2, BrowserStays DEF CommercialInv, Shapes
        <3>2. cookie'[c] = cookie[c] /\ seen'[c] = a.result.number
            BY <1>2, <1>4 DEF Shapes
        <3>3. BrowserOK(c)'
            BY <1>1, <1>2, <2>1, <3>2 DEF BrowserOK, CommercialInv
        <3> QED
            BY <3>1, <3>3
    <2> QED
        BY <1>1, <2>2, <2>3, OtherThanBrowsers
<1>5. CASE cookie' = cookie /\ seen' = seen
    <2>1. Shapes' /\ Grows
        BY <1>1, <1>2, <1>5, ReleasedOK, NothingRecorded DEF Shapes
    <2>2. \A d \in Clients : BrowserOK(d)'
        BY <1>5, <2>1, BrowserStays DEF CommercialInv
    <2> QED
        BY <1>1, <2>1, <2>2, OtherThanBrowsers
<1> QED
    BY <1>1, <1>3, <1>4, <1>5
-----------------------------------------------------------------------------
(* What a handler answers, and that it changes this request only.          *)
LEMMA Answered ==
    ASSUME CommercialInv, NEW r \in Requests, NEW status, NEW token, NEW result,
           AnswerWith(r, status, token, result), UNCHANGED asked
    PROVE  /\ at' \in [Requests -> Places] /\ at'[r] = "answered"
           /\ DOMAIN body' = Requests /\ DOMAIN answer' = Requests
           /\ answer'[r].status = status /\ answer'[r].token = token
           /\ answer'[r].result = result
           /\ asked'[r] = asked[r]
           /\ HandlerOK(r)'
           /\ \A q \in Requests \ {r} :
                /\ at'[q] = at[q] /\ asked'[q] = asked[q]
                /\ body'[q] = body[q] /\ answer'[q] = answer[q]
<1>1. /\ at' = [at EXCEPT ![r] = "answered"]
      /\ body' = [body EXCEPT ![r] = NoBody]
      /\ answer' = [answer EXCEPT ![r] =
                       [status |-> status, token |-> token, result |-> result]]
      /\ at \in [Requests -> Places] /\ DOMAIN body = Requests /\ DOMAIN answer = Requests
    BY DEF AnswerWith, CommercialInv, Shapes
<1>2. at' \in [Requests -> Places] /\ at'[r] = "answered"
    BY <1>1 DEF Places
<1>3. HandlerOK(r)'
    BY <1>2 DEF HandlerOK
<1> QED
    BY <1>1, <1>2, <1>3

(* A refusal promises nothing, and is given to any request.                *)
LEMMA RefusalStep ==
    ASSUME CommercialInv, NEW r \in Requests, at[r] # "free",
           NEW status \in {400, 401, 422}, Refuse(r, status),
           UNCHANGED <<processVars, store, historyVars, browserVars, asked>>
    PROVE  CommercialInv'
<1>1. AnswerWith(r, status, NoToken, NoResult) /\ UNCHANGED asked
    BY DEF Refuse
<1>2. UNCHANGED <<sessions, latest, store, owner, submitted, accepted, cookie, seen>>
    BY DEF processVars, historyVars, browserVars
<1>3. Shapes' /\ Grows
    BY <1>1, <1>2, Answered, NothingRecorded DEF CommercialInv, Shapes
<1>4. AskOK(r)'
    BY <1>1, <1>2, Answered DEF CommercialInv, RequestOK, AskOK
<1>5. AnswerOK(r)'
    BY <1>1, Answered DEF AnswerOK
<1>6. RequestOK(r)'
    BY <1>1, <1>4, <1>5, Answered DEF RequestOK
<1> QED
    BY <1>1, <1>2, <1>3, <1>6, Answered, OneRequest

LEMMA BeginStep ==
    ASSUME CommercialInv, NEW r \in Requests, Begin(r)
    PROVE  CommercialInv'
<1>1. /\ at[r] = "sent"
      /\ UNCHANGED <<processVars, store, historyVars, browserVars, asked>>
      /\ UNCHANGED <<sessions, latest, store, owner, submitted, accepted, cookie, seen>>
    BY DEF Begin, processVars, historyVars, browserVars
<1>2. AskOK(r) /\ Shapes
    BY DEF CommercialInv, RequestOK
<1>3. CASE AwaitBody(r) /\ (asked[r].route = "openSession" \/ HasSession(r))
    <2>1. /\ at' = [at EXCEPT ![r] = "body"] /\ UNCHANGED <<asked, body, answer>>
        BY <1>1, <1>3 DEF AwaitBody
    <2>2. Shapes' /\ Grows /\ at'[r] = "body"
        BY <1>1, <1>2, <2>1, NothingRecorded DEF Shapes, Places, Handling
    <2>3. AskOK(r)'
        BY <1>1, <1>2, <2>1, <2>2 DEF AskOK
    <2>4. HandlerOK(r)' /\ AnswerOK(r)'
        BY <1>2, <1>3, <2>1, <2>2 DEF HandlerOK, AnswerOK, HasSession, Shapes
    <2> QED
        BY <1>1, <1>2, <2>1, <2>2, <2>3, <2>4, OneRequest DEF RequestOK, Shapes
<1>4. CASE Refuse(r, 401)
    BY <1>1, <1>4, RefusalStep
<1>5. CASE asked[r].route = "showSession" /\ ShowSession(r)
    <2>1. AnswerWith(r, 200, asked[r].cookie, NoResult)
        BY <1>5 DEF ShowSession
    <2>2. Shapes' /\ Grows
        BY <1>1, <1>2, <2>1, Answered, NothingRecorded DEF Shapes
    <2>3. AskOK(r)'
        BY <1>1, <1>2, <2>1, Answered DEF AskOK
    <2>4. AnswerOK(r)'
        BY <1>1, <1>5, <2>1, Answered DEF AnswerOK
    <2> QED
        BY <1>1, <2>1, <2>2, <2>3, <2>4, Answered, OneRequest DEF RequestOK
<1>6. CASE asked[r].route = "dashboard" /\ HasSession(r) /\ Dashboard(r)
    <2>1. PICK t, a : t = asked[r].cookie /\ a = latest[t]
        OBVIOUS
    <2>2. AnswerWith(r, 200, NoToken, a) /\ t \in Tokens /\ t \in sessions
        BY <1>2, <1>6, <2>1 DEF Dashboard, HasSession, Shapes
    <2>3. Shapes' /\ Grows
        BY <1>1, <1>2, <2>2, Answered, NothingRecorded DEF Shapes
    <2>4. AskOK(r)'
        BY <1>1, <1>2, <2>2, Answered DEF AskOK
    <2>5. asked[r].floor \in Nat /\ asked[r].floor <= accepted[t] /\ accepted[t] \in Nat
        BY <1>1, <1>2, <2>1, <2>2 DEF AskOK, Ask, Shapes
    <2>6. a # NoResult => a.tenant = t /\ RestsOnRecord(a) /\ a.number = accepted[t]
        BY <2>1, <2>2 DEF CommercialInv, TenantOK
    <2>7. asked[r].floor > 0 => a # NoResult
        BY <2>1, <2>2, <2>5 DEF CommercialInv, TenantOK
    <2>8. a # NoResult => RestsOnRecord(a)'
        BY <1>1, <2>6 DEF RestsOnRecord
    <2>9. AnswerOK(r)'
        BY <1>1, <1>6, <2>1, <2>2, <2>5, <2>6, <2>7, <2>8, Answered DEF AnswerOK
    <2> QED
        BY <1>1, <2>2, <2>3, <2>4, <2>9, Answered, OneRequest DEF RequestOK
<1> QED
    BY <1>3, <1>4, <1>5, <1>6 DEF Begin

LEMMA OpenSessionStep ==
    ASSUME CommercialInv, NEW r \in Requests, NEW token \in Tokens, OpenSession(r, token)
    PROVE  CommercialInv'
<1>1. PICK c : c = asked[r].client
    OBVIOUS
<1>2. /\ at[r] = "body" /\ asked[r].route = "openSession"
      /\ owner[token] = NoClient
      /\ sessions' = sessions \cup {token}
      /\ owner' = [owner EXCEPT ![token] = c]
      /\ AnswerWith(r, 201, token, NoResult)
      /\ UNCHANGED <<latest, store, submitted, accepted, cookie, seen, asked>>
    BY <1>1 DEF OpenSession, browserVars
<1>3. AskOK(r) /\ Shapes /\ c \in Clients
    BY <1>1, <1>2 DEF CommercialInv, RequestOK, AskOK, Ask
<1>4. Shapes' /\ Grows
    BY <1>2, <1>3, Answered, CommercialNamesAssumption DEF Shapes, Grows
<1>5. owner'[token] = c
    BY <1>2, <1>3 DEF Shapes
<1>6. accepted[token] = 0
    BY <1>2, CommercialNamesAssumption DEF CommercialInv, TenantOK, Shapes
<1>7. AskOK(r)'
    BY <1>2, <1>3, <1>4, Answered, CommercialNamesAssumption DEF AskOK, Ask, Grows, Shapes
<1>8. AnswerOK(r)'
    BY <1>1, <1>2, <1>5, Answered DEF AnswerOK
<1>9. RequestOK(r)'
    BY <1>2, <1>7, <1>8, Answered DEF RequestOK
<1>10. \A t \in Tokens : t \in sessions' => t \in sessions \/ accepted[t] = 0
    BY <1>2, <1>6
<1> QED
    BY <1>2, <1>4, <1>9, <1>10, Answered, OneRequest
LEMMA IngestStep ==
    ASSUME CommercialInv, NEW r \in Requests, NEW given \in Bodies, Ingest(r, given)
    PROVE  CommercialInv'
<1>1. PICK c, t, l : c = asked[r].client /\ t = asked[r].cookie /\ l = given.ledger
    OBVIOUS
<1>2. /\ at[r] = "body" /\ asked[r].route = "analyze"
      /\ LedgerAccepted(l)
      /\ store' = store \cup {<<t, l>>}
      /\ submitted' = submitted \cup {<<c, l>>}
      /\ at' = [at EXCEPT ![r] = "stored"]
      /\ body' = [body EXCEPT ![r] = given]
      /\ UNCHANGED <<sessions, latest, owner, accepted, cookie, seen, asked, answer>>
    BY <1>1 DEF Ingest, IngestCsv, Write, processVars, browserVars
<1>3. AskOK(r) /\ HandlerOK(r) /\ Shapes /\ c \in Clients /\ t \in Tokens
    BY <1>1, <1>2 DEF CommercialInv, RequestOK, AskOK, HandlerOK, Ask
<1>4. l \in Ledgers
    BY <1>1, LedgersAssumption DEF Body
<1>5. Shapes' /\ Grows
    BY <1>2, <1>3, <1>4 DEF Shapes, Grows, Places, Handling
<1>6. at'[r] = "stored" /\ body'[r] = given
    BY <1>2, <1>3 DEF Shapes
<1>7. AskOK(r)' /\ HandlerOK(r)' /\ AnswerOK(r)'
    BY <1>1, <1>2, <1>3, <1>6 DEF AskOK, HandlerOK, AnswerOK
<1> QED
    BY <1>2, <1>3, <1>5, <1>7, OneRequest DEF RequestOK, Shapes

LEMMA AnalyseStep ==
    ASSUME CommercialInv, NamesApart, NEW r \in Requests, Analyse(r)
    PROVE  CommercialInv'
<1>1. PICK t, result : t = asked[r].cookie /\ result = AnalysisResult(r)
    OBVIOUS
<1>2. /\ at[r] = "stored"
      /\ SheetAccepted(body[r].sheet)
      /\ accepted' = [accepted EXCEPT ![t] = accepted[t] + 1]
      /\ latest' = [latest EXCEPT ![t] = result]
      /\ AnswerWith(r, 200, NoToken, result)
      /\ UNCHANGED <<sessions, store, owner, submitted, cookie, seen, asked>>
    BY <1>1 DEF Analyse, browserVars
<1>3. AskOK(r) /\ HandlerOK(r) /\ Shapes /\ t \in Tokens /\ asked[r].route = "analyze"
    BY <1>1, <1>2 DEF CommercialInv, RequestOK, HandlerOK
<1>4. /\ result # NoResult
      /\ result.tenant = t /\ result.source = body[r].ledger
      /\ result.sheet = body[r].sheet /\ result.number = accepted[t] + 1
    BY <1>1 DEF AnalysisResult, NamesApart
<1>5. Shapes' /\ Grows
    BY <1>2, <1>3, Answered DEF Shapes, Grows
<1>6. accepted'[t] = accepted[t] + 1 /\ accepted[t] \in Nat /\ latest'[t] = result
    BY <1>2, <1>3 DEF Shapes
<1>7. owner[t] = asked[r].client /\ owner[t] \in Clients
    BY <1>1, <1>2, <1>3 DEF AskOK, Ask
<1>8. RestsOnRecord(result)'
    BY <1>1, <1>2, <1>3, <1>4, <1>7 DEF HandlerOK, RestsOnRecord
<1>9. \A u \in Tokens : TenantOK(u)'
    <2>1. TenantOK(t)'
        BY <1>2, <1>4, <1>6, <1>7, <1>8 DEF TenantOK
    <2>2. ASSUME NEW u \in Tokens \ {t}
          PROVE  TenantOK(u)'
        BY <1>2, <1>3, <1>5, TenantStays DEF CommercialInv, Shapes
    <2> QED
        BY <2>1, <2>2
<1>10. \A c \in Clients : BrowserOK(c)'
    BY <1>2, <1>5, BrowserStays DEF CommercialInv
<1>11. RequestOK(r)'
    <2>1. AskOK(r)'
        BY <1>1, <1>2, <1>3, <1>6, Answered DEF AskOK, Ask
    <2>2. AnswerOK(r)'
        BY <1>1, <1>2, <1>3, <1>4, <1>6, <1>8, Answered DEF AnswerOK
    <2> QED
        BY <1>2, <2>1, <2>2, Answered DEF RequestOK
<1>12. \A q \in Requests : RequestOK(q)'
    <2>1. ASSUME NEW q \in Requests \ {r}
          PROVE  RequestOK(q)'
        BY <1>2, <1>5, Answered, RequestStays DEF CommercialInv
    <2> QED
        BY <1>11, <2>1
<1> QED
    BY <1>5, <1>9, <1>10, <1>12 DEF CommercialInv

LEMMA ExitStep ==
    ASSUME CommercialInv, Exit
    PROVE  CommercialInv'
<1>1. /\ sessions' = {}
      /\ latest' = [t \in Tokens |-> NoResult]
      /\ at' = [r \in Requests |-> IF at[r] \in Handling THEN "free" ELSE at[r]]
      /\ asked' = [r \in Requests |-> IF at[r] \in Handling THEN NoAsk ELSE asked[r]]
      /\ body' = [r \in Requests |-> NoBody]
      /\ UNCHANGED <<store, owner, submitted, accepted, cookie, seen, answer>>
    BY DEF Exit, historyVars, browserVars
<1>2. Shapes' /\ Grows
    BY <1>1, NothingRecorded DEF CommercialInv, Shapes, Places, Handling
<1>3. \A t \in Tokens : TenantOK(t)'
    BY <1>1 DEF CommercialInv, TenantOK
<1>4. \A c \in Clients : BrowserOK(c)'
    BY <1>1, <1>2, BrowserStays DEF CommercialInv
<1>5. ASSUME NEW r \in Requests
      PROVE  RequestOK(r)'
    <2>1. CASE at[r] \in Handling \cup {"free"}
        <3>1. at'[r] = "free"
            BY <1>1, <2>1
        <3> QED
            BY <3>1 DEF RequestOK, AskOK, HandlerOK, AnswerOK
    <2>2. CASE at[r] = "answered"
        <3>1. /\ at'[r] = "answered" /\ asked'[r] = asked[r]
              /\ UNCHANGED <<owner, accepted, store, submitted, answer>>
            BY <1>1, <2>2 DEF Handling
        <3>2. AskOK(r)' /\ HandlerOK(r)'
            BY <2>2, <3>1 DEF CommercialInv, RequestOK, AskOK, HandlerOK
        <3>3. AnswerOK(r)'
            BY <2>2, <3>1 DEF CommercialInv, RequestOK, AnswerOK, RestsOnRecord
        <3> QED
            BY <3>2, <3>3 DEF RequestOK
    <2> QED
        BY <2>1, <2>2 DEF CommercialInv, Shapes, Places
<1> QED
    BY <1>2, <1>3, <1>4, <1>5 DEF CommercialInv

(* What starts and stops without an end of the process.                    *)
LEMMA IdleStep ==
    ASSUME CommercialInv,
           UNCHANGED <<sessions, latest, store, historyVars, browserVars, requestVars>>
    PROVE  CommercialInv'
BY DEF historyVars, browserVars, requestVars, CommercialInv, Shapes, BrowserOK, TenantOK,
       RequestOK, AskOK, HandlerOK, AnswerOK, RestsOnRecord

-----------------------------------------------------------------------------
LEMMA CommercialInvInit ==
    ASSUME CommercialInit
    PROVE  CommercialInv
<1>1. Shapes
    BY DEF CommercialInit, Shapes, Places
<1>2. \A c \in Clients : BrowserOK(c)
    BY CommercialNamesAssumption DEF CommercialInit, BrowserOK
<1>3. \A t \in Tokens : TenantOK(t)
    BY DEF CommercialInit, TenantOK
<1>4. \A r \in Requests : RequestOK(r)
    BY DEF CommercialInit, RequestOK, AskOK, HandlerOK, AnswerOK
<1> QED
    BY <1>1, <1>2, <1>3, <1>4 DEF CommercialInv

LEMMA CommercialInvStep ==
    ASSUME CommercialInv, NamesApart, [CommercialNext]_commercialVars
    PROVE  CommercialInv'
<1>1. CASE UNCHANGED commercialVars
    BY <1>1, IdleStep DEF commercialVars, processVars
<1>2. CASE \E r \in Requests, c \in Clients, route \in Routes : Send(r, c, route)
    BY <1>2, SendStep
<1>3. ASSUME NEW r \in Requests, Receive(r) \/ Disconnect(r)
      PROVE  CommercialInv'
    BY <1>3, ReceiveStep, DisconnectStep
<1>4. ASSUME NEW r \in Requests, Handle(r)
      PROVE  CommercialInv'
    <2>1. CASE RefuseBody(r)
        BY <2>1, RefusalStep DEF RefuseBody
    <2>2. CASE AnalysisBlocked(r)
        BY <2>2, RefusalStep DEF AnalysisBlocked
    <2> QED
        BY <1>4, <2>1, <2>2, BeginStep, OpenSessionStep, IngestStep, AnalyseStep DEF Handle
<1>5. CASE Crash \/ Closed
    BY <1>5, ExitStep DEF Crash, Closed
<1>6. CASE Shutdown \/ Start
    BY <1>6, IdleStep DEF Shutdown, Start
<1> QED
    BY <1>1, <1>2, <1>3, <1>4, <1>5, <1>6 DEF CommercialNext

LEMMA CommercialInvHolds ==
    ASSUME NamesApart
    PROVE  CommercialSpec => []CommercialInv
<1>1. CommercialInit => CommercialInv
    BY CommercialInvInit
<1>2. CommercialInv /\ [CommercialNext]_commercialVars => CommercialInv'
    BY CommercialInvStep
<1> QED
    BY <1>1, <1>2, PTL DEF CommercialSpec

(* Whatever is dropped by a crash, the latest result of a tenant is its    *)
(* own and rests on a persisted record that its browser submitted.         *)
THEOREM LatestIsRecorded ==
    ASSUME NamesApart
    PROVE  CommercialSpec => []LatestRestsOnRecord
<1>1. CommercialInv => LatestRestsOnRecord
    BY DEF CommercialInv, TenantOK, LatestRestsOnRecord
<1> QED
    BY <1>1, CommercialInvHolds, PTL

(* No interleaving of handlers shows a browser another tenant's result, or *)
(* one whose record is gone.                                               *)
THEOREM AnswersAreOwn ==
    ASSUME NamesApart
    PROVE  CommercialSpec => []AnswersStayInTenant
<1>1. CommercialInv => AnswersStayInTenant
    BY DEF CommercialInv, RequestOK, AskOK, AnswerOK, AnswersStayInTenant
<1> QED
    BY <1>1, CommercialInvHolds, PTL

(* A dashboard never falls behind what its session was told was accepted.  *)
THEOREM DashboardsAreFresh ==
    ASSUME NamesApart
    PROVE  CommercialSpec => []DashboardReadsOwnAnalyses
<1>1. CommercialInv => DashboardReadsOwnAnalyses
    BY DEF CommercialInv, RequestOK, AnswerOK, DashboardReadsOwnAnalyses
<1> QED
    BY <1>1, CommercialInvHolds, PTL

-----------------------------------------------------------------------------
(* The audit trail of the identity service justifies every access.  The    *)
(* invariant counts: of each user and organization, the sessions opened    *)
(* are those revoked and those still active.                               *)

ActiveOf(username, organization) ==
    {token \in Uuids :
        /\ Active(token)
        /\ identities[token].username = username
        /\ identities[token].organization = organization}

Created(username, organization) ==
    Events(Len(auditEvents), "SESSION_CREATED", username, organization)

Revoked(username, organization) ==
    Events(Len(auditEvents), "SESSION_REVOKED", username, organization)

SessionsAccounted ==
    \A username \in Usernames, organization \in Organizations :
        /\ IsFiniteSet(ActiveOf(username, organization))
        /\ Cardinality(Created(username, organization)) =
             Cardinality(Revoked(username, organization))
               + Cardinality(ActiveOf(username, organization))

TrailInv == IdentityTypeOK /\ SessionsAccounted /\ TrailJustifiesAccess

NoSessionIsNone == NoSession \notin IdentitySession

-----------------------------------------------------------------------------
LEMMA EventsAreFinite ==
    ASSUME NEW n \in Nat, NEW type, NEW username, NEW organization
    PROVE  /\ IsFiniteSet(Events(n, type, username, organization))
           /\ Cardinality(Events(n, type, username, organization)) \in Nat
<1>1. IsFiniteSet(1 .. n)
    BY FS_Interval
<1>2. Events(n, type, username, organization) \subseteq 1 .. n
    BY DEF Events
<1>3. IsFiniteSet(Events(n, type, username, organization))
    BY <1>1, <1>2, FS_Subset
<1> QED
    BY <1>3, FS_CardinalityType

(* The trail only grows, by one event at its end.                          *)
LEMMA TrailGrows ==
    ASSUME IdentityTypeOK, NEW type, NEW username \in Usernames,
           NEW organization \in Organizations, NEW permission,
           Audit(type, username, organization, permission)
    PROVE  /\ Len(auditEvents') = Len(auditEvents) + 1
           /\ \A i \in 1 .. Len(auditEvents) : auditEvents'[i] = auditEvents[i]
           /\ auditEvents'[Len(auditEvents) + 1] =
                [type |-> type, username |-> username,
                 organization |-> organization, permission |-> permission]
BY DEF Audit, IdentityTypeOK

(* What a step's event adds to the events of each kind.                    *)
LEMMA EventsGrow ==
    ASSUME IdentityTypeOK, NEW type, NEW username \in Usernames,
           NEW organization \in Organizations, NEW permission,
           Audit(type, username, organization, permission),
           NEW t, NEW u, NEW o
    PROVE  /\ \A n \in 0 .. Len(auditEvents) : Events(n, t, u, o)' = Events(n, t, u, o)
           /\ t = type /\ u = username /\ o = organization =>
                Events(Len(auditEvents), t, u, o)' =
                    Events(Len(auditEvents), t, u, o) \cup {Len(auditEvents) + 1}
           /\ ~ (t = type /\ u = username /\ o = organization) =>
                Events(Len(auditEvents), t, u, o)' = Events(Len(auditEvents), t, u, o)
<1> DEFINE L == Len(auditEvents)
<1>1. L \in Nat
    BY DEF IdentityTypeOK
<1>2. /\ Len(auditEvents') = L + 1
      /\ \A i \in 1 .. L : auditEvents'[i] = auditEvents[i]
      /\ auditEvents'[L + 1].type = type
      /\ auditEvents'[L + 1].username = username
      /\ auditEvents'[L + 1].organization = organization
    <2>1. auditEvents'[L + 1] =
            [type |-> type, username |-> username,
             organization |-> organization, permission |-> permission]
        BY TrailGrows
    <2> QED
        BY <2>1, TrailGrows
<1>3. ASSUME NEW n \in 0 .. L
      PROVE  Events(n, t, u, o)' = Events(n, t, u, o)
    BY <1>1, <1>2 DEF Events
<1>4. Events(Len(auditEvents), t, u, o)' =
        {j \in 1 .. L + 1 :
            /\ auditEvents'[j].type = t
            /\ auditEvents'[j].username = u
            /\ auditEvents'[j].organization = o}
    BY <1>2 DEF Events
<1>5. \A j : j \in 1 .. L + 1 <=> j \in 1 .. L \/ j = L + 1
    BY <1>1
<1>6. CASE t = type /\ u = username /\ o = organization
    BY <1>2, <1>3, <1>4, <1>5, <1>6 DEF Events
<1>7. CASE ~ (t = type /\ u = username /\ o = organization)
    <2>1. \A j : j \in Events(Len(auditEvents), t, u, o)' <=>
                  j \in Events(Len(auditEvents), t, u, o)
        BY <1>2, <1>4, <1>5, <1>7 DEF Events
    <2> QED
        BY <1>3, <1>7, <2>1
<1> QED
    BY <1>3, <1>6, <1>7

LEMMA OthersStay ==
    ASSUME IdentityTypeOK, NEW type, NEW username \in Usernames,
           NEW organization \in Organizations, NEW permission,
           Audit(type, username, organization, permission),
           NEW t, NEW u, NEW o, t # type \/ u # username \/ o # organization
    PROVE  Events(Len(auditEvents), t, u, o)' = Events(Len(auditEvents), t, u, o)
BY EventsGrow

(* An event that opens or revokes nothing changes no count.                *)
LEMMA OtherEventsCountNothing ==
    ASSUME TrailInv, UNCHANGED identities,
           NEW type \in {"AUTHORIZATION_ALLOWED", "AUTHORIZATION_DENIED"},
           NEW username \in Usernames, NEW organization \in Organizations,
           NEW permission, Audit(type, username, organization, permission)
    PROVE  SessionsAccounted'
<1>1. ASSUME NEW u, NEW o
      PROVE  Created(u, o)' = Created(u, o) /\ Revoked(u, o)' = Revoked(u, o)
    <2>1. type # "SESSION_CREATED" /\ type # "SESSION_REVOKED" /\ IdentityTypeOK
        BY DEF TrailInv
    <2>2. Events(Len(auditEvents), "SESSION_CREATED", u, o)' =
            Events(Len(auditEvents), "SESSION_CREATED", u, o)
        BY <2>1, OthersStay
    <2>3. Events(Len(auditEvents), "SESSION_REVOKED", u, o)' =
            Events(Len(auditEvents), "SESSION_REVOKED", u, o)
        BY <2>1, OthersStay
    <2> QED
        BY <2>2, <2>3 DEF Created, Revoked
<1>2. \A u, o : ActiveOf(u, o)' = ActiveOf(u, o)
    BY DEF ActiveOf, Active
<1> QED
    BY <1>1, <1>2 DEF SessionsAccounted, TrailInv

(* The counts never let an active session go unopened.                     *)
LEMMA ActiveWasOpened ==
    ASSUME TrailInv, NEW token \in Uuids, Active(token), NoSessionIsNone
    PROVE  LET u == identities[token].username
               o == identities[token].organization
           IN  Cardinality(Revoked(u, o)) < Cardinality(Created(u, o))
<1> DEFINE u == identities[token].username
           o == identities[token].organization
<1>1. u \in Usernames /\ o \in Organizations
    BY DEF TrailInv, IdentityTypeOK, Active, IdentitySession
<1>2. token \in ActiveOf(u, o)
    BY DEF ActiveOf
<1>3. /\ IsFiniteSet(ActiveOf(u, o))
      /\ Cardinality(Created(u, o)) =
           Cardinality(Revoked(u, o)) + Cardinality(ActiveOf(u, o))
    BY <1>1 DEF TrailInv, SessionsAccounted
<1>4. Cardinality(ActiveOf(u, o)) \in Nat /\ Cardinality(ActiveOf(u, o)) # 0
    <2>1. ActiveOf(u, o) # {}
        BY <1>2
    <2> QED
        BY <1>3, <2>1, FS_CardinalityType, FS_EmptySet
<1>5. Cardinality(Revoked(u, o)) \in Nat
    BY EventsAreFinite DEF Revoked, TrailInv, IdentityTypeOK
<1> QED
    BY <1>3, <1>4, <1>5

(* Sessions keep their user, organization and role.                        *)
SessionsKept ==
    \A token \in Uuids : identities[token] # NoSession =>
        /\ identities'[token] # NoSession
        /\ identities'[token].username = identities[token].username
        /\ identities'[token].organization = identities[token].organization
        /\ identities'[token].role = identities[token].role

(* Accesses justified once stay justified.                                 *)
LEMMA JustifiedStays ==
    ASSUME TrailInv, SessionsKept, NEW type,
           NEW username \in Usernames, NEW organization \in Organizations,
           NEW permission, Audit(type, username, organization, permission),
           type = "AUTHORIZATION_ALLOWED" =>
              Justified(Len(auditEvents), username, organization, permission)
    PROVE  TrailJustifiesAccess'
<1> DEFINE L == Len(auditEvents)
           event == [type |-> type, username |-> username,
                     organization |-> organization, permission |-> permission]
<1>1. L \in Nat /\ DOMAIN auditEvents = 1 .. L
    BY DEF TrailInv, IdentityTypeOK
<1>2. /\ DOMAIN auditEvents' = 1 .. L + 1
      /\ \A i \in 1 .. L : auditEvents'[i] = auditEvents[i]
      /\ auditEvents'[L + 1] = event
    <2>1. auditEvents \in Seq(AuditEvent \cup {event})
        BY DEF TrailInv, IdentityTypeOK
    <2>2. auditEvents' = Append(auditEvents, event) /\ event \in AuditEvent \cup {event}
        BY DEF Audit
    <2> HIDE DEF event
    <2> QED
        BY <2>1, <2>2
<1>3. ASSUME NEW n \in 0 .. L, NEW u, NEW o, NEW p, Justified(n, u, o, p)
      PROVE  Justified(n, u, o, p)'
    <2>1. Events(n, "SESSION_REVOKED", u, o)' = Events(n, "SESSION_REVOKED", u, o)
        BY EventsGrow DEF TrailInv
    <2>2. Events(n, "SESSION_CREATED", u, o)' = Events(n, "SESSION_CREATED", u, o)
        BY EventsGrow DEF TrailInv
    <2> QED
        BY <1>3, <2>1, <2>2 DEF Justified, SessionsKept
<1>4. SUFFICES ASSUME NEW i \in 1 .. L + 1,
                      auditEvents'[i].type = "AUTHORIZATION_ALLOWED"
               PROVE  Justified(i - 1, auditEvents[i].username,
                                auditEvents[i].organization, auditEvents[i].permission)'
    BY <1>2 DEF TrailJustifiesAccess
<1>5. PICK u, o, p : /\ auditEvents'[i].username = u
                     /\ auditEvents'[i].organization = o
                     /\ auditEvents'[i].permission = p
    OBVIOUS
<1>6. i - 1 \in 0 .. L
    BY <1>1
<1>7. Justified(i - 1, u, o, p)
    <2>1. CASE i = L + 1
        <3>1. /\ i - 1 = L
              /\ type = "AUTHORIZATION_ALLOWED"
              /\ u = username /\ o = organization /\ p = permission
            BY <1>1, <1>2, <1>4, <1>5, <2>1
        <3> QED
            BY <3>1
    <2>2. CASE i \in 1 .. L
        BY <1>1, <1>2, <1>4, <1>5, <2>2 DEF TrailInv, TrailJustifiesAccess
    <2> QED
        BY <1>1, <2>1, <2>2
<1>8. Justified(i - 1, u, o, p)'
    BY <1>3, <1>6, <1>7
<1> QED
    BY <1>5, <1>8 DEF Justified, Events

-----------------------------------------------------------------------------
LEMMA CreateKeepsCounts ==
    ASSUME TrailInv, NoSessionIsNone, NEW token \in Uuids,
           NEW username \in Usernames, NEW organization \in Organizations,
           NEW role \in Roles, CreateSession(token, username, organization, role)
    PROVE  SessionsAccounted'
<1> DEFINE L == Len(auditEvents)
<1>1. Audit("SESSION_CREATED", username, organization, "none")
    BY DEF CreateSession
<1>2. SUFFICES ASSUME NEW u \in Usernames, NEW o \in Organizations
               PROVE  /\ IsFiniteSet(ActiveOf(u, o)')
                      /\ Cardinality(Created(u, o)') =
                           Cardinality(Revoked(u, o)') + Cardinality(ActiveOf(u, o)')
    BY DEF SessionsAccounted
<1>3. L \in Nat /\ L + 1 \notin Created(u, o)
    BY DEF TrailInv, IdentityTypeOK, Created, Events
<1>4. /\ IsFiniteSet(Created(u, o)) /\ Cardinality(Created(u, o)) \in Nat
      /\ Cardinality(Revoked(u, o)) \in Nat
    BY <1>3, EventsAreFinite DEF Created, Revoked
<1>5. /\ IsFiniteSet(ActiveOf(u, o)) /\ Cardinality(ActiveOf(u, o)) \in Nat
      /\ Cardinality(Created(u, o)) =
           Cardinality(Revoked(u, o)) + Cardinality(ActiveOf(u, o))
    BY FS_CardinalityType DEF TrailInv, SessionsAccounted
<1>6. Revoked(u, o)' = Revoked(u, o)
    <2>1. "SESSION_REVOKED" # "SESSION_CREATED" /\ IdentityTypeOK
        BY DEF TrailInv
    <2> QED
        BY <1>1, <2>1, OthersStay DEF Revoked
<1>7. /\ identities[token] = NoSession
      /\ identities' = [identities EXCEPT ![token] =
            [username |-> username, organization |-> organization, role |-> role,
             active |-> TRUE]]
      /\ [username |-> username, organization |-> organization, role |-> role,
          active |-> TRUE] # NoSession
      /\ identities \in [Uuids -> IdentitySession \cup {NoSession}]
    <2>1. [username |-> username, organization |-> organization, role |-> role,
           active |-> TRUE] \in IdentitySession
        BY DEF IdentitySession
    <2>2. [username |-> username, organization |-> organization, role |-> role,
           active |-> TRUE] # NoSession
        BY <2>1 DEF NoSessionIsNone
    <2> QED
        BY <2>2 DEF CreateSession, TrailInv, IdentityTypeOK
<1>8. token \notin ActiveOf(u, o)
    BY <1>7 DEF ActiveOf, Active
<1>9. CASE u = username /\ o = organization
    <2>1. Created(u, o)' = Created(u, o) \cup {L + 1}
        BY <1>1, <1>9, EventsGrow DEF Created, TrailInv
    <2>2. ActiveOf(u, o)' = ActiveOf(u, o) \cup {token}
        BY <1>7, <1>9 DEF ActiveOf, Active
    <2>3. Cardinality(Created(u, o)') = Cardinality(Created(u, o)) + 1
        BY <1>3, <1>4, <2>1, FS_AddElement
    <2>4. /\ IsFiniteSet(ActiveOf(u, o)')
          /\ Cardinality(ActiveOf(u, o)') = Cardinality(ActiveOf(u, o)) + 1
        BY <1>5, <1>8, <2>2, FS_AddElement
    <2> QED
        BY <1>4, <1>5, <1>6, <2>3, <2>4
<1>10. CASE ~ (u = username /\ o = organization)
    <2>1. Created(u, o)' = Created(u, o)
        BY <1>1, <1>10, OthersStay DEF Created, TrailInv
    <2>2. ActiveOf(u, o)' = ActiveOf(u, o)
        BY <1>7, <1>8, <1>10 DEF ActiveOf, Active
    <2> QED
        BY <1>5, <1>6, <2>1, <2>2
<1> QED
    BY <1>9, <1>10

(* A logout changes one flag of one session.                               *)
LEMMA LogoutRevokes ==
    ASSUME TrailInv, NEW token \in Uuids, Logout(token)
    PROVE  /\ identities[token] \in IdentitySession
           /\ identities' = [identities EXCEPT ![token] =
                 [username |-> identities[token].username,
                  organization |-> identities[token].organization,
                  role |-> identities[token].role, active |-> FALSE]]
<1>1. identities[token] \in IdentitySession
    BY DEF Logout, Active, TrailInv, IdentityTypeOK
<1>2. identities' = [identities EXCEPT ![token] =
         [username |-> identities[token].username,
          organization |-> identities[token].organization,
          role |-> identities[token].role, active |-> FALSE]]
    BY DEF Logout
<1> QED
    BY <1>1, <1>2

LEMMA LogoutKeepsCounts ==
    ASSUME TrailInv, NoSessionIsNone, NEW token \in Uuids, Logout(token)
    PROVE  SessionsAccounted'
<1> DEFINE L == Len(auditEvents)
           username == identities[token].username
           organization == identities[token].organization
<1>1. /\ Audit("SESSION_REVOKED", username, organization, "none")
      /\ Active(token)
      /\ identities[token] \in IdentitySession
      /\ username \in Usernames /\ organization \in Organizations
    BY DEF Logout, Active, TrailInv, IdentityTypeOK, IdentitySession
<1>2. SUFFICES ASSUME NEW u \in Usernames, NEW o \in Organizations
               PROVE  /\ IsFiniteSet(ActiveOf(u, o)')
                      /\ Cardinality(Created(u, o)') =
                           Cardinality(Revoked(u, o)') + Cardinality(ActiveOf(u, o)')
    BY DEF SessionsAccounted
<1>3. L \in Nat /\ L + 1 \notin Revoked(u, o)
    BY DEF TrailInv, IdentityTypeOK, Revoked, Events
<1>4. /\ IsFiniteSet(Revoked(u, o)) /\ Cardinality(Revoked(u, o)) \in Nat
      /\ Cardinality(Created(u, o)) \in Nat
    BY <1>3, EventsAreFinite DEF Created, Revoked
<1>5. /\ IsFiniteSet(ActiveOf(u, o)) /\ Cardinality(ActiveOf(u, o)) \in Nat
      /\ Cardinality(Created(u, o)) =
           Cardinality(Revoked(u, o)) + Cardinality(ActiveOf(u, o))
    BY FS_CardinalityType DEF TrailInv, SessionsAccounted
<1>6. Created(u, o)' = Created(u, o)
    <2>1. "SESSION_REVOKED" # "SESSION_CREATED" /\ IdentityTypeOK
        BY DEF TrailInv
    <2> QED
        BY <1>1, <2>1, OthersStay DEF Created
<1>7. /\ identities' = [identities EXCEPT ![token] =
            [username |-> username, organization |-> organization,
             role |-> identities[token].role, active |-> FALSE]]
      /\ identities \in [Uuids -> IdentitySession \cup {NoSession}]
    BY LogoutRevokes DEF TrailInv, IdentityTypeOK
<1> HIDE DEF username, organization
<1>8. CASE u = username /\ o = organization
    <2>1. Revoked(u, o)' = Revoked(u, o) \cup {L + 1}
        BY <1>1, <1>8, EventsGrow DEF Revoked, TrailInv
    <2>2. token \in ActiveOf(u, o)
        BY <1>1, <1>8 DEF ActiveOf, username, organization
    <2>3. ActiveOf(u, o)' = ActiveOf(u, o) \ {token}
        BY <1>7 DEF ActiveOf, Active
    <2>4. Cardinality(Revoked(u, o)') = Cardinality(Revoked(u, o)) + 1
        BY <1>3, <1>4, <2>1, FS_AddElement
    <2>5. /\ IsFiniteSet(ActiveOf(u, o)')
          /\ Cardinality(ActiveOf(u, o)') = Cardinality(ActiveOf(u, o)) - 1
        BY <1>5, <2>2, <2>3, FS_RemoveElement
    <2> QED
        BY <1>4, <1>5, <1>6, <2>4, <2>5
<1>9. CASE ~ (u = username /\ o = organization)
    <2>1. Revoked(u, o)' = Revoked(u, o)
        BY <1>1, <1>9, OthersStay DEF Revoked, TrailInv
    <2>2. token \notin ActiveOf(u, o)
        BY <1>9 DEF ActiveOf, username, organization
    <2>3. ActiveOf(u, o)' = ActiveOf(u, o)
        BY <1>7, <2>2 DEF ActiveOf, Active
    <2> QED
        BY <1>5, <1>6, <2>1, <2>3
<1> QED
    BY <1>8, <1>9

-----------------------------------------------------------------------------
LEMMA TrailInvInit ==
    ASSUME IdentityInit
    PROVE  TrailInv
<1>1. IdentityTypeOK /\ Len(auditEvents) = 0 /\ DOMAIN auditEvents = {}
    BY DEF IdentityInit, IdentityTypeOK
<1>2. TrailJustifiesAccess
    BY <1>1 DEF TrailJustifiesAccess
<1>3. \A t, u, o : Events(Len(auditEvents), t, u, o) = {}
    BY <1>1 DEF Events
<1>4. \A u, o : ActiveOf(u, o) = {}
    BY DEF IdentityInit, ActiveOf, Active
<1>5. IsFiniteSet({}) /\ Cardinality({}) = 0
    BY FS_EmptySet
<1>6. SessionsAccounted
    <2>1. 0 = 0 + 0
        OBVIOUS
    <2> QED
        BY <1>3, <1>4, <1>5, <2>1 DEF SessionsAccounted, Created, Revoked
<1> QED
    BY <1>1, <1>2, <1>6 DEF TrailInv

LEMMA TrailInvStep ==
    ASSUME TrailInv, NoSessionIsNone, [IdentityNext]_identityVars
    PROVE  TrailInv'
<1>1. CASE UNCHANGED identityVars
    <2>1. identities' = identities /\ auditEvents' = auditEvents
        BY <1>1 DEF identityVars
    <2>2. \A n, t, u, o : Events(n, t, u, o)' = Events(n, t, u, o)
        BY <2>1 DEF Events
    <2>3. \A u, o : /\ ActiveOf(u, o)' = ActiveOf(u, o)
                    /\ Created(u, o)' = Created(u, o)
                    /\ Revoked(u, o)' = Revoked(u, o)
        BY <2>1 DEF ActiveOf, Active, Created, Revoked, Events
    <2>4. IdentityTypeOK' /\ SessionsAccounted'
        BY <2>1, <2>3 DEF TrailInv, IdentityTypeOK, SessionsAccounted
    <2>5. TrailJustifiesAccess'
        BY <2>1 DEF TrailInv, TrailJustifiesAccess, Justified, Events
    <2> QED
        BY <2>4, <2>5 DEF TrailInv
<1>2. CASE IdentityNext
    <2>1. PICK token \in Uuids :
             \/ \E username \in Usernames, organization \in Organizations, role \in Roles :
                   CreateSession(token, username, organization, role)
             \/ \E organization \in Organizations, permission \in Permissions :
                   Authorize(token, organization, permission)
             \/ Logout(token)
        BY <1>2 DEF IdentityNext
    <2>2. ASSUME NEW username \in Usernames, NEW organization \in Organizations,
                 NEW role \in Roles, CreateSession(token, username, organization, role)
          PROVE  TrailInv'
        <3>1. IdentityTypeOK'
            BY <2>2 DEF CreateSession, Audit, TrailInv, IdentityTypeOK, IdentitySession, AuditEvent
        <3>2. SessionsAccounted'
            BY <2>2, CreateKeepsCounts
        <3>3. SessionsKept
            BY <2>2 DEF CreateSession, SessionsKept, TrailInv, IdentityTypeOK
        <3>4. TrailJustifiesAccess'
            BY <2>2, <3>3, JustifiedStays DEF CreateSession
        <3> QED
            BY <3>1, <3>2, <3>4 DEF TrailInv
    <2>3. ASSUME NEW organization \in Organizations, NEW permission \in Permissions,
                 Authorize(token, organization, permission)
          PROVE  TrailInv'
        <3> DEFINE username == identities[token].username
        <3>1. UNCHANGED identities /\ SessionsKept
            BY <2>3 DEF Authorize, SessionsKept
        <3>2. username \in Usernames /\ identities[token].organization \in Organizations
            BY <2>3 DEF Authorize, TrailInv, IdentityTypeOK, IdentitySession
        <3>3. CASE /\ Granted(token, organization, permission)
                   /\ Audit("AUTHORIZATION_ALLOWED", username,
                            identities[token].organization, permission)
            <4>1. IdentityTypeOK'
                BY <3>1, <3>2, <3>3 DEF Audit, TrailInv, IdentityTypeOK, AuditEvent
            <4>2. SessionsAccounted'
                BY <3>1, <3>2, <3>3, OtherEventsCountNothing
            <4>3. Justified(Len(auditEvents), username, organization, permission)
                BY <3>3, ActiveWasOpened DEF Granted, Active, Created, Revoked, Justified
            <4>4. identities[token].organization = organization
                BY <3>3 DEF Granted
            <4>5. TrailJustifiesAccess'
                BY <3>1, <3>2, <3>3, <4>3, <4>4, JustifiedStays
            <4> QED
                BY <4>1, <4>2, <4>5 DEF TrailInv
        <3>4. CASE Audit("AUTHORIZATION_DENIED", username, organization, permission)
            <4>1. IdentityTypeOK'
                BY <3>1, <3>2, <3>4 DEF Audit, TrailInv, IdentityTypeOK, AuditEvent
            <4>2. SessionsAccounted'
                BY <3>1, <3>2, <3>4, OtherEventsCountNothing
            <4>3. TrailJustifiesAccess'
                BY <3>1, <3>2, <3>4, JustifiedStays
            <4> QED
                BY <4>1, <4>2, <4>3 DEF TrailInv
        <3> QED
            BY <2>3, <3>3, <3>4 DEF Authorize
    <2>4. ASSUME Logout(token)
          PROVE  TrailInv'
        <3>1. /\ identities[token] \in IdentitySession
              /\ identities' = [identities EXCEPT ![token] =
                    [username |-> identities[token].username,
                     organization |-> identities[token].organization,
                     role |-> identities[token].role, active |-> FALSE]]
            BY <2>4, LogoutRevokes
        <3>2. IdentityTypeOK'
            <4>1. [username |-> identities[token].username,
                   organization |-> identities[token].organization,
                   role |-> identities[token].role, active |-> FALSE] \in IdentitySession
                BY <3>1 DEF IdentitySession
            <4>2. identities' \in [Uuids -> IdentitySession \cup {NoSession}]
                BY <3>1, <4>1 DEF TrailInv, IdentityTypeOK
            <4>3. auditEvents' \in Seq(AuditEvent)
                <5>1. /\ identities[token].username \in Usernames
                      /\ identities[token].organization \in Organizations
                    BY <3>1 DEF IdentitySession
                <5> QED
                    BY <2>4, <5>1 DEF Logout, Audit, AuditEvent, TrailInv, IdentityTypeOK
            <4> QED
                BY <4>2, <4>3 DEF IdentityTypeOK
        <3>3. SessionsAccounted'
            BY <2>4, LogoutKeepsCounts
        <3>4. SessionsKept
            <4>1. [username |-> identities[token].username,
                   organization |-> identities[token].organization,
                   role |-> identities[token].role, active |-> FALSE] \in IdentitySession
                BY <3>1 DEF IdentitySession
            <4>2. [username |-> identities[token].username,
                   organization |-> identities[token].organization,
                   role |-> identities[token].role, active |-> FALSE] # NoSession
                BY <4>1 DEF NoSessionIsNone
            <4> QED
                BY <3>1, <4>2 DEF SessionsKept, TrailInv, IdentityTypeOK
        <3>5. TrailJustifiesAccess'
            <4>1. /\ identities[token].username \in Usernames
                  /\ identities[token].organization \in Organizations
                BY <3>1 DEF IdentitySession
            <4> QED
                BY <2>4, <3>4, <4>1, JustifiedStays DEF Logout
        <3> QED
            BY <3>2, <3>3, <3>5 DEF TrailInv
    <2> QED
        BY <2>1, <2>2, <2>3, <2>4
<1> QED
    BY <1>1, <1>2

(* The trail alone justifies every access the service ever allowed.        *)
THEOREM AccessesAreJustified ==
    ASSUME NoSessionIsNone
    PROVE  IdentitySpec => []TrailJustifiesAccess
<1>1. IdentityInit => TrailInv
    BY TrailInvInit
<1>2. TrailInv /\ [IdentityNext]_identityVars => TrailInv'
    BY TrailInvStep
<1>3. TrailInv => TrailJustifiesAccess
    BY DEF TrailInv
<1> QED
    BY <1>1, <1>2, <1>3, PTL DEF IdentitySpec
=============================================================================
