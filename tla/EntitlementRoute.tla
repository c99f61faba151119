-------------------------- MODULE EntitlementRoute --------------------------
(***************************************************************************)
(* The requests that end in an entitlement reply (server/routes.go): EAP   *)
(* responses behind the idempotency cache, and requests with a token.      *)
(* What authenticating does is EapAka's, Reauth's and TokenService's; here *)
(* it accepts or refuses, and accepting closes the session.                *)
(*                                                                         *)
(* An action is one call to Redis or Postgres and what follows it.         *)
(***************************************************************************)
EXTENDS Entitlement, RedisStore

CONSTANTS
    Session,         \* IDs of EAP sessions, full and fast
    Header,          \* what X-EAP-Session-Id may say: anything but nothing
    Body,            \* what eap_relay may say: any text, decoded or not
    Text(_, _),      \* Text(h, b): the characters of header h and then those of body b
    Answer,          \* Answer[s]: the texts that session s accepts as its response
    Relay,           \* goroutines that serve EAP responses
    None,            \* no value
    RelayAsk,        \* BOUND: what EAP responses ask for
    TokenAsk,        \* BOUND: what requests with a token ask for
    RowsOf(_)        \* BOUND: rows that the table may have for an application

\* A request: application, operation and accept_content_type.
Ask == [app: AppID, op: OperationID, format: {"json", "xml"}]

\* Session IDs are UUIDs, all of one length (session.go:41, reauth_session.go:40), so that
\* Text takes no two pairs of a session ID and a body to one text.  Of a header that is no
\* session ID nothing of the kind is assumed.
ASSUME RouteConstantsOK ==
    /\ Session \subseteq Header
    /\ \A s, t \in Session, b, c \in Body : Text(s, b) = Text(t, c) => s = t /\ b = c
    /\ Answer \in [Session -> SUBSET Body]
    /\ None \notin Header \cup Body
    /\ RelayAsk \subseteq Ask
    /\ TokenAsk \subseteq Ask
    /\ \A app \in AppID : RowsOf(app) \subseteq Row
    /\ Faults \subseteq FaultKinds

VARIABLES
    open,            \* sessions that are in Redis
    cache,           \* cache[key]: Redis strings eap_idempotency:{hash}, documents
    pc,              \* pc[r]: the call goroutine r makes next
    job,             \* job[r]: its request and what it has found
    reply            \* the 200 that the last step wrote, or NoReply

vars == <<open, cache, pc, job, reply>>

NoAsk == [app |-> "Other", op |-> "", format |-> "json"]

\* A request with what was found for it: the row the reply is built from, and whether
\* the table has another.  A document in the cache is one too: it has the token and the
\* EAP-Success of its session, and all else follows from ask and row.
Work ==
    [session: Header \cup {None}, body: Body \cup {None}, ask: Ask, row: Row,
     truncated: BOOLEAN]

NoWork ==
    [session |-> None, body |-> None, ask |-> NoAsk, row |-> DefaultRow, truncated |-> FALSE]

\* via: which path wrote it.  type: its Content-Type.
Reply == [via: {"relay", "cache", "token"}, type: {"json", "xml"}, work: Work]

NoReply == [via |-> "none", type |-> "json", work |-> NoWork]

\* Every text that can be hashed.
Keys == {Text(h, b) : h \in Header, b \in Body}

TypeOK ==
    /\ open \subseteq Session
    /\ cache \in [Keys -> Work]
    /\ pc \in [Relay -> {"idle", "cacheGet", "authenticate", "close", "find", "cachePut"}]
    /\ job \in [Relay -> Work]
    /\ reply \in Reply \cup {NoReply}

-----------------------------------------------------------------------------
(* Helpers *)

Goto(r, call) == pc' = [pc EXCEPT ![r] = call]

\* The goroutine ends, with a 200 or without.
Finish(r) == Goto(r, "idle") /\ job' = [job EXCEPT ![r] = NoWork]

\* Mutant: the body's bytes do not reach the hash.
MutKeyOfSession(h, b) == Text(h, CHOOSE any \in Body : TRUE)

\* idempotencyKey: the hash of the header and the body, with nothing between them.
\* SHA-256 is taken to have no collisions, so that the text stands for its hash.
Key(h, b) == Text(h, b)

Cached(h, b) == cache[Key(h, b)]

\* Mutant: a row that cannot be scanned is returned as far as it got.
MutFindOutcomesUnscanned(row) ==
    {[row |-> row, truncated |-> FALSE],
     [row |-> [row EXCEPT !.status = ""], truncated |-> FALSE]}

\* FindEntitlementsBySubscriber does not ask rows.Err(): a result set that breaks off
\* is a short one, and the row may be missing from it.
FindOutcomes(row) ==
    {[row |-> row, truncated |-> FALSE]}
        \cup (IF Faulty("db") THEN {[row |-> DefaultRow, truncated |-> TRUE]} ELSE {})

\* The rows of an application, and that it has none.
Lookups(app) ==
    {[row |-> DefaultRow, truncated |-> FALSE]}
        \cup UNION {FindOutcomes(row) : row \in RowsOf(app)}

-----------------------------------------------------------------------------
(* POST /entitlement with an EAP response *)

\* The header is asked only whether it is empty, and the body is not decoded yet.
EapRelay(r) ==
    /\ pc[r] = "idle"
    /\ \E h \in Header, b \in Body, ask \in RelayAsk :
         job' = [job EXCEPT ![r] = [NoWork EXCEPT !.session = h, !.body = b, !.ask = ask]]
    /\ Goto(r, "cacheGet")
    /\ reply' = NoReply
    /\ UNCHANGED <<open, cache>>

\* The cached reply is written whatever the request asks for, as application/json:
\* one that was XML is in it as a string.
CacheHit(r) ==
    LET doc == Cached(job[r].session, job[r].body) IN
    /\ pc[r] = "cacheGet"
    /\ doc # NoWork
    /\ reply' = [via |-> "cache", type |-> "json", work |-> doc]
    /\ Finish(r)
    /\ UNCHANGED <<open, cache>>

\* Nothing is cached, or Redis fails, which is the same to the route.
CacheMiss(r) ==
    /\ pc[r] = "cacheGet"
    /\ Cached(job[r].session, job[r].body) = NoWork \/ Faulty("redisRead")
    /\ Goto(r, "authenticate")
    /\ reply' = NoReply
    /\ UNCHANGED <<open, cache, job>>

\* HandleReauthResponse or HandleEapResponse accepts.
Authenticated(r) ==
    /\ pc[r] = "authenticate"
    /\ job[r].session \in open
    /\ job[r].body \in Answer[job[r].session]
    /\ Goto(r, "close")
    /\ reply' = NoReply
    /\ UNCHANGED <<open, cache, job>>

\* It refuses or fails (401, 500), and may have deleted the session.
Refused(r) ==
    /\ pc[r] = "authenticate"
    /\ open' \in {open, open \ {job[r].session}}
    /\ Finish(r)
    /\ reply' = NoReply
    /\ UNCHANGED cache

\* The session is deleted before the reply is built.
Close(r) ==
    /\ pc[r] = "close"
    /\ open' \in DelOutcomes(open, open \ {job[r].session})
    /\ Goto(r, "find")
    /\ reply' = NoReply
    /\ UNCHANGED <<cache, job>>

\* BuildEntitlementResponse asks for the subscriber's entitlements.
Find(r) ==
    /\ pc[r] = "find"
    /\ \E found \in Lookups(job[r].ask.app) :
         job' = [job EXCEPT ![r].row = found.row, ![r].truncated = found.truncated]
    /\ Goto(r, "cachePut")
    /\ reply' = NoReply
    /\ UNCHANGED <<open, cache>>

\* The query fails at once (500).
FindFails(r) ==
    /\ pc[r] = "find"
    /\ Faulty("db")
    /\ Finish(r)
    /\ reply' = NoReply
    /\ UNCHANGED <<open, cache>>

\* sendFormattedResponse: the reply is cached, if Redis takes it, and written.
CachePut(r) ==
    LET doc == job[r] IN
    /\ pc[r] = "cachePut"
    /\ \/ cache' = [cache EXCEPT ![Key(doc.session, doc.body)] = doc]
       \/ Faulty("redisWrite") /\ UNCHANGED cache
    /\ reply' = [via |-> "relay", type |-> doc.ask.format, work |-> doc]
    /\ Finish(r)
    /\ UNCHANGED open

-----------------------------------------------------------------------------
(* POST and GET /entitlement with a token *)

\* BOUND: the token path is taken when no EAP response is being served, none is cached
\* and no reply is under way.  It reads and writes nothing of this module's state.
Quiet ==
    /\ reply = NoReply
    /\ \A r \in Relay : pc[r] = "idle"
    /\ \A key \in Keys : cache[key] = NoWork

\* The token is good: the reply is built, written and not cached.
TokenReply ==
    /\ Quiet
    /\ \E ask \in TokenAsk : \E found \in Lookups(ask.app) :
         reply' = [via |-> "token", type |-> ask.format,
                   work |-> [NoWork EXCEPT !.ask = ask, !.row = found.row,
                                           !.truncated = found.truncated]]
    /\ UNCHANGED <<open, cache, pc, job>>

-----------------------------------------------------------------------------
(* The environment *)

\* A session or a cached reply reaches its TTL.
Expire ==
    /\ Faulty("expiry")
    /\ \/ \E s \in open : open' = open \ {s} /\ UNCHANGED cache
       \/ \E key \in Keys :
            cache[key] # NoWork /\ cache' = [cache EXCEPT ![key] = NoWork] /\ UNCHANGED open
    /\ reply' = NoReply
    /\ UNCHANGED <<pc, job>>

\* The server process dies and comes back.
Crash ==
    /\ Faulty("crash")
    /\ pc' = [r \in Relay |-> "idle"]
    /\ job' = [r \in Relay |-> NoWork]
    /\ reply' = NoReply
    /\ UNCHANGED <<open, cache>>

Init ==
    /\ open \in SUBSET Session
    /\ cache = [key \in Keys |-> NoWork]
    /\ pc = [r \in Relay |-> "idle"]
    /\ job = [r \in Relay |-> NoWork]
    /\ reply = NoReply

Next ==
    \/ \E r \in Relay :
         \/ EapRelay(r) \/ CacheHit(r) \/ CacheMiss(r) \/ Authenticated(r) \/ Refused(r)
         \/ Close(r) \/ Find(r) \/ FindFails(r) \/ CachePut(r)
    \/ TokenReply \/ Expire \/ Crash

Spec == Init /\ [][Next]_vars

-----------------------------------------------------------------------------
(* Properties *)

\* What the last reply was built from and what it says.
Told == AppConfig(reply.work.ask.app, reply.work.ask.op, reply.work.row)

Says(name, value) == <<name, value>> \in Rendered(Told, reply.work.ask.format)

Names(name) == \E pair \in Rendered(Told, reply.work.ask.format) : pair[1] = name

\* A device is told the same in either format: no extra parameter takes the place of
\* one that has a field of its own (json_builder.go, xml_builder.go).
FormatsAgree == JSONParams(Told) = XMLParams(Told)

\* An offer comes with what it takes to accept it: a profile with the SM-DP+, the
\* activation code and the ICCID, a web page with its URL (the ODSA builders).
OffersAreComplete ==
    /\ Says("SubscriptionResult", "DownloadProfile") =>
           Names("SMDP+Address") /\ Names("SMDP+ActivationCode") /\ Names("ProfileICCID")
    /\ Says("SubscriptionResult", "ContinueToWS") => Names("ServiceFlow_URL")

\* Two operations agree about one subscription: whoever ManageSubscription offers
\* something is told by CheckEligibility to be eligible (the ODSA builders).
OffersAreEligible ==
    LET ask     == reply.work.ask
        checked == AppConfig(ask.app, "CheckEligibility", reply.work.row)
    IN  ask.op = "ManageSubscription" /\ Names("SubscriptionResult")
            /\ ~ Says("SubscriptionResult", "Done") =>
                checked.status = "Enabled"

\* A service that the reply does not call enabled comes with nothing to use it by: no
\* addresses, voice not entitled, no identity, token URL or network list (vowifi.go,
\* volte.go, smsoip.go, private_identity.go, app_auth.go, sat_mode.go).
NotEntitledGetsNothing ==
    reply.work.ask.op = "" /\ ~ Says("EntitlementStatus", "Enabled") =>
        /\ ~ Names("Addr") /\ ~ Says("AddrStatus", "1")
        /\ \A name \in VoiceParams : Names(name) => Says(name, "0")
        /\ \A app \in {"PrivateIdentity", "AppAuth", "SatMode"} :
             \A name \in IdentityParams(app) : ~ Names(name)

\* Goroutine r has written a 200.
Served(r) == pc[r] # "idle" /\ pc'[r] = "idle" /\ reply' # NoReply

\* A 200 on an EAP response was built for a session and the right response to it, also
\* when it comes from the cache, written by another goroutine, long after the session has
\* gone.  The request has the text of both, the session ID and then the response, in its
\* header and body; if its header is a session ID, the session and the response are its
\* own.  Only a cached reply can be about another application or in another format
\* (routes.go handleEapRelayPath, idempotency.go).
ReplayRepeats ==
    [][\A r \in Relay : Served(r) =>
         LET work == reply'.work IN
         /\ work.session \in Session /\ work.body \in Answer[work.session]
         /\ Text(work.session, work.body) = Text(job[r].session, job[r].body)
         /\ job[r].session \in Session =>
                work.session = job[r].session /\ work.body = job[r].body
         /\ reply'.via = "relay" => work.ask = job[r].ask /\ reply'.type = job[r].ask.format]_vars

\* Every reply is built from the row that the table has.
AllEntitlements == ~ reply.work.truncated
=============================================================================
