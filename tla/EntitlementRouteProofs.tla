----------------------- MODULE EntitlementRouteProofs -----------------------
(***************************************************************************)
(* Proofs about modules Entitlement and EntitlementRoute, for every number *)
(* of sessions and requests, every set of faults and every row that the    *)
(* entitlements table can have.  RouteInv says whose a document is, in the *)
(* cache or in a goroutine; the lemmas about AppConfig say what each table *)
(* can tell.                                                               *)
(***************************************************************************)
EXTENDS EntitlementRoute, TLAPS

\* A goroutine that has a request, and a document built for a session that accepted.
Busy(r) == job[r].session \in Header /\ job[r].body \in Body

Right(work) == work.session \in Session /\ work.body \in Answer[work.session]

JobInv ==
    \A r \in Relay :
        /\ pc[r] # "idle" => Busy(r)
        /\ pc[r] \in {"close", "find", "cachePut"} => Right(job[r])

CacheInv ==
    \A key \in Keys :
        cache[key] # NoWork =>
            Right(cache[key]) /\ Text(cache[key].session, cache[key].body) = key

RouteInv == TypeOK /\ JobInv /\ CacheInv

-----------------------------------------------------------------------------
(* Types *)

LEMMA DefaultIsRow == DefaultRow \in Row
  BY DEF DefaultRow, Row, Status, TcStatus, NoConfig, ConfigData

LEMMA NoWorkIsWork == NoWork \in Work
<1>1. NoAsk \in Ask
  <2>1. "Other" \in AppID
    BY DEF AppID
  <2>2. "" \in OperationID
    BY DEF OperationID
  <2>3. QED
    BY <2>1, <2>2 DEF NoAsk, Ask
<1>2. FALSE \in BOOLEAN
  OBVIOUS
<1>3. QED
  BY <1>1, <1>2, DefaultIsRow DEF NoWork, Work

LEMMA FoundIsRow ==
    ASSUME RouteConstantsOK, NEW app \in AppID, NEW found \in Lookups(app)
    PROVE  found.row \in Row /\ found.truncated \in BOOLEAN
<1>1. CASE found = [row |-> DefaultRow, truncated |-> FALSE]
  BY <1>1, DefaultIsRow
<1>2. CASE \E row \in RowsOf(app) : found \in FindOutcomes(row)
  <2>1. PICK row \in RowsOf(app) : found \in FindOutcomes(row)
    BY <1>2
  <2>2. row \in Row
    BY RouteConstantsOK DEF RouteConstantsOK
  <2>3. found \in {[row |-> row, truncated |-> FALSE], [row |-> DefaultRow, truncated |-> TRUE]}
    BY <2>1 DEF FindOutcomes
  <2>4. found.row \in {row, DefaultRow}
    BY <2>3
  <2>5. found.truncated = FALSE \/ found.truncated = TRUE
    BY <2>3
  <2>6. QED
    BY <2>2, <2>4, <2>5, DefaultIsRow
<1>3. QED
  BY <1>1, <1>2 DEF Lookups

LEMMA AskIsAsk ==
    ASSUME RouteConstantsOK
    PROVE  RelayAsk \subseteq Ask /\ TokenAsk \subseteq Ask
  BY DEF RouteConstantsOK

-----------------------------------------------------------------------------
(* RouteInv is inductive *)

LEMMA InitRoute == Init => RouteInv
  BY NoWorkIsWork DEF Init, RouteInv, TypeOK, JobInv, CacheInv, NoReply

LEMMA RelayKeepsRoute ==
    ASSUME RouteConstantsOK, RouteInv, NEW r \in Relay, EapRelay(r)
    PROVE  RouteInv'
<1>1. PICK h \in Header, b \in Body, ask \in RelayAsk :
        job' = [job EXCEPT ![r] = [NoWork EXCEPT !.session = h, !.body = b, !.ask = ask]]
  BY DEF EapRelay
<1> DEFINE work == [NoWork EXCEPT !.session = h, !.body = b, !.ask = ask]
<1>3. work \in Work /\ work.session = h /\ work.body = b
  BY NoWorkIsWork, AskIsAsk DEF Work, NoWork
<1>4. TypeOK'
  BY <1>1, <1>3 DEF EapRelay, Goto, RouteInv, TypeOK
<1>5. JobInv'
  <2>1. \A q \in Relay : q # r => pc'[q] = pc[q] /\ job'[q] = job[q]
    BY <1>1 DEF EapRelay, Goto, RouteInv, TypeOK
  <2>2. pc'[r] = "cacheGet" /\ job'[r] = work
    BY <1>1 DEF EapRelay, Goto, RouteInv, TypeOK
  <2> HIDE DEF work
  <2>3. QED
    BY <2>1, <2>2, <1>3 DEF JobInv, RouteInv, Busy, Right
<1>6. CacheInv'
  BY DEF EapRelay, RouteInv, CacheInv
<1>7. QED
  BY <1>4, <1>5, <1>6 DEF RouteInv

LEMMA FinishKeepsJob ==
    ASSUME RouteInv, NEW r \in Relay, Finish(r)
    PROVE  /\ JobInv'
           /\ pc' \in [Relay -> {"idle", "cacheGet", "authenticate", "close", "find",
                                 "cachePut"}]
           /\ job' \in [Relay -> Work]
<1>1. \A q \in Relay : q # r => pc'[q] = pc[q] /\ job'[q] = job[q]
  BY DEF Finish, Goto, RouteInv, TypeOK
<1>2. pc'[r] = "idle" /\ job'[r] = NoWork
  BY DEF Finish, Goto, RouteInv, TypeOK
<1>3. JobInv'
  BY <1>1, <1>2 DEF JobInv, RouteInv, Busy, Right
<1>4. QED
  BY <1>3, NoWorkIsWork DEF Finish, Goto, RouteInv, TypeOK

\* What r looks up or is about to store is under the text of its own request.
LEMMA KeyIs ==
    ASSUME NEW h \in Header, NEW b \in Body
    PROVE  Key(h, b) = Text(h, b) /\ Text(h, b) \in Keys /\ Cached(h, b) = cache[Text(h, b)]
  BY DEF Key, Keys, Cached

LEMMA HitKeepsRoute ==
    ASSUME RouteInv, NEW r \in Relay, CacheHit(r)
    PROVE  RouteInv'
<1>1. Busy(r)
  BY DEF CacheHit, RouteInv, JobInv
<1>2. Cached(job[r].session, job[r].body) \in Work
  BY <1>1, KeyIs DEF Busy, RouteInv, TypeOK
<1>3. reply' \in Reply
  BY <1>2 DEF CacheHit, Reply
<1>4. Finish(r) /\ UNCHANGED <<open, cache>>
  BY DEF CacheHit
<1>5. QED
  BY <1>3, <1>4, FinishKeepsJob DEF RouteInv, TypeOK, CacheInv

LEMMA PutKeepsRoute ==
    ASSUME RouteInv, NEW r \in Relay, CachePut(r)
    PROVE  RouteInv'
<1> DEFINE key == Text(job[r].session, job[r].body)
<1>1. Busy(r) /\ Right(job[r]) /\ job[r] \in Work
  BY DEF CachePut, RouteInv, TypeOK, JobInv
<1>2. Finish(r) /\ UNCHANGED open
  BY DEF CachePut
<1>3. reply' = [via |-> "relay", type |-> job[r].ask.format, work |-> job[r]]
  BY DEF CachePut
<1>4. reply' \in Reply
  BY <1>1, <1>3 DEF Reply, Work, Ask
<1>5. Key(job[r].session, job[r].body) = key /\ key \in Keys
  BY <1>1, KeyIs DEF Busy
<1>6. cache' = [cache EXCEPT ![key] = job[r]] \/ cache' = cache
  BY <1>5 DEF CachePut
<1> HIDE DEF key
<1>7. cache' \in [Keys -> Work]
  BY <1>1, <1>6 DEF RouteInv, TypeOK
<1>8. \A k \in Keys : cache'[k] = cache[k] \/ (k = key /\ cache'[k] = job[r])
  BY <1>6 DEF RouteInv, TypeOK
<1>9. CacheInv'
  BY <1>1, <1>8 DEF RouteInv, CacheInv, Right, key
<1>10. QED
  BY <1>2, <1>4, <1>7, <1>9, FinishKeepsJob DEF RouteInv, TypeOK

LEMMA FindKeepsRoute ==
    ASSUME RouteConstantsOK, RouteInv, NEW r \in Relay, Find(r)
    PROVE  RouteInv'
<1>1. PICK found \in Lookups(job[r].ask.app) :
        job' = [job EXCEPT ![r].row = found.row, ![r].truncated = found.truncated]
  BY DEF Find
<1>2. job[r] \in Work
  BY DEF RouteInv, TypeOK
<1>3. found.row \in Row /\ found.truncated \in BOOLEAN
  BY <1>2, FoundIsRow DEF Work, Ask
<1>4. /\ job'[r] = [job[r] EXCEPT !.row = found.row, !.truncated = found.truncated]
      /\ \A q \in Relay : q # r => job'[q] = job[q]
  BY <1>1 DEF RouteInv, TypeOK
<1>5. job'[r] \in Work /\ job'[r].session = job[r].session /\ job'[r].body = job[r].body
  BY <1>2, <1>3, <1>4 DEF Work
<1>6. job' \in [Relay -> Work]
  BY <1>1, <1>4, <1>5 DEF RouteInv, TypeOK
<1>7. pc[r] = "find" /\ pc' = [pc EXCEPT ![r] = "cachePut"] /\ reply' = NoReply
        /\ UNCHANGED <<open, cache>>
  BY DEF Find, Goto
<1>8. JobInv'
  <2>1. \A q \in Relay : q # r => pc'[q] = pc[q]
    BY <1>7 DEF RouteInv, TypeOK
  <2>2. Busy(r) /\ Right(job[r])
    BY <1>7 DEF RouteInv, JobInv
  <2>3. Busy(r)' /\ Right(job'[r])
    BY <1>5, <2>2 DEF Busy, Right
  <2>4. QED
    BY <1>4, <2>1, <2>3 DEF JobInv, RouteInv, Busy, Right
<1>9. QED
  BY <1>6, <1>7, <1>8 DEF RouteInv, TypeOK, CacheInv

LEMMA TokenKeepsRoute ==
    ASSUME RouteConstantsOK, RouteInv, TokenReply
    PROVE  RouteInv'
<1>1. PICK ask \in TokenAsk :
        \E found \in Lookups(ask.app) :
          reply' = [via |-> "token", type |-> ask.format,
                    work |-> [NoWork EXCEPT !.ask = ask, !.row = found.row,
                                            !.truncated = found.truncated]]
  BY DEF TokenReply
<1>2. ask \in Ask
  BY AskIsAsk
<1>3. PICK found \in Lookups(ask.app) :
        reply' = [via |-> "token", type |-> ask.format,
                  work |-> [NoWork EXCEPT !.ask = ask, !.row = found.row,
                                          !.truncated = found.truncated]]
  BY <1>1
<1>4. found.row \in Row /\ found.truncated \in BOOLEAN
  BY <1>2, FoundIsRow DEF Ask
<1>5. reply' \in Reply
  BY <1>2, <1>3, <1>4, NoWorkIsWork DEF Reply, Work, NoWork, Ask
<1>6. QED
  BY <1>5 DEF TokenReply, RouteInv, TypeOK, JobInv, CacheInv, Busy, Right

\* The steps that move one goroutine and store nothing.
LEMMA MoveKeepsRoute ==
    ASSUME RouteInv, NEW r \in Relay,
           \/ CacheMiss(r) \/ Authenticated(r) \/ Refused(r) \/ Close(r) \/ FindFails(r)
    PROVE  RouteInv'
<1>1. CASE Refused(r) \/ FindFails(r)
  <2>1. Finish(r) /\ reply' = NoReply /\ cache' = cache
    BY <1>1 DEF Refused, FindFails
  <2>2. open' \subseteq open
    BY <1>1 DEF Refused, FindFails
  <2>3. QED
    BY <2>1, <2>2, FinishKeepsJob DEF RouteInv, TypeOK, CacheInv
<1>2. CASE CacheMiss(r) \/ Authenticated(r) \/ Close(r)
  <2>1. /\ cache' = cache /\ job' = job /\ reply' = NoReply
        /\ open' \subseteq open
    BY <1>2 DEF CacheMiss, Authenticated, Close, DelOutcomes
  <2>2. TypeOK'
    BY <1>2, <2>1 DEF CacheMiss, Authenticated, Close, Goto, RouteInv, TypeOK
  <2>3. /\ pc[r] # "idle"
        /\ pc'[r] \in {"close", "find"} => Right(job[r])
        /\ \A q \in Relay : q # r => pc'[q] = pc[q]
    BY <1>2 DEF CacheMiss, Authenticated, Close, Goto, RouteInv, TypeOK, JobInv, Right
  <2>4. pc'[r] # "cachePut"
    BY <1>2 DEF CacheMiss, Authenticated, Close, Goto, RouteInv, TypeOK
  <2>5. JobInv'
    BY <2>1, <2>3, <2>4 DEF RouteInv, JobInv, Busy, Right
  <2>6. QED
    BY <2>1, <2>2, <2>5 DEF RouteInv, CacheInv
<1>3. QED
  BY <1>1, <1>2

LEMMA ExpireKeepsRoute ==
    ASSUME RouteInv, Expire
    PROVE  RouteInv'
<1>1. UNCHANGED <<pc, job>> /\ reply' = NoReply
  BY DEF Expire
<1>2. open' \subseteq open
  BY DEF Expire
<1>3. \/ cache' = cache
      \/ \E key \in Keys : cache' = [cache EXCEPT ![key] = NoWork]
  BY DEF Expire
<1>4. cache' \in [Keys -> Work]
  BY <1>3, NoWorkIsWork DEF RouteInv, TypeOK
<1>5. \A key \in Keys : cache'[key] \in {cache[key], NoWork}
  BY <1>3 DEF RouteInv, TypeOK
<1>6. CacheInv'
  BY <1>5 DEF RouteInv, CacheInv, Right
<1>7. QED
  BY <1>1, <1>2, <1>4, <1>6 DEF RouteInv, TypeOK, JobInv, Busy, Right

LEMMA NextRoute ==
    ASSUME RouteConstantsOK, RouteInv, [Next]_vars
    PROVE  RouteInv'
<1>1. ASSUME NEW r \in Relay,
             \/ EapRelay(r) \/ CacheHit(r) \/ CacheMiss(r) \/ Authenticated(r) \/ Refused(r)
             \/ Close(r) \/ Find(r) \/ FindFails(r) \/ CachePut(r)
      PROVE  RouteInv'
  BY <1>1, RelayKeepsRoute, HitKeepsRoute, MoveKeepsRoute, FindKeepsRoute, PutKeepsRoute
<1>2. CASE Crash
  BY <1>2, NoWorkIsWork DEF Crash, RouteInv, TypeOK, JobInv, CacheInv
<1>3. CASE UNCHANGED vars
  BY <1>3 DEF vars, RouteInv, TypeOK, JobInv, CacheInv, Busy, Right
<1>4. QED
  BY <1>1, <1>2, <1>3, TokenKeepsRoute, ExpireKeepsRoute DEF Next

\* RouteInv holds in every reachable state (routes.go, idempotency.go).
THEOREM Invariance == Spec => []RouteInv
<1>1. RouteConstantsOK /\ RouteInv /\ [Next]_vars => RouteInv'
  BY NextRoute
<1>2. QED
  BY <1>1, InitRoute, RouteConstantsOK, PTL DEF Spec

\* Every variable keeps its type.
THEOREM TypeCorrect == Spec => []TypeOK
<1>1. RouteInv => TypeOK
  BY DEF RouteInv
<1>2. QED
  BY <1>1, Invariance, PTL

-----------------------------------------------------------------------------
(* Replies to EAP responses *)

\* Nobody but r itself, by a cached or by a new reply, serves r.
LEMMA ServedBy ==
    ASSUME RouteInv, NEW r \in Relay, [Next]_vars, Served(r)
    PROVE  CacheHit(r) \/ CachePut(r)
<1>1. ASSUME NEW q \in Relay,
             \/ EapRelay(q) \/ CacheHit(q) \/ CacheMiss(q) \/ Authenticated(q) \/ Refused(q)
             \/ Close(q) \/ Find(q) \/ FindFails(q) \/ CachePut(q)
      PROVE  CacheHit(r) \/ CachePut(r)
  <2>1. CacheHit(q) \/ CachePut(q)
    BY <1>1 DEF Served, EapRelay, CacheMiss, Authenticated, Refused, Close, Find, FindFails
  <2>2. pc' = [pc EXCEPT ![q] = "idle"]
    BY <2>1 DEF CacheHit, CachePut, Finish, Goto
  <2>3. q = r
    BY <2>2 DEF Served, RouteInv, TypeOK
  <2>4. QED
    BY <2>1, <2>3
<1>2. ~ Expire /\ ~ Crash /\ ~ TokenReply /\ ~ UNCHANGED vars
  BY DEF Served, Expire, Crash, TokenReply, Quiet, vars
<1>3. QED
  BY <1>1, <1>2 DEF Next

\* A 200 on an EAP response was built for a session and the right response to it,
\* whichever goroutine built it and however long ago, and the request has the text of both;
\* if its header is a session ID, they are its own (routes.go, idempotency.go).
THEOREM Repeats == Spec => ReplayRepeats
<1>1. ASSUME RouteConstantsOK, RouteInv, [Next]_vars, NEW r \in Relay, Served(r)
      PROVE  LET work == reply'.work IN
             /\ work.session \in Session /\ work.body \in Answer[work.session]
             /\ Text(work.session, work.body) = Text(job[r].session, job[r].body)
             /\ job[r].session \in Session =>
                    work.session = job[r].session /\ work.body = job[r].body
             /\ reply'.via = "relay" => work.ask = job[r].ask /\ reply'.type = job[r].ask.format
  <2>1. CASE CacheHit(r)
    <3> DEFINE key == Text(job[r].session, job[r].body)
               doc == cache[key]
    <3>1. Busy(r)
      BY <1>1, <2>1 DEF CacheHit, RouteInv, JobInv
    <3>2. key \in Keys /\ Cached(job[r].session, job[r].body) = doc
      BY <3>1, KeyIs DEF Busy
    <3>3. doc # NoWork /\ reply'.work = doc /\ reply'.via = "cache"
      BY <2>1, <3>2 DEF CacheHit
    <3>4. Right(doc) /\ Text(doc.session, doc.body) = key
      BY <1>1, <3>2, <3>3 DEF RouteInv, CacheInv
    <3>5. doc.body \in Body
      BY <1>1, <3>4 DEF Right, RouteConstantsOK
    <3>6. job[r].session \in Session => doc.session = job[r].session /\ doc.body = job[r].body
      BY <1>1, <3>1, <3>4, <3>5 DEF Busy, Right, RouteConstantsOK
    <3> HIDE DEF doc
    <3>7. QED
      BY <3>3, <3>4, <3>6 DEF Right
  <2>2. CASE CachePut(r)
    BY <1>1, <2>2 DEF CachePut, RouteInv, JobInv, Right
  <2>3. QED
    BY <1>1, <2>1, <2>2, ServedBy
<1>2. RouteConstantsOK /\ RouteInv /\ [Next]_vars =>
        [\A r \in Relay : Served(r) =>
           LET work == reply'.work IN
           /\ work.session \in Session /\ work.body \in Answer[work.session]
           /\ Text(work.session, work.body) = Text(job[r].session, job[r].body)
           /\ job[r].session \in Session =>
                  work.session = job[r].session /\ work.body = job[r].body
           /\ reply'.via = "relay" => work.ask = job[r].ask /\ reply'.type = job[r].ask.format]_vars
  BY <1>1
<1>3. QED
  BY <1>2, Invariance, RouteConstantsOK, PTL DEF Spec, ReplayRepeats
-----------------------------------------------------------------------------
(* Parameters *)

LEMMA ParamIs ==
    ASSUME NEW name, NEW value
    PROVE  DOMAIN Param(name, value) = {name} /\ Param(name, value)[name] = value
  BY DEF Param

LEMMA OverlayIs ==
    ASSUME NEW f, NEW g
    PROVE  /\ DOMAIN Overlay(f, g) = DOMAIN f \cup DOMAIN g
           /\ \A name \in DOMAIN g : Overlay(f, g)[name] = g[name]
           /\ \A name \in DOMAIN f \ DOMAIN g : Overlay(f, g)[name] = f[name]
  BY DEF Overlay

LEMMA CopyIs ==
    ASSUME NEW config, NEW names
    PROVE  DOMAIN Copy(config, names) = names \cap config.has
  BY DEF Copy

LEMMA NoParamsIs == DOMAIN NoParams = {}
  BY DEF NoParams

\* Where the names of f and g differ, an overlay loses nothing.
LEMMA PairsOfOverlay ==
    ASSUME NEW f, NEW g, DOMAIN f \cap DOMAIN g = {}
    PROVE  Pairs(Overlay(f, g)) = Pairs(f) \cup Pairs(g)
<1> DEFINE h == Overlay(f, g)
<1>1. /\ DOMAIN h = DOMAIN f \cup DOMAIN g
      /\ \A name \in DOMAIN g : h[name] = g[name]
      /\ \A name \in DOMAIN f \ DOMAIN g : h[name] = f[name]
  BY OverlayIs
<1> HIDE DEF h
<1>2. \A name \in DOMAIN f : name \in DOMAIN h /\ h[name] = f[name]
  BY <1>1
<1>3. Pairs(f) \cup Pairs(g) \subseteq Pairs(h)
  BY <1>1, <1>2 DEF Pairs
<1>4. Pairs(h) \subseteq Pairs(f) \cup Pairs(g)
  BY <1>1, <1>2 DEF Pairs
<1>5. QED
  BY <1>3, <1>4 DEF h

LEMMA PairsIs ==
    ASSUME NEW f, NEW name, NEW value
    PROVE  <<name, value>> \in Pairs(f) <=> name \in DOMAIN f /\ value = f[name]
  BY DEF Pairs

-----------------------------------------------------------------------------
(* What the tables can tell *)

\* Every parameter with a field of its own, and the fields that decide which there are.
FixedName == {"EntitlementStatus", "TC_Status", "AddrStatus", "ServiceFlow_URL", "Addr"}

LEMMA FixedIs ==
    ASSUME NEW a
    PROVE  /\ DOMAIN Fixed(a) \subseteq FixedName
           /\ "ServiceFlow_URL" \in DOMAIN Fixed(a) => a.flow
           /\ "Addr" \in DOMAIN Fixed(a) => a.addresses # ""
           /\ "AddrStatus" \in DOMAIN Fixed(a) =>
                a.addrStatus # "" /\ Fixed(a)["AddrStatus"] = a.addrStatus
           /\ "EntitlementStatus" \in DOMAIN Fixed(a)
           /\ Fixed(a)["EntitlementStatus"] = a.status
<1> DEFINE with(name, value, present) == IF present THEN Param(name, value) ELSE NoParams
           status    == Overlay(Param("EntitlementStatus", a.status), Param("TC_Status", a.tc))
           addresses == Overlay(with("ServiceFlow_URL", "row", a.flow),
                                with("Addr", a.addresses, a.addresses # ""))
           optional  == Overlay(with("AddrStatus", a.addrStatus, a.addrStatus # ""), addresses)
<1>1. \A name, value, present :
        /\ DOMAIN with(name, value, present) = IF present THEN {name} ELSE {}
        /\ present => with(name, value, present)[name] = value
  BY ParamIs, NoParamsIs
<1>2. /\ DOMAIN status = {"EntitlementStatus", "TC_Status"}
      /\ status["EntitlementStatus"] = a.status
  <2> DEFINE f == Param("EntitlementStatus", a.status)
             g == Param("TC_Status", a.tc)
  <2>1. DOMAIN f = {"EntitlementStatus"} /\ f["EntitlementStatus"] = a.status
    BY ParamIs
  <2>2. DOMAIN g = {"TC_Status"}
    BY ParamIs
  <2> HIDE DEF f, g
  <2>3. /\ DOMAIN Overlay(f, g) = DOMAIN f \cup DOMAIN g
        /\ \A name \in DOMAIN f \ DOMAIN g : Overlay(f, g)[name] = f[name]
    BY OverlayIs
  <2>4. QED
    BY <2>1, <2>2, <2>3 DEF f, g
<1>3. DOMAIN addresses = (IF a.flow THEN {"ServiceFlow_URL"} ELSE {})
                            \cup (IF a.addresses # "" THEN {"Addr"} ELSE {})
  <2> DEFINE f == with("ServiceFlow_URL", "row", a.flow)
             g == with("Addr", a.addresses, a.addresses # "")
  <2>1. DOMAIN f = IF a.flow THEN {"ServiceFlow_URL"} ELSE {}
    BY <1>1
  <2>2. DOMAIN g = IF a.addresses # "" THEN {"Addr"} ELSE {}
    BY <1>1
  <2> HIDE DEF f, g
  <2>3. DOMAIN Overlay(f, g) = DOMAIN f \cup DOMAIN g
    BY OverlayIs
  <2>4. QED
    BY <2>1, <2>2, <2>3 DEF f, g
<1>4. /\ DOMAIN optional = (IF a.addrStatus # "" THEN {"AddrStatus"} ELSE {})
                              \cup DOMAIN addresses
      /\ a.addrStatus # "" => optional["AddrStatus"] = a.addrStatus
  <2> DEFINE f == with("AddrStatus", a.addrStatus, a.addrStatus # "")
  <2>1. /\ DOMAIN f = IF a.addrStatus # "" THEN {"AddrStatus"} ELSE {}
        /\ a.addrStatus # "" => f["AddrStatus"] = a.addrStatus
    BY <1>1
  <2>2. "AddrStatus" \notin DOMAIN addresses
    BY <1>3
  <2> HIDE DEF f, addresses
  <2>3. /\ DOMAIN Overlay(f, addresses) = DOMAIN f \cup DOMAIN addresses
        /\ \A name \in DOMAIN f \ DOMAIN addresses : Overlay(f, addresses)[name] = f[name]
    BY OverlayIs
  <2>4. QED
    BY <2>1, <2>2, <2>3 DEF f
<1>5. Fixed(a) = Overlay(status, optional)
  BY DEF Fixed
<1>6. QED
  <2> HIDE DEF status, addresses, optional
  <2>1. /\ DOMAIN Overlay(status, optional) = DOMAIN status \cup DOMAIN optional
        /\ \A name \in DOMAIN optional : Overlay(status, optional)[name] = optional[name]
        /\ \A name \in DOMAIN status \ DOMAIN optional :
             Overlay(status, optional)[name] = status[name]
    BY OverlayIs
  <2>0. /\ DOMAIN Fixed(a) = DOMAIN status \cup DOMAIN optional
        /\ \A name \in DOMAIN optional : Fixed(a)[name] = optional[name]
        /\ \A name \in DOMAIN status \ DOMAIN optional : Fixed(a)[name] = status[name]
    BY <1>5, <2>1
  <2>2. DOMAIN optional \subseteq {"AddrStatus", "ServiceFlow_URL", "Addr"}
    BY <1>3, <1>4
  <2>3. "EntitlementStatus" \in DOMAIN status \ DOMAIN optional
    BY <1>2, <2>2
  <2>4. DOMAIN Fixed(a) \subseteq FixedName
    BY <1>2, <2>0, <2>2 DEF FixedName
  <2>5. QED
    BY <1>2, <1>3, <1>4, <2>0, <2>2, <2>3, <2>4

LEMMA BaseIs ==
    ASSUME NEW app, NEW status, NEW tc
    PROVE  LET b == Base(app, status, tc) IN
           /\ b.status = status /\ b.addrStatus = "" /\ b.addresses = ""
           /\ b.flow = FALSE /\ b.extra = NoParams
  BY DEF Base

\* The names an operation can tell besides the result.
OdsaName == (ConfigKey \ {"Addr"}) \cup {"SMDP+ActivationCode"}

LEMMA OdsaNames ==
    /\ "SubscriptionResult" \notin OdsaName
    /\ ({"SubscriptionResult"} \cup OdsaName) \cap FixedName = {"ServiceFlow_URL"}
  BY DEF OdsaName, ConfigKey, FixedName

\* An ODSA operation tells a result, in an extra parameter, and nothing else but what
\* config_data and the SM-DP+ say.
Odsa(a, result, names) ==
    /\ a.addrStatus = "" /\ a.addresses = "" /\ a.flow = FALSE
    /\ DOMAIN a.extra = {"SubscriptionResult"} \cup names
    /\ names \subseteq OdsaName
    /\ a.extra["SubscriptionResult"] = result

LEMMA OdsaIs ==
    ASSUME NEW app, NEW status, NEW tc, NEW result, NEW extra, DOMAIN extra \subseteq OdsaName
    PROVE  /\ Odsa(BuildOdsaBaseConfig(app, status, tc, result, extra), result, DOMAIN extra)
           /\ BuildOdsaBaseConfig(app, status, tc, result, extra).status = status
<1> DEFINE f == Param("SubscriptionResult", result)
           h == Overlay(f, extra)
           b == [Base(app, status, tc) EXCEPT !.extra = h]
<1>1. DOMAIN f = {"SubscriptionResult"} /\ f["SubscriptionResult"] = result
  BY ParamIs
<1> HIDE DEF f
<1>2. /\ DOMAIN h = DOMAIN f \cup DOMAIN extra
      /\ \A name \in DOMAIN f \ DOMAIN extra : h[name] = f[name]
  BY OverlayIs
<1> HIDE DEF h
<1>3. /\ b.status = status /\ b.addrStatus = "" /\ b.addresses = "" /\ b.flow = FALSE
      /\ b.extra = h
  BY DEF Base
<1> HIDE DEF b
<1>4. b = BuildOdsaBaseConfig(app, status, tc, result, extra)
  BY DEF b, h, f, BuildOdsaBaseConfig
<1>5. Odsa(b, result, DOMAIN extra)
  BY <1>1, <1>2, <1>3, OdsaNames DEF Odsa
<1>6. QED
  BY <1>3, <1>4, <1>5

LEMMA CheckTells ==
    ASSUME NEW app, NEW row
    PROVE  /\ \E names : Odsa(CheckEligibility(app, row), "Done", names)
           /\ Eligible(app, row.config) => CheckEligibility(app, row).status = "Enabled"
<1> DEFINE extra == Copy(row.config, Enterprise(app))
<1>1. DOMAIN extra \subseteq OdsaName
  BY CopyIs DEF Enterprise, OdsaName, ConfigKey
<1> HIDE DEF extra
<1>2. QED
  BY <1>1, OdsaIs DEF CheckEligibility, extra

LEMMA FlowTells ==
    ASSUME NEW app, NEW row, OffersFlow(row.config)
    PROVE  \E names : /\ Odsa(ManageSubscription(app, row), "ContinueToWS", names)
                      /\ "ServiceFlow_URL" \in names
<1> DEFINE extra == Copy(row.config, {"ServiceFlow_URL", "ServiceFlow_UserData"} \cup Enterprise(app))
<1>1. DOMAIN extra \subseteq OdsaName /\ "ServiceFlow_URL" \in DOMAIN extra
  <2>1. DOMAIN extra
          = ({"ServiceFlow_URL", "ServiceFlow_UserData"} \cup Enterprise(app)) \cap row.config.has
    BY CopyIs
  <2> HIDE DEF extra
  <2>2. QED
    BY <2>1 DEF Enterprise, OdsaName, ConfigKey, OffersFlow
<1> HIDE DEF extra
<1>2. Odsa(BuildOdsaBaseConfig(app, row.status, row.tc, "ContinueToWS", extra),
           "ContinueToWS", DOMAIN extra)
  BY <1>1, OdsaIs
<1>3. ManageSubscription(app, row)
        = BuildOdsaBaseConfig(app, row.status, row.tc, "ContinueToWS", extra)
  BY DEF ManageSubscription, extra
<1>4. QED
  BY <1>1, <1>2, <1>3

ProfileNames == {"SMDP+Address", "SMDP+ActivationCode", "ProfileICCID"}

LEMMA ProfileTells ==
    ASSUME NEW app, NEW row, ~ OffersFlow(row.config), OffersProfile(row.config)
    PROVE  Odsa(ManageSubscription(app, row), "DownloadProfile", ProfileNames)
<1> DEFINE activation == GetActivationCode(ProfileKey(app, row.config))
           f == Copy(row.config, {"SMDP+Address"})
           g == Overlay(Param("SMDP+ActivationCode", activation), Param("ProfileICCID", activation))
<1>1. DOMAIN f = {"SMDP+Address"}
  <2>1. DOMAIN f = {"SMDP+Address"} \cap row.config.has
    BY CopyIs
  <2>2. QED
    BY <2>1 DEF OffersProfile
<1>2. DOMAIN g = {"SMDP+ActivationCode", "ProfileICCID"}
  <2> DEFINE p == Param("SMDP+ActivationCode", activation)
             q == Param("ProfileICCID", activation)
  <2> HIDE DEF activation
  <2>1. DOMAIN p = {"SMDP+ActivationCode"} /\ DOMAIN q = {"ProfileICCID"}
    BY ParamIs
  <2> HIDE DEF p, q
  <2>2. DOMAIN Overlay(p, q) = DOMAIN p \cup DOMAIN q
    BY OverlayIs
  <2>3. QED
    BY <2>1, <2>2 DEF p, q
<1> HIDE DEF f, g
<1>3. DOMAIN Overlay(f, g) = ProfileNames
  <2>1. DOMAIN Overlay(f, g) = DOMAIN f \cup DOMAIN g
    BY OverlayIs
  <2>2. QED
    BY <1>1, <1>2, <2>1 DEF ProfileNames
<1>4. ProfileNames \subseteq OdsaName
  BY DEF ProfileNames, OdsaName, ConfigKey
<1>5. ManageSubscription(app, row)
        = BuildOdsaBaseConfig(app, row.status, row.tc, "DownloadProfile", Overlay(f, g))
  BY DEF ManageSubscription, f, g
<1>6. QED
  BY <1>3, <1>4, <1>5, OdsaIs

LEMMA NoOfferTells ==
    ASSUME NEW app, NEW row, ~ OffersFlow(row.config), ~ OffersProfile(row.config)
    PROVE  \E names : Odsa(ManageSubscription(app, row), "Done", names)
<1>1. ManageSubscription(app, row)
        = BuildOdsaBaseConfig(app, row.status, row.tc, "Done", NoParams)
  BY DEF ManageSubscription
<1>2. QED
  BY <1>1, NoParamsIs, OdsaIs

LEMMA PlanTells ==
    ASSUME NEW app, NEW row
    PROVE  \E names : \/ Odsa(AcquirePlan(app, row), "Done", names)
                      \/ Odsa(AcquirePlan(app, row), "ContinueToWS", names)
                            /\ "ServiceFlow_URL" \in names
<1> DEFINE extra  == Copy(row.config, {"ServiceFlow_URL", "PlanId", "PlanName"})
           result == IF "ServiceFlow_URL" \in row.config.has THEN "ContinueToWS" ELSE "Done"
<1>1. /\ DOMAIN extra \subseteq OdsaName
      /\ "ServiceFlow_URL" \in row.config.has => "ServiceFlow_URL" \in DOMAIN extra
  <2>1. DOMAIN extra = {"ServiceFlow_URL", "PlanId", "PlanName"} \cap row.config.has
    BY CopyIs
  <2> HIDE DEF extra
  <2>2. QED
    BY <2>1 DEF OdsaName, ConfigKey
<1> HIDE DEF extra
<1>2. Odsa(BuildOdsaBaseConfig(app, row.status, row.tc, result, extra), result, DOMAIN extra)
  BY <1>1, OdsaIs
<1>3. AcquirePlan(app, row) = BuildOdsaBaseConfig(app, row.status, row.tc, result, extra)
  BY DEF AcquirePlan, extra
<1>4. CASE "ServiceFlow_URL" \in row.config.has
  BY <1>1, <1>2, <1>3, <1>4
<1>5. CASE "ServiceFlow_URL" \notin row.config.has
  BY <1>2, <1>3, <1>5
<1>6. QED
  BY <1>4, <1>5

\* What each operation of a service can tell.
LEMMA OperationTells ==
    ASSUME NEW app \in AppID, NEW op \in OperationsOf(app), NEW row
    PROVE  \E names :
             \/ Odsa(Operation(app, op, row), "Done", names)
             \/ /\ Odsa(Operation(app, op, row), "ContinueToWS", names)
                /\ "ServiceFlow_URL" \in names
                /\ op = "ManageSubscription" => OffersFlow(row.config)
             \/ /\ Odsa(Operation(app, op, row), "DownloadProfile", names)
                /\ names = ProfileNames
                /\ OffersProfile(row.config)
<1>1. CASE op = "CheckEligibility"
  BY <1>1, CheckTells DEF Operation
<1>2. CASE op = "ManageSubscription"
  <2>1. Operation(app, op, row) = ManageSubscription(app, row)
    BY <1>2 DEF Operation
  <2>2. QED
    BY <2>1, FlowTells, ProfileTells, NoOfferTells
<1>3. CASE op = "AcquirePlan"
  BY <1>3, PlanTells DEF Operation
<1>4. CASE op \notin {"CheckEligibility", "ManageSubscription", "AcquirePlan"}
  <2> DEFINE extra == Copy(row.config, CopiedBy[op])
  <2>1. op \in {"ManageService", "AcquireConfiguration", "AcquireTemporaryToken",
                "GetPlanDetails", "GetPhoneNumber", "GetSubscriberInfo"}
    BY <1>4 DEF OperationsOf
  <2>2. CopiedBy[op] \subseteq OdsaName
    BY <2>1 DEF CopiedBy, OdsaName, ConfigKey
  <2>3. DOMAIN extra \subseteq OdsaName
    <3>1. DOMAIN extra = CopiedBy[op] \cap row.config.has
      BY CopyIs
    <3>2. QED
      BY <2>2, <3>1
  <2> HIDE DEF extra
  <2>4. Operation(app, op, row)
          = BuildOdsaBaseConfig(app, row.status, row.tc, "Done", extra)
    BY <1>4 DEF Operation, extra
  <2>5. QED
    BY <2>3, <2>4, OdsaIs
<1>5. QED
  BY <1>1, <1>2, <1>3, <1>4

\* The names a service without operations can tell besides those with fields.
IdentityName ==
    {"Pseudonym", "IdentityType", "OperatorTokenUrl", "AppTokenScope", "PLMNAllow",
     "PLMNBarred", "ServiceConstraints"}

PlainName == VoiceParams \cup {"Message"} \cup IdentityName

LEMMA PlainNames ==
    /\ "SubscriptionResult" \notin PlainName \cup FixedName
    /\ PlainName \cap FixedName = {}
  BY DEF PlainName, VoiceParams, IdentityName, FixedName

\* A service without operations tells the status of its row, and names nothing to use
\* it by unless that is Enabled.
Plain(a, row) ==
    /\ a.status = row.status
    /\ DOMAIN a.extra \subseteq PlainName
    /\ row.status # "Enabled" =>
         /\ a.addresses = ""
         /\ a.addrStatus # "1"
         /\ DOMAIN a.extra \subseteq VoiceParams \cup {"Message"}
         /\ \A name \in VoiceParams \cap DOMAIN a.extra : a.extra[name] = "0"

LEMMA BaseTells == ASSUME NEW app, NEW row PROVE Plain(Base(app, row.status, row.tc), row)
  BY NoParamsIs DEF Plain, Base

LEMMA AddressesTell == ASSUME NEW app, NEW row PROVE Plain(Addresses(app, row), row)
<1>1. CASE row.status = "Enabled"
  BY <1>1, NoParamsIs DEF Plain, Addresses, Base
<1>2. CASE row.status # "Enabled"
  BY <1>2, NoParamsIs DEF Plain, Addresses, Base
<1>3. QED
  BY <1>1, <1>2

LEMMA VoWiFiTells == ASSUME NEW row PROVE Plain(BuildVoWiFiConfig(row), row)
<1>1. CASE row.status = "Enabled"
  BY <1>1, NoParamsIs DEF Plain, BuildVoWiFiConfig, Addresses, Base
<1>2. CASE row.status # "Enabled"
  BY <1>2, NoParamsIs DEF Plain, BuildVoWiFiConfig, Addresses, Base
<1>3. QED
  BY <1>1, <1>2

LEMMA VoLTETells == ASSUME NEW row PROVE Plain(BuildVoLTEConfig(row), row)
<1> DEFINE extra == [name \in VoiceParams |->
                       CASE row.status # "Enabled" -> "0"
                         [] row.status = "Enabled" /\ name \in row.config.has -> "row"
                         [] OTHER -> "1"]
<1>1. DOMAIN extra = VoiceParams
  OBVIOUS
<1>2. row.status # "Enabled" => \A name \in VoiceParams : extra[name] = "0"
  OBVIOUS
<1> HIDE DEF extra
<1>3. BuildVoLTEConfig(row) = [Addresses("VoLTE", row) EXCEPT !.extra = extra]
  BY DEF BuildVoLTEConfig, extra
<1>4. VoiceParams \subseteq PlainName
  BY DEF PlainName
<1>5. CASE row.status = "Enabled"
  BY <1>1, <1>3, <1>4, <1>5 DEF Plain, Addresses, Base
<1>6. CASE row.status # "Enabled"
  BY <1>1, <1>2, <1>3, <1>4, <1>6 DEF Plain, Addresses, Base
<1>7. QED
  BY <1>5, <1>6

LEMMA DcbTells == ASSUME NEW row PROVE Plain(BuildDcbConfig(row), row)
<1>1. CASE row.status = "Incompatible"
  <2> DEFINE extra == Param("Message", "not available")
  <2>1. DOMAIN extra = {"Message"}
    BY ParamIs
  <2> HIDE DEF extra
  <2>2. BuildDcbConfig(row) = [Base("Dcb", row.status, row.tc) EXCEPT !.extra = extra]
    BY <1>1 DEF BuildDcbConfig, extra
  <2>3. QED
    BY <1>1, <2>1, <2>2 DEF Plain, Base, PlainName, VoiceParams
<1>2. CASE row.status # "Incompatible"
  BY <1>2, NoParamsIs DEF Plain, BuildDcbConfig, Base
<1>3. QED
  BY <1>1, <1>2

LEMMA IdentityTells ==
    ASSUME NEW app \in {"PrivateIdentity", "AppAuth", "SatMode"}, NEW row
    PROVE  Plain(BuildIdentityConfig(app, row), row)
<1>1. CASE row.status = "Enabled"
  <2> DEFINE defaults == IF app = "PrivateIdentity" THEN Param("IdentityType", "PSEUDONYM")
                         ELSE NoParams
             known    == Copy(row.config, IdentityParams(app))
             extra    == Overlay(defaults, known)
  <2>1. DOMAIN defaults \subseteq IdentityName
    <3>1. DOMAIN Param("IdentityType", "PSEUDONYM") = {"IdentityType"}
      BY ParamIs
    <3>2. QED
      BY <3>1, NoParamsIs DEF IdentityName
  <2>2. DOMAIN known \subseteq IdentityName
    <3>1. DOMAIN known = IdentityParams(app) \cap row.config.has
      BY CopyIs
    <3> HIDE DEF known
    <3>2. QED
      BY <3>1 DEF IdentityParams, IdentityName
  <2>3. BuildIdentityConfig(app, row) = [Base(app, row.status, row.tc) EXCEPT !.extra = extra]
    BY <1>1 DEF BuildIdentityConfig
  <2> HIDE DEF defaults, known
  <2>4. DOMAIN extra = DOMAIN defaults \cup DOMAIN known
    BY OverlayIs
  <2> HIDE DEF extra
  <2>5. QED
    BY <1>1, <2>1, <2>2, <2>3, <2>4 DEF Plain, Base, PlainName
<1>2. CASE row.status # "Enabled"
  BY <1>2, BaseTells DEF BuildIdentityConfig
<1>3. QED
  BY <1>1, <1>2

LEMMA PlainTells ==
    ASSUME NEW app \in AppID, NEW op, op \notin OperationsOf(app), NEW row
    PROVE  Plain(AppConfig(app, op, row), row)
<1>1. \/ AppConfig(app, op, row) = BuildVoWiFiConfig(row)
      \/ AppConfig(app, op, row) = BuildVoLTEConfig(row)
      \/ AppConfig(app, op, row) = Addresses("SMSoIP", row)
      \/ AppConfig(app, op, row) = BuildDcbConfig(row)
      \/ /\ AppConfig(app, op, row) = BuildIdentityConfig(app, row)
         /\ app \in {"PrivateIdentity", "AppAuth", "SatMode"}
      \/ AppConfig(app, op, row) = Base(app, row.status, row.tc)
  BY DEF AppConfig
<1>2. QED
  BY <1>1, VoWiFiTells, VoLTETells, AddressesTell, DcbTells, IdentityTells, BaseTells

LEMMA OdsaTells ==
    ASSUME NEW app, NEW op \in OperationsOf(app), NEW row
    PROVE  AppConfig(app, op, row) = Operation(app, op, row)
<1>1. app \in {"Companion", "Primary", "ServerOdsa", "DataPlan", "DeviceUserInfo"}
  BY DEF OperationsOf
<1>2. QED
  BY <1>1 DEF AppConfig

-----------------------------------------------------------------------------
(* Both formats *)

\* No extra parameter has the name of one with a field of its own.
Apart(a) == DOMAIN Fixed(a) \cap DOMAIN a.extra = {}

LEMMA OdsaApart ==
    ASSUME NEW a, NEW result, NEW names, Odsa(a, result, names)
    PROVE  Apart(a)
<1>1. DOMAIN Fixed(a) \subseteq {"EntitlementStatus", "TC_Status"}
  BY FixedIs DEF Odsa, FixedName
<1>2. DOMAIN a.extra \subseteq {"SubscriptionResult"} \cup OdsaName
  BY DEF Odsa
<1>3. {"EntitlementStatus", "TC_Status"} \cap ({"SubscriptionResult"} \cup OdsaName) = {}
  BY DEF OdsaName, ConfigKey
<1>4. QED
  BY <1>1, <1>2, <1>3 DEF Apart

LEMMA AlwaysApart ==
    ASSUME NEW app \in AppID, NEW op, NEW row
    PROVE  Apart(AppConfig(app, op, row))
<1>1. CASE op \in OperationsOf(app)
  BY <1>1, OperationTells, OdsaTells, OdsaApart
<1>2. CASE op \notin OperationsOf(app)
  BY <1>2, PlainTells, PlainNames, FixedIs DEF Plain, Apart
<1>3. QED
  BY <1>1, <1>2

LEMMA RenderedIs ==
    ASSUME NEW a, Apart(a), NEW format
    PROVE  /\ JSONParams(a) = XMLParams(a)
           /\ Rendered(a, format) = Pairs(Fixed(a)) \cup Pairs(a.extra)
  BY PairsOfOverlay DEF Apart, JSONParams, XMLParams, Rendered

LEMMA SaysIs ==
    ASSUME NEW a, Apart(a), NEW format, NEW name, NEW value
    PROVE  <<name, value>> \in Rendered(a, format) <=>
             \/ name \in DOMAIN Fixed(a) /\ value = Fixed(a)[name]
             \/ name \in DOMAIN a.extra /\ value = a.extra[name]
  BY RenderedIs, PairsIs

LEMMA NamesIs ==
    ASSUME NEW a, Apart(a), NEW format, NEW name
    PROVE  (\E pair \in Rendered(a, format) : pair[1] = name) <=>
             name \in DOMAIN Fixed(a) \cup DOMAIN a.extra
<1>1. Rendered(a, format) = Pairs(Fixed(a)) \cup Pairs(a.extra)
  BY RenderedIs
<1>2. ASSUME NEW f
      PROVE  (\E pair \in Pairs(f) : pair[1] = name) <=> name \in DOMAIN f
  <2>1. ASSUME NEW pair \in Pairs(f), pair[1] = name PROVE name \in DOMAIN f
    <3>1. PICK n \in DOMAIN f : pair = <<n, f[n]>>
      BY DEF Pairs
    <3>2. QED
      BY <2>1, <3>1
  <2>2. ASSUME name \in DOMAIN f PROVE \E pair \in Pairs(f) : pair[1] = name
    <3>1. <<name, f[name]>> \in Pairs(f)
      BY <2>2 DEF Pairs
    <3>2. QED
      BY <3>1
  <2>3. QED
    BY <2>1, <2>2
<1>3. QED
  BY <1>1, <1>2

\* The request and the row of the last reply.
LEMMA ToldTypes ==
    ASSUME TypeOK
    PROVE  /\ reply.work.ask.app \in AppID
           /\ reply.work.row \in Row
<1>1. reply.work \in Work
  BY NoWorkIsWork DEF TypeOK, Reply, NoReply
<1>2. QED
  BY <1>1 DEF Work, Ask

LEMMA ToldApart == ASSUME TypeOK PROVE Apart(Told)
  BY ToldTypes, AlwaysApart DEF Told

\* A device is told the same in either format (json_builder.go, xml_builder.go).
THEOREM FormatsAlike == Spec => []FormatsAgree
<1>1. TypeOK => FormatsAgree
  BY ToldApart, RenderedIs DEF FormatsAgree
<1>2. QED
  BY <1>1, TypeCorrect, PTL

-----------------------------------------------------------------------------
(* Offers and entitlements *)

\* The result of an operation is told, and told by operations only.
LEMMA ResultTold ==
    ASSUME NEW a, NEW result, NEW names, Odsa(a, result, names), NEW format, NEW value
    PROVE  <<"SubscriptionResult", value>> \in Rendered(a, format) <=> value = result
<1>1. Apart(a)
  BY OdsaApart
<1>2. "SubscriptionResult" \in DOMAIN a.extra /\ a.extra["SubscriptionResult"] = result
  BY DEF Odsa
<1>3. "SubscriptionResult" \notin DOMAIN Fixed(a)
  BY <1>1, <1>2 DEF Apart
<1>4. QED
  BY <1>1, <1>2, <1>3, SaysIs

LEMMA PlainResult ==
    ASSUME NEW a, NEW row, Plain(a, row), Apart(a), NEW format
    PROVE  ~ \E pair \in Rendered(a, format) : pair[1] = "SubscriptionResult"
<1>1. "SubscriptionResult" \notin DOMAIN Fixed(a) \cup DOMAIN a.extra
  BY PlainNames, FixedIs DEF Plain
<1>2. QED
  BY <1>1, NamesIs

\* An offer comes with what it takes to accept it (the ODSA builders).
THEOREM OffersComplete == Spec => []OffersAreComplete
<1>1. ASSUME TypeOK PROVE OffersAreComplete
  <2> DEFINE app == reply.work.ask.app
             op  == reply.work.ask.op
             row == reply.work.row
             format == reply.work.ask.format
  <2>1. app \in AppID /\ Apart(Told)
    BY <1>1, ToldTypes, ToldApart
  <2>2. Told = AppConfig(app, op, row)
    BY DEF Told
  <2> HIDE DEF app, op, row, format
  <2>3. CASE op \notin OperationsOf(app)
    <3>1. Plain(Told, row)
      BY <2>1, <2>2, <2>3, PlainTells
    <3>2. ~ \E pair \in Rendered(Told, format) : pair[1] = "SubscriptionResult"
      BY <2>1, <3>1, PlainResult
    <3>3. \A value : ~ Says("SubscriptionResult", value)
      BY <3>2 DEF Says, format
    <3>4. QED
      BY <3>3 DEF OffersAreComplete
  <2>4. CASE op \in OperationsOf(app)
    <3>1. Told = Operation(app, op, row)
      BY <2>2, <2>4, OdsaTells
    <3>2. PICK names :
             \/ Odsa(Told, "Done", names)
             \/ Odsa(Told, "ContinueToWS", names) /\ "ServiceFlow_URL" \in names
             \/ Odsa(Told, "DownloadProfile", names) /\ names = ProfileNames
      BY <2>1, <2>4, <3>1, OperationTells
    <3>3. \A name \in names : Names(name)
      <4>1. names \subseteq DOMAIN Told.extra
        BY <3>2 DEF Odsa
      <4>2. \A name : Names(name) <=> name \in DOMAIN Fixed(Told) \cup DOMAIN Told.extra
        BY <2>1, NamesIs DEF Names
      <4>3. QED
        BY <4>1, <4>2
    <3>4. CASE Odsa(Told, "Done", names)
      BY <3>4, ResultTold DEF OffersAreComplete, Says
    <3>5. CASE Odsa(Told, "ContinueToWS", names) /\ "ServiceFlow_URL" \in names
      BY <3>3, <3>5, ResultTold DEF OffersAreComplete, Says
    <3>6. CASE Odsa(Told, "DownloadProfile", names) /\ names = ProfileNames
      BY <3>3, <3>6, ResultTold DEF OffersAreComplete, Says, ProfileNames
    <3>7. QED
      BY <3>2, <3>4, <3>5, <3>6
  <2>5. QED
    BY <2>3, <2>4
<1>2. QED
  BY <1>1, TypeCorrect, PTL

\* Whoever ManageSubscription offers something is told by CheckEligibility to be
\* eligible (the ODSA builders).
THEOREM OffersEligible == Spec => []OffersAreEligible
<1>1. ASSUME TypeOK PROVE OffersAreEligible
  <2> DEFINE app == reply.work.ask.app
             op  == reply.work.ask.op
             row == reply.work.row
             format == reply.work.ask.format
  <2>1. app \in AppID /\ Apart(Told)
    BY <1>1, ToldTypes, ToldApart
  <2>2. Told = AppConfig(app, op, row)
    BY DEF Told
  <2>3. SUFFICES ASSUME op = "ManageSubscription", Names("SubscriptionResult"),
                        ~ Says("SubscriptionResult", "Done")
                 PROVE  AppConfig(app, "CheckEligibility", row).status = "Enabled"
    BY DEF OffersAreEligible
  <2> HIDE DEF app, op, row, format
  <2>4. op \in OperationsOf(app)
    <3>1. SUFFICES ASSUME op \notin OperationsOf(app) PROVE FALSE
      OBVIOUS
    <3>2. Plain(Told, row)
      BY <2>1, <2>2, <3>1, PlainTells
    <3>3. QED
      BY <2>1, <2>3, <3>2, PlainResult DEF Names
  <2>5. app \in {"Companion", "Primary", "ServerOdsa"}
    BY <2>3, <2>4 DEF OperationsOf
  <2>6. Told = Operation(app, op, row)
    BY <2>2, <2>4, OdsaTells
  <2>7. OffersFlow(row.config) \/ OffersProfile(row.config)
    <3>1. \A names : ~ Odsa(Told, "Done", names)
      BY <2>3, ResultTold DEF Says
    <3>2. QED
      BY <2>1, <2>3, <2>4, <2>6, <3>1, OperationTells
  <2>8. Eligible(app, row.config)
    BY <2>5, <2>7 DEF Eligible, OffersFlow, OffersProfile
  <2>9. "CheckEligibility" \in OperationsOf(app)
    BY <2>5 DEF OperationsOf
  <2>10. AppConfig(app, "CheckEligibility", row) = Operation(app, "CheckEligibility", row)
    BY <2>9, OdsaTells
  <2>11. QED
    BY <2>8, <2>10, CheckTells DEF Operation
<1>2. QED
  BY <1>1, TypeCorrect, PTL

\* A service that is not called enabled comes with nothing to use it by (vowifi.go,
\* volte.go, smsoip.go, private_identity.go, app_auth.go, sat_mode.go).
THEOREM NothingWithout == Spec => []NotEntitledGetsNothing
<1>1. ASSUME TypeOK PROVE NotEntitledGetsNothing
  <2> DEFINE app == reply.work.ask.app
             op  == reply.work.ask.op
             row == reply.work.row
  <2>1. app \in AppID /\ Apart(Told)
    BY <1>1, ToldTypes, ToldApart
  <2>2. Told = AppConfig(app, op, row)
    BY DEF Told
  <2>3. SUFFICES ASSUME op = "", ~ Says("EntitlementStatus", "Enabled")
                 PROVE  /\ ~ Names("Addr") /\ ~ Says("AddrStatus", "1")
                        /\ \A name \in VoiceParams : Names(name) => Says(name, "0")
                        /\ \A a \in {"PrivateIdentity", "AppAuth", "SatMode"} :
                             \A name \in IdentityParams(a) : ~ Names(name)
    BY DEF NotEntitledGetsNothing
  <2> HIDE DEF app, op, row
  <2>4. op \notin OperationsOf(app)
    BY <2>3 DEF OperationsOf
  <2>5. Plain(Told, row)
    BY <2>1, <2>2, <2>4, PlainTells
  <2>6. \A name, value :
          Says(name, value) <=> \/ name \in DOMAIN Fixed(Told) /\ value = Fixed(Told)[name]
                                \/ name \in DOMAIN Told.extra /\ value = Told.extra[name]
    BY <2>1, SaysIs DEF Says
  <2>7. \A name : Names(name) <=> name \in DOMAIN Fixed(Told) \cup DOMAIN Told.extra
    BY <2>1, NamesIs DEF Names
  <2>8. row.status # "Enabled"
    BY <2>3, <2>5, <2>6, FixedIs DEF Plain
  <2>9. ~ Names("Addr") /\ ~ Says("AddrStatus", "1")
    <3>1. "Addr" \notin DOMAIN Told.extra /\ "AddrStatus" \notin DOMAIN Told.extra
      BY <2>5 DEF Plain, PlainName, VoiceParams, IdentityName
    <3>2. QED
      BY <2>5, <2>6, <2>7, <2>8, <3>1, FixedIs DEF Plain
  <2>10. ASSUME NEW name \in VoiceParams, Names(name) PROVE Says(name, "0")
    <3>1. name \notin DOMAIN Fixed(Told)
      BY FixedIs DEF FixedName, VoiceParams
    <3>2. QED
      BY <2>5, <2>6, <2>7, <2>8, <2>10, <3>1 DEF Plain
  <2>11. ASSUME NEW a \in {"PrivateIdentity", "AppAuth", "SatMode"}, NEW name \in IdentityParams(a)
         PROVE  ~ Names(name)
    <3>1. name \in IdentityName
      BY DEF IdentityParams, IdentityName
    <3>2. name \notin FixedName /\ name \notin VoiceParams \cup {"Message"}
      BY <3>1 DEF FixedName, IdentityName, VoiceParams
    <3>3. QED
      BY <2>5, <2>7, <2>8, <3>2, FixedIs DEF Plain
  <2>12. QED
    BY <2>9, <2>10, <2>11
<1>2. QED
  BY <1>1, TypeCorrect, PTL
=============================================================================
