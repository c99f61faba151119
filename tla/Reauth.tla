------------------------------- MODULE Reauth -------------------------------
(***************************************************************************)
(* Fast re-authentication in the entitlement server: a POST /entitlement   *)
(* whose token is a re-auth identity (RT1) and the EAP relay request that  *)
(* answers its challenge (RT2), as internal/server/routes.go and           *)
(* internal/eapaka/reauth.go handle them over the Redis re-auth store,     *)
(* re-auth session store and idempotency cache.                            *)
(*                                                                         *)
(* As in EapAka an action is one call to Redis or Postgres and the local   *)
(* computation that follows it, up to the next call.                       *)
(*                                                                         *)
(* K_aut, K_encr and MK are never changed by a rotation (DeriveReauthKeys' *)
(* result is dropped), so the identity that full authentication issued     *)
(* them with, the root of a lineage, stands for all three.                 *)
(***************************************************************************)
EXTENDS Naturals, RedisStore

CONSTANTS
    ReauthId,    \* re-auth identities: GenerateReauthID draws a fresh one
    Session,     \* session IDs: uuid.New() draws a fresh one
    Req,         \* request goroutines that may run at the same time
    None,        \* no value
    MaxCounter   \* MaxReauthCounter, 65535 in the code; AT_COUNTER's largest value

Counter == 0 .. MaxCounter

\* Where an identity comes from: the first identity of its lineage and the number of
\* identities up to it.
Lineage == [root: ReauthId, depth: Counter]

ASSUME ConstantsOK ==
    /\ None \notin ReauthId \cup Session \cup Lineage
    /\ MaxCounter \in Nat \ {0}
    /\ Faults \subseteq FaultKinds

VARIABLES
    pc,          \* pc[r]: the call request r makes next
    msg,         \* msg[r]: the body and session header of request r
    loaded,      \* loaded[r]: r's copy of the re-auth state (RT1) or session (RT2)
    late,        \* late[r]: r arrived after a reply had closed its session
    reauths,     \* Redis hashes reauth:{id}
    rsessions,   \* Redis hashes reauth_session:{id}
    cache,       \* Redis strings eap_idempotency:{hash}, 200 replies by request
    \* What the rest of the world has seen:
    issued,      \* issued[i]: root and depth of a generated identity, or None
    created,     \* session IDs drawn so far
    challenges,  \* challenges sent to devices
    answered,    \* sessions whose challenge a device has answered in full
    granted,     \* 200 replies, fresh or from the cache, by request
    closed       \* sessions with a final reply, 200 or 401

locals  == <<msg, loaded, late>>
stores  == <<reauths, rsessions, cache>>
seen    == <<issued, created, challenges, answered, granted, closed>>
vars    == <<pc, locals, stores, seen>>

ReauthState == [root: ReauthId \cup {None}, counter: Counter, ttl: BOOLEAN]

NoReauth == [root |-> None, counter |-> 0, ttl |-> FALSE]

ReauthSession ==
    [rid: ReauthId \cup {None}, next: ReauthId \cup {None}, root: ReauthId \cup {None},
     counter: Counter, ttl: BOOLEAN]

NoSession ==
    [rid |-> None, next |-> None, root |-> None, counter |-> 0, ttl |-> FALSE]

\* "token" carries an identity.  The others answer a session's challenge: "reauth"
\* has a right AT_MAC and an AT_COUNTER, "tooSmall" a right AT_MAC and
\* AT_COUNTER_TOO_SMALL, "authReject" is AKA-Authentication-Reject, and "bad" is
\* everything the handler rejects before it looks at the counter.
Message ==
    [kind: {"none", "token", "reauth", "tooSmall", "authReject", "bad"},
     rid: ReauthId \cup {None}, sid: Session \cup {None}, counter: Counter]

Msg(kind, rid, sid, n) == [kind |-> kind, rid |-> rid, sid |-> sid, counter |-> n]

NoMsg == Msg("none", None, None, 0)

Challenge == [sid: Session, rid: ReauthId, next: ReauthId, counter: Counter]

Reply == [msg: Message, rid: ReauthId]

Calls ==
    {"idle", "routeGet", "handlerGet", "giveUp", "challenge", "tokenCheck", "cacheGet",
     "routeSession", "fullAuth", "sessionGet", "reject", "abandon", "forget", "restart",
     "forgetRestart", "initial", "rotate", "store", "close", "build", "cachePut"}

LocalsOK ==
    /\ pc \in [Req -> Calls]
    /\ msg \in [Req -> Message]
    /\ loaded \in [Req -> ReauthSession]
    /\ late \in [Req -> BOOLEAN]

StoresOK ==
    /\ reauths \in [ReauthId -> ReauthState]
    /\ rsessions \in [Session -> ReauthSession]
    /\ cache \subseteq Reply

SeenOK ==
    /\ issued \in [ReauthId -> Lineage \cup {None}]
    /\ created \subseteq Session
    /\ challenges \subseteq Challenge
    /\ answered \subseteq Session
    /\ granted \subseteq Reply
    /\ closed \subseteq Session

TypeOK == LocalsOK /\ StoresOK /\ SeenOK

-----------------------------------------------------------------------------
(* The request's own bookkeeping *)

\* Request r makes `call` next.
Goto(r, call) == pc' = [pc EXCEPT ![r] = call]

\* The handler returns: the response is written and the goroutine ends.
Finish(r) ==
    /\ Goto(r, "idle")
    /\ msg' = [msg EXCEPT ![r] = NoMsg]
    /\ loaded' = [loaded EXCEPT ![r] = NoSession]
    /\ late' = [late EXCEPT ![r] = FALSE]

Close(s) == closed' = closed \cup {s}

DropSession(s) ==
    \E h \in DelOutcomes(rsessions[s], NoSession) :
        rsessions' = [rsessions EXCEPT ![s] = h]

DropIdentity(i) ==
    \E h \in DelOutcomes(reauths[i], NoReauth) :
        reauths' = [reauths EXCEPT ![i] = h]

FreshIdentity(i) == issued[i] = None

-----------------------------------------------------------------------------
(* RT1: HandlePost with a token that is a re-auth identity *)

\* Full authentication, module EapAka, issues the first identity of a lineage.
FullAuth(i) ==
    /\ FreshIdentity(i)
    /\ issued' = [issued EXCEPT ![i] = [root |-> i, depth |-> 1]]
    /\ reauths' = [reauths EXCEPT ![i] = [root |-> i, counter |-> 1, ttl |-> TRUE]]
    /\ UNCHANGED <<pc, locals, rsessions, cache, created, challenges, answered, granted,
                   closed>>

\* Its pipeline reports an error: the identity is drawn, and its state may be stored.
FullAuthFails(i) ==
    /\ Faulty("redisWrite")
    /\ FreshIdentity(i)
    /\ issued' = [issued EXCEPT ![i] = [root |-> i, depth |-> 1]]
    /\ \E h \in PipelineOutcomes(reauths[i], [root |-> i, counter |-> 1, ttl |-> TRUE]) :
         reauths' = [reauths EXCEPT ![i] = h]
    /\ UNCHANGED <<pc, locals, rsessions, cache, created, challenges, answered, granted,
                   closed>>

\* A device presents an identity it was given in a reply or offered in a challenge.
Token(r) ==
    /\ pc[r] = "idle"
    /\ \E i \in ReauthId :
         /\ ~ FreshIdentity(i)
         /\ msg' = [msg EXCEPT ![r] = Msg("token", i, None, 0)]
    /\ Goto(r, "routeGet")
    /\ UNCHANGED <<loaded, late, stores, seen>>

\* The route looks the identity up only to see whether it exists; an error counts
\* as "no".
RouteGet(r) ==
    /\ pc[r] = "routeGet"
    /\ \/ reauths[msg[r].rid] # NoReauth /\ Goto(r, "handlerGet")
       \/ reauths[msg[r].rid] = NoReauth /\ Goto(r, "tokenCheck")
       \/ Faulty("redisRead") /\ Goto(r, "tokenCheck")
    /\ UNCHANGED <<locals, stores, seen>>

\* config.MaxReauthCounter is reached.
Exhausted(counter) == counter >= MaxCounter

\* What HandleReauthRequest goes on with after it has read the state once more.
HandlerGet(r) ==
    /\ pc[r] = "handlerGet"
    /\ LET i     == msg[r].rid
           state == reauths[i] IN
         \/ /\ state = NoReauth
            /\ Goto(r, "tokenCheck")
            /\ UNCHANGED loaded
         \/ /\ state # NoReauth /\ Exhausted(state.counter)
            /\ Goto(r, "giveUp")
            /\ UNCHANGED loaded
         \/ /\ state # NoReauth /\ ~ Exhausted(state.counter)
            /\ Goto(r, "challenge")
            /\ loaded' = [loaded EXCEPT ![r] =
                  [rid |-> i, next |-> None, root |-> state.root, counter |-> state.counter,
                   ttl |-> TRUE]]
    /\ UNCHANGED <<msg, late, stores, seen>>

\* HandleReauthRequest returns the error (500).
HandlerGetFails(r) ==
    /\ pc[r] = "handlerGet"
    /\ Faulty("redisRead")
    /\ Finish(r)
    /\ UNCHANGED <<stores, seen>>

\* The counter is exhausted: the identity is deleted and the device sent away.
GiveUp(r) ==
    /\ pc[r] = "giveUp"
    /\ DropIdentity(msg[r].rid)
    /\ Goto(r, "tokenCheck")
    /\ UNCHANGED <<locals, rsessions, cache, seen>>

\* No identity is a token: tokens are drawn independently.  ValidateToken fails (401).
TokenCheck(r) ==
    /\ pc[r] = "tokenCheck"
    /\ Finish(r)
    /\ UNCHANGED <<stores, seen>>

\* Mutant: the successor is not kept in the session.
MutNewSessionWithoutNext(r, i) == loaded[r]

\* The fields of ReauthSessionStore.Create: r's copy and the successor it offers.
NewSession(r, i) == [loaded[r] EXCEPT !.next = i]

\* The successor that is drawn for r's challenge.
IssueNext(r, i) ==
    /\ FreshIdentity(i)
    /\ issued' = [issued EXCEPT ![i] = [root  |-> loaded[r].root,
                                        depth |-> loaded[r].counter + 1]]

\* GenerateReauthID and Create succeed: the challenge goes out (401) with AT_COUNTER,
\* two bytes, and AT_NEXT_REAUTH_ID.
CreateSession(r) ==
    /\ pc[r] = "challenge"
    /\ \E s \in Session \ created, i \in ReauthId :
         /\ IssueNext(r, i)
         /\ rsessions' = [rsessions EXCEPT ![s] = NewSession(r, i)]
         /\ created' = created \cup {s}
         /\ challenges' = challenges \cup
                {[sid |-> s, rid |-> loaded[r].rid, next |-> i,
                  counter |-> loaded[r].counter % (MaxCounter + 1)]}
    /\ Finish(r)
    /\ UNCHANGED <<reauths, cache, answered, granted, closed>>

\* Either fails (500), and the hash may be left under a session ID nobody knows.
CreateSessionFails(r) ==
    /\ pc[r] = "challenge"
    /\ \/ UNCHANGED <<rsessions, issued, created>>
       \/ /\ Faulty("redisWrite")
          /\ \E s \in Session \ created, i \in ReauthId :
               /\ IssueNext(r, i)
               /\ \E h \in PipelineOutcomes(NoSession, NewSession(r, i)) :
                    rsessions' = [rsessions EXCEPT ![s] = h]
               /\ created' = created \cup {s}
    /\ Finish(r)
    /\ UNCHANGED <<reauths, cache, challenges, answered, granted, closed>>

-----------------------------------------------------------------------------
(* RT2: HandlePost with eap_relay *)

\* What a device, or the network between, can make of a challenge.
Answers(c) ==
    {Msg("reauth", None, c.sid, n) :
         n \in {c.counter, (c.counter + 1) % (MaxCounter + 1)}}
    \cup {Msg(kind, None, c.sid, 0) : kind \in {"tooSmall", "authReject", "bad"}}

\* An answer to any challenge a device holds arrives, for the first time or again.
EapRelay(r) ==
    /\ pc[r] = "idle"
    /\ \E c \in challenges :
         /\ \E m \in Answers(c) :
              /\ msg' = [msg EXCEPT ![r] = m]
              /\ answered' = IF m.kind = "reauth" /\ m.counter = c.counter
                             THEN answered \cup {c.sid} ELSE answered
         /\ late' = [late EXCEPT ![r] = c.sid \in closed]
    /\ Goto(r, "cacheGet")
    /\ UNCHANGED <<loaded, stores, issued, created, challenges, granted, closed>>

\* Mutant: the cache key is the body alone.
MutCachedByBody(m) == {e \in cache : e.msg.kind = m.kind /\ e.msg.counter = m.counter}

\* The cache entries under the hash of session ID and body; as in EapAka, session IDs have
\* one length.
Cached(m) == {e \in cache : e.msg = m}

\* GetCachedResponse hits: the stored body is replayed with status 200.
CacheHit(r) ==
    /\ pc[r] = "cacheGet"
    /\ \E e \in Cached(msg[r]) :
         granted' = granted \cup {[msg |-> msg[r], rid |-> e.rid]}
    /\ Finish(r)
    /\ UNCHANGED <<stores, issued, created, challenges, answered, closed>>

\* No entry, or an error, which the handler takes for no entry.
CacheMiss(r) ==
    /\ pc[r] = "cacheGet"
    /\ Cached(msg[r]) = {} \/ Faulty("redisRead")
    /\ Goto(r, "routeSession")
    /\ UNCHANGED <<locals, stores, seen>>

\* The route looks the session up to choose a handler; an error counts as "no".
RouteSession(r) ==
    /\ pc[r] = "routeSession"
    /\ \/ rsessions[msg[r].sid] # NoSession /\ Goto(r, "sessionGet")
       \/ rsessions[msg[r].sid] = NoSession /\ Goto(r, "fullAuth")
       \/ Faulty("redisRead") /\ Goto(r, "fullAuth")
    /\ UNCHANGED <<locals, stores, seen>>

\* The full authentication handler finds no session under this ID (401), or an
\* error (500).
FullAuthHandler(r) ==
    /\ pc[r] = "fullAuth"
    /\ Finish(r)
    /\ UNCHANGED <<stores, seen>>

\* Mutant: AT_COUNTER is not compared with the session's.
MutVerdictAnyCounter(m, session) ==
    CASE m.kind = "bad"        -> "reject"
      [] m.kind = "tooSmall"   -> "restart"
      [] m.kind = "authReject" -> "abandon"
      [] m.kind = "reauth"     -> "rotate"

\* HandleReauthResponse's checks between loading the session and the next call.
Verdict(m, session) ==
    CASE m.kind = "bad"        -> "reject"
      [] m.kind = "tooSmall"   -> "restart"
      [] m.kind = "authReject" -> "abandon"
      [] m.kind = "reauth"     ->
             IF m.counter = session.counter THEN "rotate" ELSE "abandon"

\* HandleReauthResponse reads the session once more.
SessionGet(r) ==
    /\ pc[r] = "sessionGet"
    /\ LET session == rsessions[msg[r].sid] IN
         /\ session # NoSession
         /\ loaded' = [loaded EXCEPT ![r] = session]
         /\ Goto(r, Verdict(msg[r], session))
    /\ UNCHANGED <<msg, late, stores, seen>>

\* It is gone by now (401), Redis fails (500), or a malformed packet makes decoding or
\* decryption panic: RecoverMiddleware replies 500 and the session stays.
SessionGetFails(r) ==
    /\ pc[r] = "sessionGet"
    /\ \/ rsessions[msg[r].sid] = NoSession
       \/ msg[r].kind = "bad"
       \/ Faulty("redisRead")
    /\ Finish(r)
    /\ UNCHANGED <<stores, seen>>

\* A response that does not prove anything: the session is deleted, the identity
\* stays (401).
Reject(r) ==
    /\ pc[r] = "reject"
    /\ DropSession(msg[r].sid)
    /\ Close(msg[r].sid)
    /\ Finish(r)
    /\ UNCHANGED <<reauths, cache, issued, created, challenges, answered, granted>>

\* Session and identity are deleted, in this order: first the session ...
Abandon(r) ==
    /\ pc[r] = "abandon"
    /\ DropSession(msg[r].sid)
    /\ Goto(r, "forget")
    /\ UNCHANGED <<locals, reauths, cache, seen>>

\* ... then the identity.  The reply is EAP-Failure (401).
Forget(r) ==
    /\ pc[r] = "forget"
    /\ DropIdentity(loaded[r].rid)
    /\ Close(msg[r].sid)
    /\ Finish(r)
    /\ UNCHANGED <<rsessions, cache, issued, created, challenges, answered, granted>>

\* The same on AT_COUNTER_TOO_SMALL ...
Restart(r) ==
    /\ pc[r] = "restart"
    /\ DropSession(msg[r].sid)
    /\ Goto(r, "forgetRestart")
    /\ UNCHANGED <<locals, reauths, cache, seen>>

ForgetRestart(r) ==
    /\ pc[r] = "forgetRestart"
    /\ DropIdentity(loaded[r].rid)
    /\ Goto(r, "initial")
    /\ UNCHANGED <<locals, rsessions, cache, seen>>

\* ... but then HandleInitialRequest starts full authentication (401, or 500 when that
\* fails).  What it does to the other stores is EapAka's RT1.
InitialRequest(r) ==
    /\ pc[r] = "initial"
    /\ Close(msg[r].sid)
    /\ Finish(r)
    /\ UNCHANGED <<stores, issued, created, challenges, answered, granted>>

\* Mutant: the rotation deletes the successor instead of the identity it replaces.
MutRotateDeletesNext(r) ==
    /\ pc[r] = "rotate"
    /\ DropIdentity(loaded[r].next)
    /\ Goto(r, "store")
    /\ UNCHANGED <<locals, rsessions, cache, seen>>

\* The rotation deletes the identity the challenge was made for ...
Rotate(r) ==
    /\ pc[r] = "rotate"
    /\ DropIdentity(loaded[r].rid)
    /\ Goto(r, "store")
    /\ UNCHANGED <<locals, rsessions, cache, seen>>

\* Mutant: the counter is not incremented.
MutRotatedSameCounter(session) ==
    [root |-> session.root, counter |-> session.counter, ttl |-> TRUE]

\* The re-auth state of the successor.
Rotated(session) ==
    [root |-> session.root, counter |-> session.counter + 1, ttl |-> TRUE]

\* ... and stores its successor, whatever is there.
Store(r) ==
    /\ pc[r] = "store"
    /\ reauths' = [reauths EXCEPT ![loaded[r].next] = Rotated(loaded[r])]
    /\ Goto(r, "close")
    /\ UNCHANGED <<locals, rsessions, cache, seen>>

\* The pipeline reports an error (500): the session stays, and the device may have
\* neither identity.
StoreFails(r) ==
    /\ pc[r] = "store"
    /\ Faulty("redisWrite")
    /\ \E h \in PipelineOutcomes(reauths[loaded[r].next], Rotated(loaded[r])) :
         reauths' = [reauths EXCEPT ![loaded[r].next] = h]
    /\ Finish(r)
    /\ UNCHANGED <<rsessions, cache, seen>>

\* Mutant: a successful re-authentication leaves its session to the TTL.
MutCloseSessionSkipped(r) ==
    /\ pc[r] = "close"
    /\ Goto(r, "build")
    /\ UNCHANGED <<locals, stores, seen>>

\* The session of a successful re-authentication is deleted.
CloseSession(r) ==
    /\ pc[r] = "close"
    /\ DropSession(msg[r].sid)
    /\ Goto(r, "build")
    /\ UNCHANGED <<locals, reauths, cache, seen>>

\* BuildEntitlementResponse, and the temporary token of an ODSA operation.
Build(r) ==
    /\ pc[r] = "build"
    /\ Goto(r, "cachePut")
    /\ UNCHANGED <<locals, stores, seen>>

\* It fails (500): the identity is rotated but not handed out.
BuildFails(r) ==
    /\ pc[r] = "build"
    /\ Faulty("db")
    /\ Finish(r)
    /\ UNCHANGED <<stores, seen>>

\* sendFormattedResponse caches the reply, discards an error, and replies 200.
CachePut(r) ==
    /\ pc[r] = "cachePut"
    /\ LET reply == [msg |-> msg[r], rid |-> loaded[r].next] IN
         /\ \/ cache' = (cache \ Cached(msg[r])) \cup {reply}
            \/ Faulty("redisWrite") /\ UNCHANGED cache
         /\ granted' = granted \cup {reply}
    /\ Close(msg[r].sid)
    /\ Finish(r)
    /\ UNCHANGED <<reauths, rsessions, issued, created, challenges, answered>>

-----------------------------------------------------------------------------
(* The environment *)

\* Redis drops what has outlived its TTL.
ExpireSession(s) ==
    /\ Faulty("expiry")
    /\ rsessions[s].ttl
    /\ rsessions' = [rsessions EXCEPT ![s] = NoSession]
    /\ UNCHANGED <<pc, locals, reauths, cache, seen>>

ExpireReauth(i) ==
    /\ Faulty("expiry")
    /\ reauths[i].ttl
    /\ reauths' = [reauths EXCEPT ![i] = NoReauth]
    /\ UNCHANGED <<pc, locals, rsessions, cache, seen>>

ExpireCache(e) ==
    /\ Faulty("expiry")
    /\ cache' = cache \ {e}
    /\ UNCHANGED <<pc, locals, reauths, rsessions, seen>>

\* The server process dies and comes back: its goroutines are gone.
Crash ==
    /\ Faulty("crash")
    /\ pc' = [r \in Req |-> "idle"]
    /\ msg' = [r \in Req |-> NoMsg]
    /\ loaded' = [r \in Req |-> NoSession]
    /\ late' = [r \in Req |-> FALSE]
    /\ UNCHANGED <<stores, seen>>

-----------------------------------------------------------------------------
Init ==
    /\ pc = [r \in Req |-> "idle"]
    /\ msg = [r \in Req |-> NoMsg]
    /\ loaded = [r \in Req |-> NoSession]
    /\ late = [r \in Req |-> FALSE]
    /\ reauths = [i \in ReauthId |-> NoReauth]
    /\ rsessions = [s \in Session |-> NoSession]
    /\ cache = {}
    /\ issued = [i \in ReauthId |-> None]
    /\ created = {}
    /\ challenges = {}
    /\ answered = {}
    /\ granted = {}
    /\ closed = {}

\* The steps the server takes on its own once a request has arrived.
Serve(r) ==
    \/ RouteGet(r) \/ HandlerGet(r) \/ HandlerGetFails(r) \/ GiveUp(r) \/ TokenCheck(r)
    \/ CreateSession(r) \/ CreateSessionFails(r)
    \/ CacheHit(r) \/ CacheMiss(r) \/ RouteSession(r) \/ FullAuthHandler(r)
    \/ SessionGet(r) \/ SessionGetFails(r)
    \/ Reject(r) \/ Abandon(r) \/ Forget(r)
    \/ Restart(r) \/ ForgetRestart(r) \/ InitialRequest(r)
    \/ Rotate(r) \/ Store(r) \/ StoreFails(r) \/ CloseSession(r)
    \/ Build(r) \/ BuildFails(r) \/ CachePut(r)

Environment ==
    \/ \E i \in ReauthId : FullAuth(i) \/ FullAuthFails(i) \/ ExpireReauth(i)
    \/ \E s \in Session : ExpireSession(s)
    \/ \E e \in cache : ExpireCache(e)
    \/ Crash

Next ==
    \/ \E r \in Req : Token(r) \/ EapRelay(r) \/ Serve(r)
    \/ Environment

Spec == Init /\ [][Next]_vars

-----------------------------------------------------------------------------
(* Properties *)

\* The calls of a request whose AT_MAC and AT_COUNTER have been accepted.
Accepted == {"rotate", "store", "close", "build", "cachePut"}

\* The session of c was answered in full by the device that got c.
Answered(c) == c.sid \in answered

\* A reply answers the counter of the challenge sent for its session and names the
\* successor that challenge offered.
Offered(reply) ==
    \E c \in challenges :
        /\ c.sid = reply.msg.sid /\ Answered(c)
        /\ reply.msg.kind = "reauth" /\ reply.msg.counter = c.counter
        /\ reply.rid = c.next

\* Every 200 reply, fresh or replayed, answers its session's challenge and hands out
\* the successor that very challenge offered: copies of a response that overlap, and
\* retransmissions after the cached reply is gone, all get the same identity, unlike
\* in full authentication (reauth.go draws the next identity at RT1 and rotates to it
\* at RT2; routes.go caches by session and body).
GrantsAreOffered == \A g \in granted : Offered(g)

\* Re-authentication is idempotent, as full authentication is not: whichever responses to
\* a session's challenge are granted, at once, again or from the cache, they hand out one
\* identity (reauth.go draws the successor with the challenge, not with the grant).
OneIdentityPerSession ==
    \A g, h \in granted : g.msg.sid = h.msg.sid => g.rid = h.rid

\* An identity is accepted by the server only if full authentication issued it or the
\* device answered the challenge that offered it, whichever order the rotations,
\* deletions and expiries of concurrent requests took effect in (reauth.go Store).
UsableIsEarned ==
    \A i \in ReauthId :
        reauths[i] # NoReauth =>
            \/ issued[i].root = i
            \/ \E c \in challenges : c.next = i /\ Answered(c)

\* The counter stored with an identity, and the one sent in its challenges, is the
\* number of rotations that led to it, on every branch of its lineage: however
\* rotations overlap it grows by one from an identity to each of its successors and
\* never leaves AT_COUNTER's 16 bits (reauth.go: read at RT1, written at RT2).
CounterIsDepth ==
    /\ \A i \in ReauthId :
         reauths[i] # NoReauth =>
             issued[i] = [root |-> reauths[i].root, depth |-> reauths[i].counter]
    /\ \A c \in challenges :
         /\ issued[c.rid].depth = c.counter
         /\ issued[c.next] = [issued[c.rid] EXCEPT !.depth = c.counter + 1]

\* An identity handed out in a 200 reply stays usable until the device itself uses it
\* or its counter is exhausted: no overlapping rotation, rejection or restart of
\* another session, and no crash, takes it away.  Needs Redis to execute every write
\* and nothing to expire (reauth.go deletes the old identity before it stores the
\* next, and replies only after both).
DeliveredStaysUsable ==
    \A g \in granted :
        \/ reauths[g.rid] # NoReauth
        \/ Exhausted(issued[g.rid].depth)
        \/ \E c \in challenges : c.rid = g.rid

\* While Redis executes every DEL, a response that arrives after a final reply for its
\* session, a 200 or a failure, is never accepted (reauth.go and routes.go: the
\* session is deleted before each final reply, and nothing writes to it again).
NoRotationAfterReply ==
    \A r \in Req : late[r] => pc[r] \notin Accepted

\* The implementation mapping to what re-authentication promises.
Promise ==
    INSTANCE ReauthPromise WITH
        lineage   <- issued,
        offered   <- {[from |-> c.rid, to |-> c.next] : c \in challenges},
        proved    <- {c.next : c \in {d \in challenges : Answered(d)}},
        usable    <- {i \in ReauthId : reauths[i] # NoReauth},
        delivered <- {g.rid : g \in granted}

\* The server implements ReauthPromise.
ImplementsPromise == Promise!Spec

\* What no lost or partial write and no expiry disturbs, unlike DeliveredStaysUsable and
\* NoRotationAfterReply (reauth.go writes only what its session copy has, and the next
\* identity comes with that copy).
HoldsUnderFaults ==
    /\ [](GrantsAreOffered /\ OneIdentityPerSession /\ UsableIsEarned /\ CounterIsDepth)
    /\ ImplementsPromise
=============================================================================
