------------------------------- MODULE EapAka -------------------------------
(***************************************************************************)
(* Full EAP-AKA authentication in the entitlement server: the initial      *)
(* request (RT1) and the EAP relay request (RT2) of POST /entitlement as   *)
(* internal/server/routes.go and internal/eapaka/orchestrator.go handle    *)
(* them, over the Redis session store, re-auth store and idempotency cache.*)
(*                                                                         *)
(* Every HTTP request is a goroutine.  It runs undisturbed between two     *)
(* calls to Redis, the HSS or Postgres and other goroutines may run at     *)
(* each of them, so one action is one such call and the local computation  *)
(* that follows it, up to the next call.                                   *)
(*                                                                         *)
(* Key material: RAND, AUTN, XRES, CK, IK and the keys MK, K_aut and       *)
(* K_encr are functions of one HSS vector and the IMSI it was made for,    *)
(* and the code always writes them together, so a vector stands for all.   *)
(***************************************************************************)
EXTENDS Naturals, RedisStore

CONSTANTS
    Imsi,      \* IMSIs that may be sent in an initial request
    Known,     \* those the HSS and the subscribers table hold
    Session,   \* session IDs: uuid.New() draws a fresh one
    Vec,       \* authentication vectors: the HSS draws a fresh RAND for each
    ReauthId,  \* re-auth identities: GenerateReauthID draws a fresh one
    Req,       \* request goroutines that may run at the same time
    None,      \* no value
    IdMod,     \* identifiers are taken modulo this: 256 in the code
    Drawn      \* BOUND: where the counter may stand at the start

\* The owner of a re-auth identity and the vector its keys come from.
Identity == [imsi: Imsi, vec: Vec]

ASSUME ConstantsOK ==
    /\ Known \subseteq Imsi
    /\ None \notin Imsi \cup Session \cup Vec \cup ReauthId \cup Identity
    /\ IdMod \in Nat \ {0}
    /\ Drawn \subseteq 0 .. IdMod - 1
    /\ Faults \subseteq FaultKinds

VARIABLES
    pc,          \* pc[r]: the call request r makes next
    msg,         \* msg[r]: the body and session header of request r
    loaded,      \* loaded[r]: r's copy of the session (EapSessionData)
    fresh,       \* fresh[r]: vector and identifier r has got for a challenge
    rid,         \* rid[r]: the re-auth identity r has generated
    sessions,    \* Redis hashes eap_session:{id}
    reauths,     \* Redis hashes reauth:{id}
    cache,       \* Redis strings eap_idempotency:{hash}, 200 replies by request
    counter,     \* _identifierCounter, modulo IdMod
    \* What the rest of the world has seen:
    created,     \* session IDs drawn so far
    vectors,     \* vectors[v]: the IMSI the HSS generated v for, or None
    challenges,  \* challenges sent to devices
    answered,    \* vectors whose challenge a device has answered with AT_RES
    issued,      \* issued[rid]: the owner and vector of a generated identity
    granted,     \* 200 replies, fresh or from the cache, by request
    late         \* late[r]: r arrived after a 200 reply for its session

locals     == <<msg, loaded, fresh, rid, late>>
stores     == <<sessions, reauths, cache>>
seen       == <<created, vectors, challenges, answered, issued, granted>>
vars       == <<pc, locals, stores, counter, seen>>

Sent == "CHALLENGE_SENT"

NoState == "NO_STATE"

\* A Redis hash exists exactly when it has a field.  A missing "state" reads as
\* the empty string, NoState here, and a missing "identifier" as 0, which is what
\* strconv.Atoi makes of the empty string.
EapSession ==
    [imsi: Imsi \cup {None}, state: {NoState, Sent}, vec: Vec \cup {None},
     identifier: 0 .. IdMod - 1, ttl: BOOLEAN]

NoSession ==
    [imsi |-> None, state |-> NoState, vec |-> None, identifier |-> 0, ttl |-> FALSE]

ReauthState ==
    [imsi: Imsi \cup {None}, vec: Vec \cup {None}, counter: {0, 1}, ttl: BOOLEAN]

NoReauth == [imsi |-> None, vec |-> None, counter |-> 0, ttl |-> FALSE]

\* A request body.  "challenge" is a well-formed AKA-Challenge response whose
\* AT_RES was computed from vector res and whose AT_MAC is keyed by vector mac;
\* "sync" carries an AUTS computed from vector res; "bad" is everything the
\* handler rejects before it looks at AT_RES.
Message ==
    [kind: {"none", "initial", "challenge", "sync", "bad"}, imsi: Imsi \cup {None},
     sid: Session \cup {None}, res: Vec \cup {None}, mac: Vec \cup {None}]

Msg(kind, imsi, sid, res, mac) ==
    [kind |-> kind, imsi |-> imsi, sid |-> sid, res |-> res, mac |-> mac]

NoMsg == Msg("none", None, None, None, None)

Fresh == [vec: Vec \cup {None}, identifier: 0 .. IdMod - 1]

NoFresh == [vec |-> None, identifier |-> 0]

Challenge == [sid: Session, vec: Vec, identifier: 0 .. IdMod - 1]

Reply == [msg: Message, rid: ReauthId]

Calls ==
    {"idle", "vectors", "create", "cacheGet", "sessionGet", "reject", "resync",
     "update", "lookup", "store", "delete", "build", "cachePut"}

LocalsOK ==
    /\ pc \in [Req -> Calls]
    /\ msg \in [Req -> Message]
    /\ loaded \in [Req -> EapSession]
    /\ fresh \in [Req -> Fresh]
    /\ rid \in [Req -> ReauthId \cup {None}]
    /\ late \in [Req -> BOOLEAN]

StoresOK ==
    /\ sessions \in [Session -> EapSession]
    /\ reauths \in [ReauthId -> ReauthState]
    /\ cache \subseteq Reply
    /\ counter \in 0 .. IdMod - 1

SeenOK ==
    /\ created \subseteq Session
    /\ vectors \in [Vec -> Imsi \cup {None}]
    /\ challenges \subseteq Challenge
    /\ answered \subseteq Vec
    /\ issued \in [ReauthId -> Identity \cup {None}]
    /\ granted \subseteq Reply

TypeOK == LocalsOK /\ StoresOK /\ SeenOK

-----------------------------------------------------------------------------
(* The session hash and the process-local identifier counter *)

\* Mutant: the identifier is not reduced to one byte.
MutNextIdentifierUnreduced(c) == c + 1

\* nextIdentifier: an atomic increment, modulo 256.
NextIdentifier(c) == (c + 1) % IdMod

\* SessionStore.Create's fields.
NewSession(imsi, f) ==
    [imsi |-> imsi, state |-> Sent, vec |-> f.vec,
     identifier |-> f.identifier, ttl |-> TRUE]

\* Mutant: Update writes the state as well.
MutUpdatedRewritesState(hash, f) == NewSession(hash.imsi, f)

\* Mutant: Update forgets the identifier.
MutUpdatedKeepsIdentifier(hash, f) == [hash EXCEPT !.vec = f.vec, !.ttl = TRUE]

\* Mutant: Update forgets to EXPIRE.
MutUpdatedNoExpire(hash, f) ==
    [hash EXCEPT !.vec = f.vec,
                 !.identifier = IF f.identifier # 0 THEN f.identifier ELSE @]

\* SessionStore.Update: HSET of the given fields onto whatever the hash holds
\* now, without asking whether it exists.  It leaves imsi and state alone, and
\* skips an identifier of 0.
Updated(hash, f) ==
    [hash EXCEPT !.vec = f.vec,
                 !.identifier = IF f.identifier # 0 THEN f.identifier ELSE @,
                 !.ttl = TRUE]

-----------------------------------------------------------------------------
(* The request's own bookkeeping *)

\* Request r makes `call` next.
Goto(r, call) == pc' = [pc EXCEPT ![r] = call]

\* The handler returns: the response is written and the goroutine ends.
Finish(r) ==
    /\ Goto(r, "idle")
    /\ msg' = [msg EXCEPT ![r] = NoMsg]
    /\ loaded' = [loaded EXCEPT ![r] = NoSession]
    /\ fresh' = [fresh EXCEPT ![r] = NoFresh]
    /\ rid' = [rid EXCEPT ![r] = None]
    /\ late' = [late EXCEPT ![r] = FALSE]

\* A vector the HSS has not generated before; its RAND is random.
FreshVector(v) == vectors[v] = None

\* Request r obtains vector v for imsi and draws the identifier of a challenge.
TakeVector(r, v, imsi) ==
    /\ vectors' = [vectors EXCEPT ![v] = imsi]
    /\ counter' = NextIdentifier(counter)
    /\ fresh' = [fresh EXCEPT ![r] = [vec |-> v, identifier |-> counter']]

\* The 401 reply with r's challenge for session s reaches the device.
SendChallenge(r, s) ==
    challenges' = challenges \cup
        {[sid |-> s, vec |-> fresh[r].vec, identifier |-> fresh[r].identifier]}

-----------------------------------------------------------------------------
(* RT1: HandlePost without token and eap_relay *)

\* An initial request with an IMSI arrives.
Initial(r) ==
    /\ pc[r] = "idle"
    /\ \E imsi \in Imsi :
         msg' = [msg EXCEPT ![r] = Msg("initial", imsi, None, None, None)]
    /\ Goto(r, "vectors")
    /\ UNCHANGED <<loaded, fresh, rid, late, stores, counter, seen>>

\* FetchVectors succeeds for a known IMSI, and the challenge is built.
FetchVectors(r) ==
    /\ pc[r] = "vectors"
    /\ msg[r].imsi \in Known
    /\ \E v \in Vec : FreshVector(v) /\ TakeVector(r, v, msg[r].imsi)
    /\ Goto(r, "create")
    /\ UNCHANGED <<msg, loaded, rid, late, stores, created, challenges, answered,
                   issued, granted>>

\* The HSS does not know the IMSI (403), or does not answer in time (500).
FetchVectorsFails(r) ==
    /\ pc[r] = "vectors"
    /\ Finish(r)
    /\ UNCHANGED <<stores, counter, seen>>

\* The session is stored and the 401 reply carries challenge and session ID.
CreateSession(r) ==
    /\ pc[r] = "create"
    /\ \E s \in Session \ created :
         /\ sessions' = [sessions EXCEPT ![s] = NewSession(msg[r].imsi, fresh[r])]
         /\ created' = created \cup {s}
         /\ SendChallenge(r, s)
    /\ Finish(r)
    /\ UNCHANGED <<reauths, cache, counter, vectors, answered, issued, granted>>

\* The pipeline reports an error (500): the session ID is lost, the hash may stay.
CreateSessionFails(r) ==
    /\ pc[r] = "create"
    /\ \/ UNCHANGED <<sessions, created>>
       \/ /\ Faulty("redisWrite")
          /\ \E s \in Session \ created :
               /\ \E h \in PipelineOutcomes(sessions[s],
                                            NewSession(msg[r].imsi, fresh[r])) :
                    sessions' = [sessions EXCEPT ![s] = h]
               /\ created' = created \cup {s}
    /\ Finish(r)
    /\ UNCHANGED <<reauths, cache, counter, vectors, challenges, answered, issued,
                   granted>>

-----------------------------------------------------------------------------
(* RT2: HandlePost with eap_relay *)

\* What a device, or the network between, can make of a challenge.  AT_RES and
\* AT_MAC are right, or one of them is damaged; SQN may be out of range; and
\* anything may be rejected before AT_RES is looked at.
Answers(c) ==
    {Msg("challenge", None, c.sid, c.vec, c.vec),
     Msg("challenge", None, c.sid, c.vec, None),
     Msg("challenge", None, c.sid, None, c.vec),
     Msg("sync", None, c.sid, c.vec, None),
     Msg("bad", None, c.sid, None, None)}

Genuine(m) == m.kind = "challenge" /\ m.res # None /\ m.mac = m.res

\* An EAP relay request arrives: an answer to any challenge a device holds, for
\* the first time or as a retransmission.
EapRelay(r) ==
    /\ pc[r] = "idle"
    /\ \E c \in challenges :
         /\ \E m \in Answers(c) :
              /\ msg' = [msg EXCEPT ![r] = m]
              /\ answered' = IF m.kind = "challenge"
                             THEN answered \cup {c.vec} ELSE answered
         /\ late' = [late EXCEPT ![r] = \E g \in granted : g.msg.sid = c.sid]
    /\ Goto(r, "cacheGet")
    /\ UNCHANGED <<loaded, fresh, rid, stores, counter, created, vectors,
                   challenges, issued, granted>>

\* Mutant: the cache key is the session ID alone.
MutCachedBySession(m) == {e \in cache : e.msg.sid = m.sid}

\* The entries of the idempotency cache under the key of message m, the hash of
\* session ID and body.  A message names a real session ID, and these have one length: no
\* two messages have the same text (other headers: EntitlementRoute).
Cached(m) == {e \in cache : e.msg = m}

\* GetCachedResponse hits: the stored body is replayed with status 200.
CacheHit(r) ==
    /\ pc[r] = "cacheGet"
    /\ \E e \in Cached(msg[r]) :
         granted' = granted \cup {[msg |-> msg[r], rid |-> e.rid]}
    /\ Finish(r)
    /\ UNCHANGED <<stores, counter, created, vectors, challenges, answered, issued>>

\* No entry, or an error, which the handler takes for no entry.  There is no
\* re-auth session under this ID, so the full authentication handler runs.
CacheMiss(r) ==
    /\ pc[r] = "cacheGet"
    /\ Cached(msg[r]) = {} \/ Faulty("redisRead")
    /\ Goto(r, "sessionGet")
    /\ UNCHANGED <<locals, stores, counter, seen>>

\* Mutant: neither AT_RES nor AT_MAC is compared with the session's.
MutVerdictUnchecked(m, session) ==
    IF session.state # Sent THEN "reject"
    ELSE IF m.kind = "sync" THEN "resync"
    ELSE IF m.kind = "challenge" THEN "lookup" ELSE "reject"

\* HandleEapResponse's checks between loading the session and the next call.
Verdict(m, session) ==
    IF session.state # Sent THEN "reject"
    ELSE IF m.kind = "sync" THEN "resync"
    ELSE IF m.kind = "challenge" /\ m.res = session.vec /\ m.mac = session.vec
         THEN "lookup" ELSE "reject"

\* sessionStore.Get finds the hash and the checks decide how to go on.
SessionGet(r) ==
    /\ pc[r] = "sessionGet"
    /\ LET session == sessions[msg[r].sid] IN
         /\ session # NoSession
         /\ loaded' = [loaded EXCEPT ![r] = session]
         /\ Goto(r, Verdict(msg[r], session))
    /\ UNCHANGED <<msg, fresh, rid, late, stores, counter, seen>>

\* No such session (EAP-Failure, 401), an error (500), or a malformed packet on
\* which decoding panics: RecoverMiddleware replies 500 and the session stays.
SessionGetFails(r) ==
    /\ pc[r] = "sessionGet"
    /\ \/ sessions[msg[r].sid] = NoSession
       \/ sessions[msg[r].sid].state = Sent /\ msg[r].kind = "bad"
       \/ Faulty("redisRead")
    /\ Finish(r)
    /\ UNCHANGED <<stores, counter, seen>>

\* A failed check: the session is deleted and the reply is EAP-Failure (401).
Reject(r) ==
    /\ pc[r] = "reject"
    /\ \E h \in DelOutcomes(sessions[msg[r].sid], NoSession) :
         sessions' = [sessions EXCEPT ![msg[r].sid] = h]
    /\ Finish(r)
    /\ UNCHANGED <<reauths, cache, counter, seen>>

\* ResyncVectors: the HSS accepts an AUTS made for the RAND of the session copy.
Resync(r) ==
    /\ pc[r] = "resync"
    /\ msg[r].res = loaded[r].vec
    /\ \E v \in Vec : FreshVector(v) /\ TakeVector(r, v, loaded[r].imsi)
    /\ Goto(r, "update")
    /\ UNCHANGED <<msg, loaded, rid, late, stores, created, challenges, answered,
                   issued, granted>>

\* Mutant: the HSS client has no timeout.
MutResyncFailsNoTimeout(r) ==
    /\ pc[r] = "resync"
    /\ msg[r].res # loaded[r].vec
    /\ Goto(r, "reject")
    /\ UNCHANGED <<locals, stores, counter, seen>>

\* The HSS refuses the AUTS, or does not answer in time.
ResyncFails(r) ==
    /\ pc[r] = "resync"
    /\ Goto(r, "reject")
    /\ UNCHANGED <<locals, stores, counter, seen>>

\* The session gets the new challenge, which goes out (401) whatever Update says.
Update(r) ==
    /\ pc[r] = "update"
    /\ LET s   == msg[r].sid
           new == Updated(sessions[s], fresh[r]) IN
         /\ \E h \in {new} \cup (IF Faulty("redisWrite")
                                 THEN PipelineOutcomes(sessions[s], new) ELSE {}) :
              sessions' = [sessions EXCEPT ![s] = h]
         /\ SendChallenge(r, s)
    /\ Finish(r)
    /\ UNCHANGED <<reauths, cache, counter, created, vectors, answered, issued,
                   granted>>

\* subscriberLookup by the session copy's IMSI.
Lookup(r) ==
    /\ pc[r] = "lookup"
    /\ \/ loaded[r].imsi \in Known /\ Goto(r, "store")
       \/ loaded[r].imsi \notin Known /\ Goto(r, "reject")
       \/ Faulty("db") /\ Goto(r, "reject")
    /\ UNCHANGED <<locals, stores, counter, seen>>

\* Mutant: the counter is left at zero.
MutNewReauthUncounted(session) ==
    [imsi |-> session.imsi, vec |-> session.vec, counter |-> 0, ttl |-> TRUE]

\* The re-auth state of a fresh identity: owner and keys are the session copy's.
NewReauth(session) ==
    [imsi |-> session.imsi, vec |-> session.vec, counter |-> 1, ttl |-> TRUE]

\* GenerateReauthID and reauthStore.Store succeed.
Store(r) ==
    /\ pc[r] = "store"
    /\ \E i \in ReauthId :
         /\ issued[i] = None
         /\ issued' = [issued EXCEPT ![i] = [imsi |-> loaded[r].imsi,
                                             vec  |-> loaded[r].vec]]
         /\ reauths' = [reauths EXCEPT ![i] = NewReauth(loaded[r])]
         /\ rid' = [rid EXCEPT ![r] = i]
    /\ Goto(r, "delete")
    /\ UNCHANGED <<msg, loaded, fresh, late, sessions, cache, counter, created,
                   vectors, challenges, answered, granted>>

\* Either fails (500).  The session stays, and the state may be stored after all.
StoreFails(r) ==
    /\ pc[r] = "store"
    /\ \/ UNCHANGED <<reauths, issued>>
       \/ /\ Faulty("redisWrite")
          /\ \E i \in ReauthId :
               /\ issued[i] = None
               /\ issued' = [issued EXCEPT ![i] = [imsi |-> loaded[r].imsi,
                                                   vec  |-> loaded[r].vec]]
               /\ \E h \in PipelineOutcomes(reauths[i], NewReauth(loaded[r])) :
                    reauths' = [reauths EXCEPT ![i] = h]
    /\ Finish(r)
    /\ UNCHANGED <<sessions, cache, counter, created, vectors, challenges, answered,
                   granted>>

\* Mutant: a successful authentication leaves its session to the TTL.
MutDeleteSessionSkipped(r) ==
    /\ pc[r] = "delete"
    /\ Goto(r, "build")
    /\ UNCHANGED <<locals, stores, counter, seen>>

\* The session of a successful authentication is deleted.
DeleteSession(r) ==
    /\ pc[r] = "delete"
    /\ \E h \in DelOutcomes(sessions[msg[r].sid], NoSession) :
         sessions' = [sessions EXCEPT ![msg[r].sid] = h]
    /\ Goto(r, "build")
    /\ UNCHANGED <<locals, reauths, cache, counter, seen>>

\* BuildEntitlementResponse reads the entitlements from Postgres.
Build(r) ==
    /\ pc[r] = "build"
    /\ Goto(r, "cachePut")
    /\ UNCHANGED <<locals, stores, counter, seen>>

\* It fails (500): the session is gone and the identity is never handed out.
BuildFails(r) ==
    /\ pc[r] = "build"
    /\ Faulty("db")
    /\ Finish(r)
    /\ UNCHANGED <<stores, counter, seen>>

\* sendFormattedResponse caches the reply, discards an error, and replies 200.
CachePut(r) ==
    /\ pc[r] = "cachePut"
    /\ LET reply == [msg |-> msg[r], rid |-> rid[r]] IN
         /\ \/ cache' = (cache \ Cached(msg[r])) \cup {reply}
            \/ Faulty("redisWrite") /\ UNCHANGED cache
         /\ granted' = granted \cup {reply}
    /\ Finish(r)
    /\ UNCHANGED <<sessions, reauths, counter, created, vectors, challenges, answered,
                   issued>>

-----------------------------------------------------------------------------
(* The environment *)

\* Redis drops what has outlived its TTL.
ExpireSession(s) ==
    /\ Faulty("expiry")
    /\ sessions[s].ttl
    /\ sessions' = [sessions EXCEPT ![s] = NoSession]
    /\ UNCHANGED <<pc, locals, reauths, cache, counter, seen>>

ExpireReauth(i) ==
    /\ Faulty("expiry")
    /\ reauths[i].ttl
    /\ reauths' = [reauths EXCEPT ![i] = NoReauth]
    /\ UNCHANGED <<pc, locals, sessions, cache, counter, seen>>

ExpireCache(e) ==
    /\ Faulty("expiry")
    /\ cache' = cache \ {e}
    /\ UNCHANGED <<pc, locals, sessions, reauths, counter, seen>>

\* The server process dies and comes back: its goroutines are gone and the
\* identifier counter starts over, Redis keeps what it has.
Crash ==
    /\ Faulty("crash")
    /\ pc' = [r \in Req |-> "idle"]
    /\ msg' = [r \in Req |-> NoMsg]
    /\ loaded' = [r \in Req |-> NoSession]
    /\ fresh' = [r \in Req |-> NoFresh]
    /\ rid' = [r \in Req |-> None]
    /\ late' = [r \in Req |-> FALSE]
    /\ counter' = 0
    /\ UNCHANGED <<stores, seen>>

-----------------------------------------------------------------------------
\* The server is empty but for its counter, from which sessions before these have drawn.
Init ==
    /\ pc = [r \in Req |-> "idle"]
    /\ msg = [r \in Req |-> NoMsg]
    /\ loaded = [r \in Req |-> NoSession]
    /\ fresh = [r \in Req |-> NoFresh]
    /\ rid = [r \in Req |-> None]
    /\ late = [r \in Req |-> FALSE]
    /\ sessions = [s \in Session |-> NoSession]
    /\ reauths = [i \in ReauthId |-> NoReauth]
    /\ cache = {}
    /\ counter \in Drawn
    /\ created = {}
    /\ vectors = [v \in Vec |-> None]
    /\ challenges = {}
    /\ answered = {}
    /\ issued = [i \in ReauthId |-> None]
    /\ granted = {}

\* The steps the server takes on its own once a request has arrived.
Serve(r) ==
    \/ FetchVectors(r) \/ FetchVectorsFails(r)
    \/ CreateSession(r) \/ CreateSessionFails(r)
    \/ CacheHit(r) \/ CacheMiss(r)
    \/ SessionGet(r) \/ SessionGetFails(r)
    \/ Reject(r)
    \/ Resync(r) \/ ResyncFails(r) \/ Update(r)
    \/ Lookup(r)
    \/ Store(r) \/ StoreFails(r)
    \/ DeleteSession(r)
    \/ Build(r) \/ BuildFails(r)
    \/ CachePut(r)

Environment ==
    \/ \E s \in Session : ExpireSession(s)
    \/ \E i \in ReauthId : ExpireReauth(i)
    \/ \E e \in cache : ExpireCache(e)
    \/ Crash

Next ==
    \/ \E r \in Req : Initial(r) \/ EapRelay(r) \/ Serve(r)
    \/ Environment

Spec == Init /\ [][Next]_vars

\* The Go runtime schedules every goroutine and each call ends in a reply, an
\* error or a timeout; Redis removes expired keys.  Clients owe nothing.
Fairness ==
    /\ \A r \in Req : WF_vars(Serve(r))
    /\ \A s \in Session : WF_vars(ExpireSession(s))

FairSpec == Spec /\ Fairness

-----------------------------------------------------------------------------
(* Properties *)

\* The calls of a request whose AT_RES and AT_MAC have been accepted.
Accepted == {"lookup", "store", "delete", "build", "cachePut"}

\* Every 200 reply, fresh or replayed from the idempotency cache, answers an
\* undamaged challenge response that the device really computed, and the identity
\* in it belongs to the subscriber that response came from and carries the keys of
\* the very vector it answered, whatever resyncs, deletions and retransmissions
\* ran meanwhile (orchestrator.go HandleEapResponse, routes.go cache lookup).
GrantsAreEarned ==
    \A g \in granted :
        /\ Genuine(g.msg)
        /\ g.msg.res \in answered
        /\ issued[g.rid] = [imsi |-> vectors[g.msg.res], vec |-> g.msg.res]

\* Re-auth key material in Redis is always shared with a device: it comes from a
\* vector the owner's device has answered, never from a session whose vector a
\* concurrent resync has replaced or from a hash Update has left without an IMSI.
StoredKeysAreShared ==
    \A i \in ReauthId :
        reauths[i].vec # None =>
            /\ reauths[i].vec \in answered
            /\ reauths[i].imsi = vectors[reauths[i].vec]

\* A session that was deleted or expired never becomes answerable again, although
\* Update writes to its key without asking whether it still exists (session.go
\* Update against Delete and the TTL).
DeadSessionsStayDead ==
    [][\A s \in created : sessions[s].state # Sent => sessions'[s].state # Sent]_vars

\* While Redis executes every DEL, a request that arrives after a 200 reply for its
\* session is never accepted again, even once the cached reply has expired: what
\* it issues is at most what the cache replays (orchestrator.go deletes the
\* session before the reply goes out).
NoReissueAfterReply ==
    \A r \in Req : late[r] => pc[r] \notin Accepted

\* The EAP-Success identifier, which is the session copy's, is the one of the
\* challenge the device answered.  The exception is a resync that drew identifier
\* 0: Update skips it and the session keeps an older one (session.go line 135).
IdentifierFollowsChallenge ==
    \A r \in Req :
        pc[r] \in Accepted =>
            \E c \in challenges :
                /\ c.sid = msg[r].sid /\ c.vec = msg[r].res
                /\ loaded[r].identifier = c.identifier \/ c.identifier = 0

\* While Redis executes its writes nothing stays in it for ever: the hash of a session or
\* of an identity has a TTL, also the one that an Update makes of a deleted session
\* (session.go, reauth_store.go: EXPIRE goes with every HSET).
KeysExpire ==
    /\ \A s \in Session : sessions[s] # NoSession => sessions[s].ttl
    /\ \A i \in ReauthId : reauths[i] # NoReauth => reauths[i].ttl

\* Every request is answered: no handler waits for another or for its client.
RequestCompletes == \A r \in Req : (pc[r] # "idle") ~> (pc[r] = "idle")

\* Every session hash eventually leaves Redis, also the one an Update brings back
\* after the session was deleted (its EXPIRE gives that hash a TTL too).
SessionsReclaimed ==
    \A s \in Session : (sessions[s] # NoSession) ~> (sessions[s] = NoSession)

\* FOR-Hossein.md says of retransmissions: "This prevents double-issuance of
\* re-auth identities".  Refuted: two copies may both miss the cache.
OneIdentityPerChallenge ==
    \A i, j \in ReauthId :
        issued[i] # None /\ issued[j] # None /\ issued[i].vec = issued[j].vec => i = j

\* The calls of a request that carries an EAP relay.
Relay == Calls \ {"idle", "vectors", "create"}

\* Two responses of one session are never handled at the same time.
NoOverlap ==
    \A q, r \in Req :
        pc[q] \in Relay /\ pc[r] \in Relay /\ msg[q].sid = msg[r].sid => q = r

\* The claim does hold as long as responses of one session do not overlap, whatever
\* else runs, fails or expires, while Redis executes its writes and the server does not
\* die between storing the identity and deleting the session (orchestrator.go
\* HandleEapResponse): what is missing is a lock on the session, and nothing else.
OneIdentityWithoutOverlap == []NoOverlap => []OneIdentityPerChallenge

\* The implementation mapping to what authentication promises.
Promise ==
    INSTANCE AkaPromise WITH
        identities <- issued,
        delivered  <- {[vec |-> g.msg.res, rid |-> g.rid] : g \in granted}

\* The server implements AkaPromise.
ImplementsPromise == Promise!Spec

\* Module Reauth without requests of its own over the same identities: the first of a
\* lineage is one issued here, and whatever has a vector here has a root there.
Enrolment ==
    INSTANCE Reauth WITH
        MaxCounter <- 65535,
        Req        <- {},
        Session    <- {},
        pc         <- [r \in {} |-> None],
        msg        <- [r \in {} |-> None],
        loaded     <- [r \in {} |-> None],
        late       <- [r \in {} |-> None],
        rsessions  <- [s \in {} |-> None],
        cache      <- {},
        created    <- {},
        challenges <- {},
        answered   <- {},
        granted    <- {},
        closed     <- {},
        issued     <- [i \in ReauthId |->
                         IF issued[i] = None THEN None ELSE [root |-> i, depth |-> 1]],
        reauths    <- [i \in ReauthId |->
                         [root    |-> IF reauths[i].vec = None THEN None ELSE i,
                          counter |-> reauths[i].counter,
                          ttl     |-> reauths[i].ttl]]

\* What Reauth takes for granted of full authentication is what it does, Enrolment!Spec:
\* every step that touches an identity draws a fresh one and stores it with counter 1, or
\* drops one that expires (orchestrator.go HandleEapResponse, the only writer of reauth:{id}
\* besides reauth.go).  That other steps stutter needs no test, and TLC is spared it.
EnrolsForReauth ==
    /\ Enrolment!Init
    /\ [][UNCHANGED <<issued, reauths>> \/ [Enrolment!Next]_(Enrolment!vars)]_vars
=============================================================================
