---------------------------- MODULE TokenService ----------------------------
(***************************************************************************)
(* ODSA temporary tokens: internal/token/service.go over the tokens table  *)
(* and its cache in Redis, and the two requests that use it, the token     *)
(* path of POST /entitlement and GET /entitlement (server/routes.go).      *)
(*                                                                         *)
(* As in EapAka an action is one call to Redis or Postgres and the local   *)
(* computation that follows it.  Expiry is about clock readings here, so   *)
(* there is a clock, in units of which a token lives TTL.                  *)
(***************************************************************************)
EXTENDS Integers, RedisStore

CONSTANTS
    Sub,       \* subscribers
    Token,     \* token values: 32 random bytes are fresh
    Job,       \* request goroutines that may run at the same time
    None,      \* no value
    TTL,       \* TempTokenTTLSeconds
    MaxTime    \* bound on the clock

ASSUME ConstantsOK ==
    /\ None \notin Sub \cup Token
    /\ TTL \in Nat \ {0}
    /\ MaxTime \in Nat
    /\ Faults \subseteq FaultKinds

VARIABLES
    now,       \* the clock
    pc,        \* pc[j]: the call job j makes next
    job,       \* job[j]: the token it is about and what it has computed
    tokens,    \* the tokens table: tokens[t] is t's row, or NoRow
    cached,    \* Redis strings token:{t}
    scopes,    \* Redis strings token:scope:{t}, which nothing reads, by their end
    drawn      \* token values drawn so far

stores == <<tokens, cached, scopes>>
vars   == <<now, pc, job, stores, drawn>>

Row == [sub: Sub \cup {None}, expires: Nat]

NoRow == [sub |-> None, expires |-> 0]

\* A cached token and the moment Redis drops it.
Entry == [sub: Sub \cup {None}, expires: Nat, evict: Nat]

NoEntry == [sub |-> None, expires |-> 0, evict |-> 0]

\* err: the error of ValidateToken, ErrTokenNotFound or another.
JobData ==
    [token: Token \cup {None}, sub: Sub \cup {None}, expires: Nat, ttl: 0 .. TTL,
     err: {"none", "notFound", "other"}]

NoJob == [token |-> None, sub |-> None, expires |-> 0, ttl |-> 0, err |-> "none"]

Calls ==
    {"idle", "cacheGet", "cacheDel", "find", "recache", "build", "insert", "cacheSet",
     "scopeSet", "unauthorized"}

TypeOK ==
    /\ now \in Nat
    /\ pc \in [Job -> Calls]
    /\ job \in [Job -> JobData]
    /\ tokens \in [Token -> Row]
    /\ cached \in [Token -> Entry]
    /\ scopes \in [Token -> Nat]
    /\ drawn \subseteq Token

-----------------------------------------------------------------------------
(* Helpers *)

Goto(j, call) == pc' = [pc EXCEPT ![j] = call]

\* The reply is written and the goroutine ends.
Finish(j) == Goto(j, "idle") /\ job' = [job EXCEPT ![j] = NoJob]

\* ValidateToken returns an error.  Whichever it is, the routes turn to the reply 401
\* "Invalid or expired token".
Refuse(j, err) ==
    /\ job' = [job EXCEPT ![j].err = err]
    /\ Goto(j, "unauthorized")

\* expiresAt.Before(time.Now()).
Expired(expires) == expires < now

\* Mutant: checkCache leaves expiry to Redis.
MutLiveUnchecked(entry) == entry # NoEntry

\* checkCache accepts an entry that is there and has not expired.
Live(entry) == entry # NoEntry /\ ~ Expired(entry.expires)

\* Mutant: the deadline is taken for the time that is left.
MutRemainingAbsolute(expires) == expires

\* time.Until(expiresAt), for a token that has not expired.
Remaining(expires) == expires - now

\* SET with a TTL: Redis counts it from the moment it executes the command.
CacheSetOutcomes(t, sub, expires, ttl) ==
    {[cached EXCEPT ![t] = [sub |-> sub, expires |-> expires, evict |-> now + ttl]]}
        \cup (IF Faulty("redisWrite") THEN {cached} ELSE {})

-----------------------------------------------------------------------------
(* ValidateToken *)

\* Job j is at a call of GenerateTemporaryToken.
Generating(j) == pc[j] \in {"insert", "cacheSet", "scopeSet"}

\* A POST or a GET with a token that is no re-auth identity.  Nobody learns a value
\* before it is generated.  One that was never drawn is in no store, and no draw
\* will hit it: it is left out.
Present(j) ==
    /\ pc[j] = "idle"
    /\ \E t \in drawn :
         /\ \A k \in Job : Generating(k) => job[k].token # t
         /\ job' = [job EXCEPT ![j].token = t]
    /\ Goto(j, "cacheGet")
    /\ UNCHANGED <<now, stores, drawn>>

\* checkCache finds a valid entry: Postgres is not asked.
CacheHit(j) ==
    LET entry == cached[job[j].token] IN
    /\ pc[j] = "cacheGet"
    /\ Live(entry)
    /\ job' = [job EXCEPT ![j].sub = entry.sub]
    /\ Goto(j, "build")
    /\ UNCHANGED <<now, stores, drawn>>

\* It finds one that has expired and deletes it.
CacheExpired(j) ==
    LET entry == cached[job[j].token] IN
    /\ pc[j] = "cacheGet"
    /\ entry # NoEntry /\ ~ Live(entry)
    /\ Goto(j, "cacheDel")
    /\ UNCHANGED <<now, job, stores, drawn>>

CacheDel(j) ==
    LET t == job[j].token IN
    /\ pc[j] = "cacheDel"
    /\ \E entry \in DelOutcomes(cached[t], NoEntry) :
         cached' = [cached EXCEPT ![t] = entry]
    /\ Goto(j, "find")
    /\ UNCHANGED <<now, job, tokens, scopes, drawn>>

\* Mutant: a token that is not in the cache is invalid.
MutCacheMissRefuses(j) ==
    /\ pc[j] = "cacheGet"
    /\ cached[job[j].token] = NoEntry \/ Faulty("redisRead")
    /\ Refuse(j, "notFound")
    /\ UNCHANGED <<now, stores, drawn>>

\* There is none, or Redis fails, which is the same to checkCache.
CacheMiss(j) ==
    /\ pc[j] = "cacheGet"
    /\ cached[job[j].token] = NoEntry \/ Faulty("redisRead")
    /\ Goto(j, "find")
    /\ UNCHANGED <<now, job, stores, drawn>>

\* Postgres has the token and it is valid.  ConsumeToken has no caller, so no row
\* is ever consumed.  With time left it goes back to the cache.
Found(j) ==
    LET row == tokens[job[j].token] IN
    /\ pc[j] = "find"
    /\ row # NoRow /\ ~ Expired(row.expires)
    /\ job' = [job EXCEPT ![j].sub = row.sub, ![j].expires = row.expires,
                          ![j].ttl = Remaining(row.expires)]
    /\ Goto(j, IF Remaining(row.expires) > 0 THEN "recache" ELSE "build")
    /\ UNCHANGED <<now, stores, drawn>>

\* It has no such row, or one that has expired: ErrTokenNotFound.
NotFound(j) ==
    LET row == tokens[job[j].token] IN
    /\ pc[j] = "find"
    /\ row = NoRow \/ Expired(row.expires)
    /\ Refuse(j, "notFound")
    /\ UNCHANGED <<now, stores, drawn>>

\* The query fails: another error, which the routes answer in the same way.
FindFails(j) ==
    /\ pc[j] = "find"
    /\ Faulty("db")
    /\ Refuse(j, "other")
    /\ UNCHANGED <<now, stores, drawn>>

\* The 401 is written.
Unauthorized(j) ==
    /\ pc[j] = "unauthorized"
    /\ Finish(j)
    /\ UNCHANGED <<now, stores, drawn>>

Recache(j) ==
    LET d == job[j] IN
    /\ pc[j] = "recache"
    /\ cached' \in CacheSetOutcomes(d.token, d.sub, d.expires, d.ttl)
    /\ Goto(j, "build")
    /\ UNCHANGED <<now, job, tokens, scopes, drawn>>

-----------------------------------------------------------------------------
(* The reply, and GenerateTemporaryToken as its side effect *)

\* Job j draws a value and a deadline for a token of sub and is about to insert it.
Draw(j, sub) ==
    /\ \E t \in Token \ drawn :
         /\ drawn' = drawn \cup {t}
         /\ job' = [job EXCEPT ![j] = [token |-> t, sub |-> sub, expires |-> now + TTL,
                                        ttl |-> TTL, err |-> "none"]]
    /\ Goto(j, "insert")

\* BuildEntitlementResponse succeeds.  The reply goes out, after a new token if the
\* request is a POST with AcquireTemporaryToken for ap2006 or ap2009.
Build(j) ==
    /\ pc[j] = "build"
    /\ \/ Draw(j, job[j].sub)
       \/ Finish(j) /\ UNCHANGED drawn
    /\ UNCHANGED <<now, stores>>

\* It fails (500).
BuildFails(j) ==
    /\ pc[j] = "build"
    /\ Faulty("db")
    /\ Finish(j)
    /\ UNCHANGED <<now, stores, drawn>>

\* A fast re-authentication of sub has succeeded and asks for a temporary token.
Acquire(j) ==
    /\ pc[j] = "idle"
    /\ \E sub \in Sub : Draw(j, sub)
    /\ UNCHANGED <<now, stores>>

\* The row that job j inserts.
InsertRow(j) ==
    tokens' = [tokens EXCEPT ![job[j].token] = [sub     |-> job[j].sub,
                                                expires |-> job[j].expires]]

Insert(j) ==
    /\ pc[j] = "insert"
    /\ InsertRow(j)
    /\ Goto(j, "cacheSet")
    /\ UNCHANGED <<now, job, cached, scopes, drawn>>

\* Postgres commits the row and the connection breaks before it says so.
InsertUnconfirmed(j) ==
    /\ pc[j] = "insert"
    /\ Faulty("db")
    /\ InsertRow(j)
    /\ Finish(j)
    /\ UNCHANGED <<now, cached, scopes, drawn>>

\* Mutant: GenerateToken goes on when the INSERT has failed.
MutInsertFailsGoesOn(j) ==
    /\ pc[j] = "insert"
    /\ Goto(j, "cacheSet")
    /\ UNCHANGED <<now, job, stores, drawn>>

\* Postgres fails, or it rejects the client's address, which goes into an INET column:
\* unless a proxy names the client, clientIP is host:port.  GenerateToken returns the
\* error, and the side effect drops it: the reply is 200.
InsertFails(j) ==
    /\ pc[j] = "insert"
    /\ Finish(j)
    /\ UNCHANGED <<now, stores, drawn>>

CacheSet(j) ==
    LET d == job[j] IN
    /\ pc[j] = "cacheSet"
    /\ cached' \in CacheSetOutcomes(d.token, d.sub, d.expires, d.ttl)
    /\ Goto(j, "scopeSet")
    /\ UNCHANGED <<now, job, tokens, scopes, drawn>>

ScopeSet(j) ==
    /\ pc[j] = "scopeSet"
    /\ \/ scopes' = [scopes EXCEPT ![job[j].token] = now + TTL]
       \/ Faulty("redisWrite") /\ UNCHANGED scopes
    /\ Finish(j)
    /\ UNCHANGED <<now, tokens, cached, drawn>>

-----------------------------------------------------------------------------
(* The environment *)

\* Time passes, and Redis no longer has what has outlived its TTL.
Tick ==
    /\ now < MaxTime
    /\ now' = now + 1
    /\ cached' = [t \in Token |-> IF cached[t].evict <= now' THEN NoEntry ELSE cached[t]]
    /\ scopes' = [t \in Token |-> IF scopes[t] <= now' THEN 0 ELSE scopes[t]]
    /\ UNCHANGED <<pc, job, tokens, drawn>>

\* The server process dies and comes back.
Crash ==
    /\ Faulty("crash")
    /\ pc' = [j \in Job |-> "idle"]
    /\ job' = [j \in Job |-> NoJob]
    /\ UNCHANGED <<now, stores, drawn>>

-----------------------------------------------------------------------------
Init ==
    /\ now = 0
    /\ pc = [j \in Job |-> "idle"]
    /\ job = [j \in Job |-> NoJob]
    /\ tokens = [t \in Token |-> NoRow]
    /\ cached = [t \in Token |-> NoEntry]
    /\ scopes = [t \in Token |-> 0]
    /\ drawn = {}

Next ==
    \/ \E j \in Job :
         \/ Present(j) \/ CacheHit(j) \/ CacheExpired(j) \/ CacheDel(j) \/ CacheMiss(j)
         \/ Found(j) \/ NotFound(j) \/ FindFails(j) \/ Unauthorized(j) \/ Recache(j)
         \/ Build(j) \/ BuildFails(j)
         \/ Acquire(j) \/ Insert(j) \/ InsertUnconfirmed(j) \/ InsertFails(j)
         \/ CacheSet(j) \/ ScopeSet(j)
    \/ Tick \/ Crash

Spec == Init /\ [][Next]_vars

-----------------------------------------------------------------------------
(* Properties *)

\* ValidateToken accepts a token only for the subscriber it was generated for and
\* never after its deadline, although Redis counts the TTL of a cached copy from a
\* later moment and keeps it longer (service.go ValidateToken, checkCache).
AcceptedWhileValid ==
    [][\A j \in Job :
         LET t == job[j].token IN
         pc[j] \in {"cacheGet", "find"} /\ pc'[j] \in {"recache", "build"} =>
             /\ tokens[t] # NoRow
             /\ tokens[t].sub = job'[j].sub
             /\ now <= tokens[t].expires]_vars

\* The cache never holds what Postgres does not: a token that was not persisted is
\* not cached, and re-caching does not prolong it (service.go "source of truth").
CacheIsBacked ==
    \A t \in Token :
        cached[t] # NoEntry =>
            tokens[t] = [sub |-> cached[t].sub, expires |-> cached[t].expires]

\* ValidateToken calls a token that is in Postgres unknown only once its deadline
\* has passed: losing the cache, or any part of it, revokes nothing.
RefusedForCause ==
    \A j \in Job :
        LET row == tokens[job[j].token] IN
        pc[j] = "unauthorized" /\ job[j].err = "notFound" /\ row # NoRow =>
            Expired(row.expires)

\* The implementation mapping to what a token promises: the table has what is issued,
\* and a request is served between its validation and its reply.
Promise ==
    INSTANCE TokenPromise WITH
        clock    <- now,
        issued   <- tokens,
        serving  <- {[token |-> job[j].token, sub |-> job[j].sub] :
                        j \in {k \in Job : pc[k] \in {"recache", "build"}}},
        Unissued <- NoRow

\* The token service implements TokenPromise: cache, copies that outlive their token,
\* re-caching and lost writes change neither deadline nor owner (service.go).
ImplementsPromise == Promise!Spec
=============================================================================
