----------------------------- MODULE RedisStore -----------------------------
(***************************************************************************)
(* What the stores of the server ask of Redis, and what can go wrong with  *)
(* it.  SessionStore, ReauthStore and ReauthSessionStore all write a hash  *)
(* with the same pipeline and delete it with the same command.             *)
(***************************************************************************)
CONSTANT Faults    \* which faults and expiries an instance admits

\* A failing GET or HGETALL; a SET or DEL that is not executed or a pipeline that is
\* executed in part; a failing Postgres; a server process that dies; a TTL that ends.
FaultKinds == {"redisRead", "redisWrite", "db", "crash", "expiry"}

Faulty(kind) == kind \in Faults

\* HSET and EXPIRE travel in one non-transactional pipeline: when it reports an
\* error the hash may be as before, written without a TTL, or written in full.
PipelineOutcomes(old, new) == {old, [new EXCEPT !.ttl = old.ttl], new}

\* DEL, whose error every caller discards.  It fails with Redis, and also when the
\* client has gone and with it the context of the request.
DelOutcomes(hash, absent) ==
    {absent} \cup (IF Faulty("redisWrite") THEN {hash} ELSE {})
=============================================================================
