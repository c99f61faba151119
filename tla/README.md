# TLA+ models of the entitlement server

The repository is a TS.43 entitlement configuration server in Go. A device proves who it
is by EAP-AKA (a challenge from the operator's HSS, answered with the SIM), then receives
the configuration of the services it may use. Afterwards it identifies itself with a
re-authentication identity or with a token. This directory holds TLA+ models of that
protocol as the server implements it, the TLC configurations that check them, and proofs
that TLAPS checks.

## The system

```
 device --POST/GET /entitlement--> server/routes.go ---> eapaka (orchestrator, reauth)
                                        |                   |        |         |
                                        |                HSS client  |   Redis: eap_session:
                                        |                (HTTP)      |   reauth: reauth_session:
                                        +--> token/service.go        |   eap_idempotency: token:
                                        +--> services/builder.go  Postgres: subscribers, tokens,
                                                                  entitlements
```

| Component | State it keeps | Operations | Where |
|---|---|---|---|
| EAP-AKA orchestrator | a process-wide identifier counter | initial challenge, check of a response, resynchronisation | `eapaka/orchestrator.go` |
| EAP session store | Redis hash `eap_session:{id}`, TTL 90 s | Create, Get, Update, Delete | `eapaka/session.go` |
| Re-auth store | Redis hash `reauth:{id}`, TTL 48 h | Store, Get, Delete | `eapaka/reauth_store.go` |
| Re-auth handler, re-auth session store | Redis hash `reauth_session:{id}`, TTL 90 s, a second identifier counter | fast re-authentication, rotation of the identity, fallback to full authentication | `eapaka/reauth.go`, `reauth_session.go` |
| Idempotency cache | Redis string `eap_idempotency:{hash}`, TTL 90 s | lookup, store | `eapaka/idempotency.go` |
| HSS client | none; 5 s timeout | FetchVectors, ResyncVectors | `eapaka/vectors.go` |
| Routes | none | initial, relay and token paths of POST; GET | `server/routes.go` |
| Token service | Redis `token:{value}`, Postgres `tokens` | generate, validate, temporary tokens | `token/service.go` |
| Mock HSS | Postgres `subscribers.sqn` | vectors, resync | `cmd/mock-hss/main.go` |
| Builders | Postgres entitlements, mock SM-DP+ | one configuration per application | `services/` |
| EAP codec, keys, Milenage | none | encode, decode, derive | `eapaka/codec.go`, `keys.go`, `encryption.go`, `crypto/` |
| Middleware, configuration, migration, seeding, response formats | none after start-up | | `server/`, `config/`, `db/`, `protocol/` |

Every HTTP request is a goroutine of its own. Goroutines share no memory except two atomic
counters; they meet in Redis and Postgres, and no operation takes a lock or a transaction
across two calls. So what is hard about this program is interleaving at the granularity of
single Redis commands: a request works on the copy of a session it loaded some calls ago.
On top of that come retransmissions, TTLs that run out while a request works, pipelines
that are executed in part, discarded errors, and processes that die between two calls.

What must hold, per component:

- *full authentication*: a 200 reply answers a response the device really computed; the
  identity in it belongs to that subscriber and carries the keys both sides share; a dead
  session is not answered again; every request ends and every session key leaves Redis;
- *re-authentication*: an identity becomes usable only for a device that answered the
  challenge that offered it; a reply names the successor its challenge offered; counters
  grow by one along a lineage of identities and keep to their 16 bits; an identity that was
  handed out is not lost to an overlapping request;
- *tokens*: a token is accepted until its deadline and for its own subscriber, whatever
  cache and database keep; a cached copy is a copy of the row; losing it revokes nothing;
- *sequence numbers*: HSS and device converge after a resynchronisation;
- *codec*: decoding what was encoded gives it back, decoding terminates, and the two loops
  that walk over a packet agree about where its MAC is;
- *replies*: a replayed reply is one to the same response; JSON and XML say the same; an offer
  comes with what it takes to accept it; a service that is not enabled comes with nothing to
  use it by.

## Modules

| Module | What it is |
|---|---|
| `AkaPromise` | Abstract specification of full authentication: vectors are generated, answered, turned into identities, and identities are delivered. No sessions, requests or faults. |
| `EapAka` | Detailed specification: both requests of full authentication, every call they make to Redis, the HSS and Postgres, and every error path. |
| `MCEapAka` | The model values and the symmetry TLC uses. |
| `EapAkaProofs` | The inductive invariant of `EapAka` and the safety theorems that follow from it, of sessions, identifiers and late requests included. |
| `EapAkaPromiseProofs` | `EapAka` implements `AkaPromise`, and does to identities what `Reauth` takes for granted. |
| `RedisStore` | What HSET with EXPIRE and DEL may do under which faults; shared by `EapAka`, `Reauth`, `TokenService` and `EntitlementRoute`. |
| `ReauthPromise` | Abstract specification of re-authentication: identities are enrolled, successors offered, proved, activated, delivered and retired. |
| `Reauth` | Detailed specification: both requests of fast re-authentication, with the routing that leads to them. |
| `MCReauth` | Its model values and symmetry. |
| `ReauthProofs` | The inductive invariant of `Reauth` and the safety theorems that follow from it, of what a 200 reply settles included. |
| `ReauthPromiseProofs` | `Reauth` implements `ReauthPromise`. |
| `MockHss` | The two handlers of the HSS, the rows they read and should write, and the USIMs whose sequence numbers they have to meet. |
| `MCMockHss`, `MockHssProofs` | Its model values and symmetry; its invariant and theorems. |
| `TokenService` | Generation and validation of ODSA tokens over Postgres and Redis, the side effect of a reply that generates one, and a clock. |
| `TokenPromise` | Abstract specification of a token: issued once, to one subscriber, for at most its lifetime; accepted at any time up to its deadline and never after. |
| `MCTokenService`, `TokenServiceProofs` | Model values and symmetry of `TokenService`; its invariant and theorems, and that it implements `TokenPromise`. |
| `EapCodec` | The layout of packets: two encoders, two decoders and the search for AT_MAC, attribute by attribute. |
| `MCEapCodec`, `EapCodecProofs` | Its model values; its invariant and theorems. |
| `Entitlement` | What a reply says: the decision tables of the twelve applications, their operations, and the two formats. Operators only. |
| `EntitlementRoute` | The requests that end in an entitlement reply: EAP responses behind the idempotency cache, and requests with a token. |
| `MCEntitlementRoute`, `EntitlementRouteProofs` | Its model values, symmetry and rows; its invariant and theorems. |

### EapAka

*Granularity.* An action is one call to Redis, the HSS or Postgres together with the local
computation up to the next call, because other goroutines can run exactly there. `pc[r]`
names the call request `r` makes next:

```
Initial -> vectors -> create -> (401 with a challenge)
EapRelay -> cacheGet -> (200 from the cache)
                     -> sessionGet -> reject -> (401)
                                   -> resync -> update -> (401 with a challenge)
                                             -> reject
                                   -> lookup -> store -> delete -> build -> cachePut -> (200)
```

*State.* `sessions`, `reauths` and `cache` are the three kinds of Redis key; `loaded[r]` is
the `EapSessionData` a request has in memory; `counter` is `_identifierCounter`. The other
variables record what the world outside has seen: which vectors the HSS has generated and
for whom, which challenges went out, which of them a device has answered, which identities
were issued and which 200 replies were given. No action of the server reads them, except to
draw values that are fresh.

*Data.* RAND, AUTN, XRES, CK and IK and all keys derived from them are functions of one HSS
vector and its IMSI, and the code stores and loads them together, so one vector `v` stands
for all of them. A challenge response is the pair (vector AT_RES was computed from, vector
AT_MAC is keyed with), so a response may be genuine, or damaged in either part. "bad" stands
for everything rejected without looking at AT_RES, including packets on which the decoder
panics and `RecoverMiddleware` replies 500. "sync" is a response whose AT_AUTS decodes; with
this repository's own encoder it would not (see Findings). A hash without a `state` field is modelled as
such, because `SessionStore.Update` can leave one behind.

*Faults*, chosen per instance by the constant `Faults`: `redisRead` (a GET or HGETALL
fails), `redisWrite` (a SET or DEL is not executed, a pipeline is executed in full, in part
or not at all; a client that disconnects has the same effect, since the stores use its
request's context), `db` (Postgres fails), `expiry` (a TTL runs out) and `crash` (the
process dies between any two calls and comes back). The HSS may refuse, fail or time out in
every instance. `RedisStore` names them for both models.

### Reauth

The same granularity. A token that is a re-auth identity is RT1, an EAP relay is RT2:

```
Token -> routeGet -> handlerGet -> challenge -> (401 with a challenge)
                                -> giveUp -> tokenCheck -> (401)
                  -> tokenCheck -> (401)
EapRelay -> cacheGet -> (200 from the cache)
                     -> routeSession -> fullAuth -> (401)
                                     -> sessionGet -> reject -> (401)
                                                   -> abandon -> forget -> (401)
                                                   -> restart -> forgetRestart -> initial -> (401)
                                                   -> rotate -> store -> close -> build
                                                      -> cachePut -> (200)
```

The identity is looked up twice at RT1 and the session twice at RT2, by the route and by
the handler, and both lookups are actions: what the first one found may be gone at the
second.

*State.* `reauths`, `rsessions` and `cache` are the Redis keys; `loaded[r]` is the copy of
the re-auth state (RT1) or of the session (RT2) in the request's memory. `issued[i]` records
where an identity comes from: the identity full authentication issued at the start of its
lineage and the number of identities up to it. `challenges`, `answered`, `granted` and
`closed` record what devices have seen and done, `late[r]` whether `r` arrived after its
session's final reply. No action of the server reads these, except to draw fresh values.

*Data.* The handler never changes MK, K_aut and K_encr (the result of `DeriveReauthKeys` is
dropped), so the root of a lineage stands for all three. An answer is reduced to what the
handler tells apart: a right AT_MAC with a counter that is the challenge's or another one,
AT_COUNTER_TOO_SMALL, AKA-Authentication-Reject, and everything rejected before that. An
answer is sent with the session ID of the challenge it answers. Full authentication appears
as the actions that enrol an identity (`FullAuth`, and `FullAuthFails` when the store reports
an error it may have acted on), and as the handler that finds no session of its own; the
fallback to it after AT_COUNTER_TOO_SMALL as the call that ends the request. A token that is
no identity fails `ValidateToken`, since ODSA tokens and identities are drawn independently.

*What it takes for granted* is checked and proved of `EapAka`: `EnrolsForReauth` maps the
re-auth hashes of `EapAka` to those of a `Reauth` that has no requests of its own, and every
step of full authentication is there an enrolment, an expiry or a stutter. The other way round
there is nothing to assume: full authentication writes `reauth:{id}` and never reads it.

### MockHss

`POST /vectors` and `POST /resync` read a row, compute, write the row and reply. The read is
one action and the write with the reply another; nothing that another request could see lies
between the write and the reply.

*State.* `row` is `subscribers.sqn` by UUID, `job[j]` the vector a request has computed and the
number it is about to write. `vectors`, `auts` and `usim` are outside: what was handed out,
the AUTS that USIMs have made, and SQN_MS. A request that is refused (400, 404) leaves nothing
behind and is not an action.

*Data.* A vector is its RAND, the subscriber whose Ki made it and its SQN; an AUTS the
subscriber, RAND and SQN_MS it was made from. So `ValidAUTS` says when MAC-S matches, and a
request may pair any AUTS with any RAND. `SqnMod` stands for 2^48, `WordMod` for the 2^32 that
`/vectors` keeps, `Advance` for 32.

*USIMs* are external: `milenage.go` only has the AUTS a device would make (`GenerateAUTS`).
One accepts a number above SQN_MS, which becomes SQN_MS, and answers any other with an AUTS.
It may be shown a challenge twice. A USIM that also limits how far a number may jump is not
covered.

*Faults*: `db` (the update fails), `kms` (a key cannot be unwrapped), `lost` (nobody
receives the reply, and the vector is never used).

### TokenService

```
Present -> cacheGet -> build -> (200)
                    -> cacheDel -> find
                    -> find -> unauthorized -> (401)
                            -> recache -> build
                            -> build
build, Acquire -> insert -> cacheSet -> scopeSet -> (200)
               -> (500)  -> (200, error dropped)
```

*State.* `tokens` is the table, `cached` and `scopes` the two kinds of Redis string with the
moment Redis drops them, `now` the clock, `drawn` the values drawn so far. `Acquire` is the
side effect of a re-authentication (in `Reauth` it is part of the reply), `Build` ends a POST
or GET with a token, with or without that side effect.

*Time.* A deadline is a clock reading plus `TTL`. Redis counts a TTL from the moment it
executes the SET, which may be later than the reading the TTL was computed from, so a copy can
outlive its token; `checkCache` compares the deadline itself. All clocks are taken to agree.

*What the code leaves unused.* No reply carries the token it generated
(`handleTempTokenSideEffect` says so), so a device gets one only by means outside the code; the
model lets a device present any value whose generation has ended. Nothing reads the scope keys.
`ConsumeToken` and `DeleteExpiredTokens` have no caller: rows are never consumed and never
deleted, and the test of `Consumed` in `ValidateToken` is always false.

*Insertion may fail without a fault*: without a proxy, `clientIP` is `host:port`, which the
`INET` column does not take. Reading the column back into a `*string` is taken to succeed, as
the code expects of the driver; if it did not, the lookup would always take the action
`FindFails`.

*The promise.* `ImplementsPromise` maps the table to `issued` and the requests past validation to
`serving`: all caching and eviction is a stutter, and only the steps that accept a token count.

### EapCodec

A behaviour is one list of attributes: `Encode` appends one, `Send` or `Encrypt` ends the list,
and the decoder runs over what was written, one attribute a step.

*Data.* Only the layout is modelled. `wire` has each attribute with the offset it starts at and
the number of bytes of its value that are there; `decoded` has the bytes the decoder took for
each value. Reading the right value is reading the bytes the encoder wrote it to. AES-CBC keeps
every byte in its place and is left out.

*The length of a packet* has 16 bits: `PacketLength` is what they keep of the number of bytes
(`LengthMod` is 65536 in the code). `DecodeEapPacket` goes to that length (`Limit`), refuses one
below 8 (`ReceiveShort`) and may so decode a part of the packet. `Fits` says that nothing was
cut. A packet may also arrive shorter than its header says; one whose length was cut and that
loses bytes on the way as well is left out.

*Bytes that are no header.* An attribute whose length byte is wrong sends the decoder into the
bytes of some value; what it finds there is one of `Stray`, chosen anew at each offset.

*Panics* of a slice or of `make` end the behaviour, as `RecoverMiddleware` ends the request. Go
allows a slice up to the capacity of its buffer, which may exceed the packet by the two bytes
of base64's own padding: between the two, both outcomes are possible (`Spare`).

*Not modelled*: EAP-Success and EAP-Failure, which are four bytes, and the code, identifier and
subtype of a packet, which have fixed places.

### Entitlement and EntitlementRoute

`Entitlement` translates the tables one by one: `AppConfig(app, op, row)` is `buildAppConfig`,
`JSONParams` and `XMLParams` are the parameters of a rendered reply. Three services repeat the
same operations with small differences; those differences are arguments (`Eligible`,
`Enterprise`, `ProfileKey`), and an operation is there once.

*Data.* A value stands for where it comes from: "row" for what config_data says, a default, a
canned activation code. config_data is the set of its keys that are set and the three values
that decide something. One that cannot be unmarshalled is `NoConfig`. `ProvStatus`, which every
table copies, and the AddrType of an address are left out.

`EntitlementRoute` has the goroutines:

```
EapRelay -> cacheGet -> (200 from the cache)
                     -> authenticate -> (401, 500)
                                     -> close -> find -> (500)
                                                      -> cachePut -> (200)
TokenReply: (200 or nothing)
```

*State.* `open` are the sessions in Redis, `cache` the idempotency cache, `job[r]` what goroutine
`r` was asked and has found, `reply` the 200 the last step wrote.

*The cache key* is the hash of the header `X-EAP-Session-Id` followed by the body's `eap_relay`
(`idempotency.go:49`). Nothing stands between the two, and of the header only its absence is
noticed before the lookup (`routes.go:94`). `Text(h, b)` is that text: a header and a body
determine it, it does not determine them. All that is assumed of it is that two pairs of a
session ID and a body never share one, as session IDs are UUIDs of one length. `Header` has
session IDs and other texts, and in the runs one header that is no session ID shares a text
with a session. SHA-256 is taken to have no collisions. `EapAka` and `Reauth`
compare session and response instead: each header in them is a session ID.

Authentication, full and fast, is `EapAka`'s and `Reauth`'s subject; here it accepts a right response of a session
that is open, or refuses, and may delete the session when it refuses.

*Rows* are read from a table that others may change: each `Find` sees any row of `RowsOf(app)` or
none. A result set that breaks off is one of the outcomes of the query under the fault `db`.

*`Quiet`* bounds the runs, not the code: a request with a token reads and writes nothing of this
module's state, so it is served only when nothing else is going on.

## Runs

| Run | Checks | Instance |
|---|---|---|
| `full_auth` | the safety properties that hold under every fault, the refinement, and `EnrolsForReauth` | 1 session, 2 vectors, 2 identities, 2 requests, `IdMod` 2, `Drawn` 0; every fault: failing reads and database, lost and partial writes, expiry, crashes |
| `full_auth_live` | `NoReissueAfterReply`, `IdentifierFollowsChallenge`, `OneIdentityWithoutOverlap`, `RequestCompletes`, `SessionsReclaimed` | 1 session, 2 vectors, 2 identities, `Drawn` 1; failing reads and expiry; fairness |
| `double_issuance` | refutes `OneIdentityPerChallenge` | no faults at all |
| `reauth` | all safety properties of re-authentication and the refinement | 3 identities, 2 sessions, 2 requests, `MaxCounter` 3; failing reads and database, crashes |
| `reauth_faults` | `HoldsUnderFaults`: all of it but the two properties that need every write executed | 3 identities, 1 session, 2 requests; every fault and expiry |
| `hss` | all safety properties of the HSS | 2 subscribers and a stranger, 4 RANDs, 2 requests; every fault |
| `hss_sqn` | refutes `SqnIncreases` | 1 request at a time, no faults at all |
| `tokens` | all safety properties of tokens and the refinement | 2 subscribers, 2 tokens, 2 requests, `TTL` 2, `MaxTime` 5; every fault |
| `codec` | all properties of the codec, termination included | lists of up to 3 attributes of every type; values of 0, 5, 8 and 11 bytes where a type does not fix the length; `LengthMod` 448; fairness |
| `codec_auts` | refutes `EveryPacketDecodes` | the same, `LengthMod` 65536 |
| `entitlements` | all properties of replies | every application, operation and format over every combination of what its table tells apart; 2 sessions and a header that is none, 3 bodies, 2 goroutines; every fault |
| `truncated_entitlements` | refutes `AllEntitlements` | the same |

*Bounds.* Requests only meet on a session, so one session and two requests show each race
between two of them; the two idle slots are reused without limit, so a run has many more
requests than two, one after the other. Two vectors give a challenge and a resync; two
identities are what a duplicate issuance takes. `IdMod` is 2 instead of 256: the counter wraps
to 0, the value `Update` treats specially, within a run. `Drawn` says where it stands when
the behaviour begins, as sessions before these have drawn from it: from 0 the
first resync draws 0, and from 1 it draws 1, which `Update` must store. `full_auth_live` leaves
out failing databases, which end a request as a failing read does, and crashes and lost writes,
under which its properties do not all hold. Requests
that need a vector, session or identity when all are used up take the error path of that
call, which the code has.

For re-authentication two sessions are what it takes to offer two successors of one
identity, and three identities give an identity, its successor and either a second successor
or the successor's successor. `MaxCounter` is 3 instead of 65535, so the third identity of a
lineage is exhausted within a run. Two sessions together with lost writes take TLC longer
than these runs are meant to; the proofs cover that case, and every other.

For the HSS four RANDs give two challenges, of one subscriber or of two, and two answers to
their AUTS. Numbers run to `SqnMod` 8 with `Advance` 3 and `WordMod` 4, so the sum leaves
the range for a USIM that starts at 6, and stays within it for one that starts at 0 or 1.

For tokens `MaxTime` 5 is twice the lifetime and one: a token is issued, cached again, dropped
by Redis and refused within a run, and a second one may follow. Two tokens and two subscribers
are what it takes to mistake one for the other.

For the codec three attributes are one before, one in the middle and one after; the lengths
leave every remainder modulo four except 2, and a value of no bytes. `LengthMod` is 448 instead
of 65536, so the longest of these packets lose the upper part of their length. The proofs have
no such bound.

For replies `RowsOf` has, per application, each status and T&C status a table tells apart, each
state and profile, and config_data with all keys the table reads, none of them, each one alone
and each one missing: every parameter of a table depends on one key and on those values. EAP
responses ask for one application with few rows, in either format, since what their goroutines
do does not depend on the row.

*Symmetry* is used for sessions, vectors, identities and requests in the safety runs only; in
`entitlements` for its goroutines alone, as `Text` tells sessions and bodies apart.

*Fairness.* Weak fairness of each request's next step: the Go scheduler runs every
goroutine, and every call returns, fails or times out (`vectors.go` sets 5 s; the Redis and
Postgres clients have their own timeouts). Weak fairness of the expiry of session keys:
Redis removes expired keys. Nothing is assumed of devices: they may never answer. In the codec,
weak fairness of the one loop that runs.

*Deadlock* is checked in every run but those of the codec, where a behaviour ends with its
packet.

## Properties

- `GrantsAreEarned`: every 200 reply, replayed ones included, answers an undamaged response
  the device computed, and its identity has that subscriber and that vector's keys.
- `StoredKeysAreShared`: re-auth keys in Redis come from a vector its owner's device has
  answered. The race is a resync that replaces the session's vector under a request that has
  just been accepted.
- `DeadSessionsStayDead`: a deleted or expired session never becomes answerable again. It
  holds because `Update` does not write the state, not because it looks whether the session
  exists.
- `NoReissueAfterReply`: a request that arrives after the 200 reply for its session is never
  accepted again, also when the cached reply is gone. It needs the deletion of the session to
  be executed; its error is discarded in the code, so it is not true with `redisWrite`, and
  `full_auth_live` checks it without.
- `IdentifierFollowsChallenge`: the identifier of EAP-Success is that of the challenge the
  device answered, unless a resync drew identifier 0, which `Update` takes for "not given".
  `full_auth_live` checks it from a counter of 1, where a resync draws an identifier that is
  stored; the theorem holds for every start.
- `ImplementsPromise`: the refinement of `AkaPromise`.
- `OneIdentityWithoutOverlap`: a challenge yields one identity as long as no two responses of
  one session are handled at the same time. It is stated as `[]NoOverlap => []...`, of
  behaviours and not of steps, so it says what a lock on the session would buy. Nothing else
  has to be ruled out while writes are executed and the server stays up: neither resyncs, nor
  retransmissions without a cached reply, nor a session that expires under a request.
- `EnrolsForReauth`: the refinement that joins the two models of authentication (see Reauth).
- `RequestCompletes`, `SessionsReclaimed`: nothing waits for ever, and nothing stays in Redis
  for ever as long as EXPIRE is executed.

Of re-authentication:

- `GrantsAreOffered`: every 200 reply, replayed ones included, answers its session's
  challenge with that challenge's counter and names the successor it offered. Copies of one
  response in flight together therefore all get the same identity, unlike in full
  authentication.
- `OneIdentityPerSession`, a part of `HoldsUnderFaults`: all 200 replies to one challenge name the same successor, copies in
  flight together included. It is what full authentication only has without overlap; what
  makes the difference is that the successor is drawn with the challenge.
- `UsableIsEarned`: an identity in the re-auth store was issued by full authentication or is
  the successor in an answered challenge. A request stalled after its checks may store a
  successor again that was itself rotated away meanwhile; it is still one that was earned.
- `CounterIsDepth`: stored and transmitted counters are the number of rotations since full
  authentication on every branch of a lineage. The counter is read at RT1, compared at RT2
  and written with no lock in between.
- `DeliveredStaysUsable`: an identity handed out in a reply is in the store until its device
  uses it or its counter is exhausted. The rotation deletes before it stores; what makes this
  hold is that a successor is drawn freshly for each challenge. It needs writes to be
  executed and keys not to expire: when the DEL is executed and the HSET after it fails
  (`reauth.go:238`), the request ends with an error and the device has no usable identity, until
  it sends its answer again while the session is there, or authenticates in full.
- `NoRotationAfterReply`: a response that arrives after its session's final reply is not
  accepted, also when the cached reply is gone. It needs the DEL to be executed.
- `ImplementsPromise`: the refinement of `ReauthPromise`.
- `HoldsUnderFaults`: of these, what lost and partial writes and expiry do not disturb.

Of the HSS:

- `ResyncAnswersOwnUsim`: the vector of a `/resync` answers an AUTS that this subscriber's USIM
  made for a RAND this subscriber was given, however a request pairs them and however late it
  comes.
- `OneResyncIsEnough`: a USIM refuses that vector only if it has accepted another one since, or
  if SQN_MS was within 32 of 2^48. It does not depend on what the table holds, which is why the
  system gets on although the table is never written: every vector after the first is refused,
  and the resync that follows gets the device in.
- `UsimsMoveByResync`: a USIM's number moves only by a vector that answers its own AUTS. It is
  the other half: no vector of `/vectors` is ever accepted, so each authentication takes a
  resynchronisation.

Of tokens:

- `AcceptedWhileValid`: whatever answers first, cache or table, a token is accepted only until
  its row's deadline and only for its row's subscriber.
- `CacheIsBacked`: a cached copy has the row's subscriber and deadline. It rests on the order
  of the writes (table first) and on stopping when the first one fails.
- `RefusedForCause`: when `ValidateToken` says `ErrTokenNotFound` of a token in the table, its
  deadline has passed; no race of deletion, re-caching and eviction makes it say so earlier.
- `ImplementsPromise`: the refinement of `TokenPromise`.

Of the codec, for every type but AT_AUTS and those it has no case for, and, but for `WholeBlocks`
and `Terminates`, for packets whose length has room in its 16-bit field:

- `RoundTrip`: each attribute comes back with the bytes of its own value, in its order, through
  encryption and without the padding. It relates the encoder's table, the decoder's table and
  the length byte that is all they share.
- `Decodes`: a packet that arrives whole is neither refused nor read beyond its end.
- `WholeBlocks`: `EncryptAttributes` hands whole blocks to `CryptBlocks`, which panics otherwise.
- `MacIsWhereItWasRead`: the bytes zeroed before the MAC is computed are the bytes it was read
  from.
- `Terminates`: the loops end although they advance by a length that is data. The data is what
  the encoder wrote: bytes of another origin may have a length of zero, and a loop that finds
  one in `DecodeEapPacket` stays there (see below).

Of replies:

- `ReplayRepeats`: a 200 on an EAP response was built for a session and the right response to
  it, also when another goroutine cached it long ago; the request has the text of both in its
  header and body; and if its header is a session ID, session and response are its own. A
  replay may differ in the application and the format: the cache key has neither, and a replay
  is always `application/json`.
- `FormatsAgree`: JSON assigns extra parameters last, so they win over fields; XML writes both.
  The two agree because no table gives an extra parameter the name of a field it also sets.
- `OffersAreComplete`, `OffersAreEligible`: about the operations of one service together.
- `NotEntitledGetsNothing`: about every table without operations.

## Findings

Four statements of the repository do not hold of the code; TLC shows a behaviour for each.

1. "This prevents double-issuance of re-auth identities" (`FOR-Hossein.md:542`). The cache only
   helps a retransmission that arrives after the first copy's reply was cached. Copies in
   flight together each get an identity. What does hold is `GrantsAreEarned`: all of them belong
   to the same subscriber and the same answered challenge; and `OneIdentityWithoutOverlap`: the
   overlap is the cause, unless a DEL of the session is lost or the server dies before it
   (either leaves an answered session for the retransmission). (`double_issuance`)
2. "Increment SQN" (`mock-hss/main.go:115`). The call passes the IMSI to a query that compares
   the UUID of the row, and drops the error: no sequence number is ever written, and every
   vector `/vectors` makes for a subscriber has the same one. What does hold is
   `OneResyncIsEnough` and, because of the defect, `UsimsMoveByResync`. (`hss_sqn`)
3. "Correct length field (in 4-byte words)" of every attribute type (`test_strategy.md:134`), and
   "Decode reverses encode exactly" (`rfc4187_test.go:516`, of one AKA-Challenge). AT_AUTS is
   written to 18 bytes and its length byte says 16, so the decoder reads the last two bytes of
   AUTS as a header; the test of AT_AUTS pins both numbers and does not decode.
   The server only decodes AT_AUTS; what the defect reaches is everything that encodes one with
   this codec. (`codec_auts`)
4. "FindEntitlementsBySubscriber returns all entitlements for a subscriber" (`queries.go:64`).
   `rows.Err()` is never asked, so a result set that breaks off is a short list, and an
   application whose row is missing is answered with status 1. (`truncated_entitlements`)

More things a reader of the code should know, which need no run to see:

- "Every failure path deletes the session. There's no 'dangling session'" (`FOR-Hossein.md:529`):
  a resync that waits for the HSS writes the hash back after a rejection has deleted it. What
  does hold is `DeadSessionsStayDead` and `SessionsReclaimed`.
- "The TTLs ensure automatic cleanup" (`FOR-Hossein.md:554`): HSET and EXPIRE are one pipeline and
  not one transaction, and a key whose EXPIRE was lost stays.
- "Rotate re-auth identity" (`architecture.md:123`): each challenge for an identity offers a
  successor of its own, and the response handler does not ask whether the identity still exists
  when it stores it. A device that asked twice and answers both challenges holds two usable
  identities. What does hold is `CounterIsDepth`, `UsableIsEarned` and `DeliveredStaysUsable`: a
  lineage is a tree.
- `/vectors` and `/resync` answer 404 to every error of the lookup, a failing query included,
  and the server turns that into `ErrHSSSubscriberNotFound` ("returned when the HSS doesn't know
  the IMSI", `eapaka/vectors.go:31`) and 403.
- The routes answer 401 to every error of `ValidateToken`. `FOR-Hossein.md:715` tells of a time
  when "database failures look like invalid tokens"; the service distinguishes them now
  (`RefusedForCause`), the reply still does not.
- Without a proxy no temporary token is ever persisted: `created_by_ip` is `INET` and the address
  is `host:port` (`server/helpers.go:30`). The error is dropped.
- The idempotency key has no separator between header and `eap_relay`, and the header is not
  compared with the form of a session ID: a cached reply is found under any division of its
  text into the two. What does hold is `ReplayRepeats`.
- The length in a packet's header has 16 bits and `EncodeEapPacket` cuts what exceeds them
  (`codec.go:184`), so a packet of more than 65535 bytes does not come back as it went in. No
  message of this server comes near.
- `DecodeEapPacket` does not reject an attribute whose length is zero (`codec.go:232`), as
  `DecryptAttributes` does, and such an attribute does not advance its loop. This encoder never
  writes one.
- An application in the request that is named `Vers`, `Token` or `eap_relay` takes the place of
  that key in the JSON reply (`json_builder.go:26`, `routes.go:358`). The models have no such
  application.
- A reply in XML is cached as JSON that holds it (`_xml`) with the EAP-Success next to it. The
  replay has the EAP-Success, the first reply has not.
- `AcquireTemporaryToken` is answered Done on every path; only the token path and
  re-authentication generate one, and no reply carries it.
- A missing row is answered Enabled; the column's default is 0, disabled.
- `CheckEligibility` does not look at the row's status, `AcquirePlan` not at eligibility; the ICCID
  of `ManageSubscription` is the mock SM-DP+'s, that of `AcquireConfiguration` the row's.
- The `entitlement_version` of a POST is never checked; the comment at `middleware.go:53` leaves it
  to the route handler. The application and the operation are not checked either:
  `protocol/request.go` has a type for validated fields that nothing uses.

## Proofs

`ConstantsOK`, in each model, is the only assumption: it names the fault kinds, keeps `None`
apart from the data and asks the numeric constants to be in range (`IdMod`, `MaxCounter`,
`SqnMod`, `WordMod`, `Advance` and `TTL` positive, `WordMod` at most `SqnMod`). `MockHss` also
assumes that no IMSI has the form of a UUID; `EapCodec` that values have at most 63 bytes where
the type does not fix it (the code's own have at most 32) and ciphertexts 16 times that, so that
a length fits into its byte, and that `LengthMod` is positive; `EntitlementRoute`
(`RouteConstantsOK`) that session IDs are headers, that `Text` keeps pairs of a session ID and a
body apart, that right responses are bodies, and that rows are rows. The sets of sessions, vectors, identities, tokens and requests are arbitrary, also
infinite, and so is the choice of faults.

### Full authentication

The invariants of the runs are not inductive: that an identity's keys are answered at the
moment they are stored depends on what the request's copy of the session was when it was
loaded. `IInv` adds what is missing:

- `RequestInv`: what a request at each call may rely on. An accepted one carries a genuine
  answer whose vector is its session copy's vector, and that copy has an owner.
- `SessionInv`: a live session's vector was generated for its IMSI, and a dead one is never
  owned by a subscriber again.
- `WorldInv`: challenges only exist for sessions that were created and vectors that were
  generated; issued identities belong to answered vectors.
- `ReplyInv`: cached and granted replies are earned.

The argument has one lemma per action; each shows every part of `IInv` that the action can
disturb. `Grows` names what all actions share: what the world has seen only increases.

| Theorem | Establishes |
|---|---|
| `Invariance`, `TypeCorrect` | `Spec => []IInv`, `Spec => []TypeOK` |
| `GrantsEarned`, `KeysShared` | `GrantsAreEarned`, `StoredKeysAreShared` |
| `DeadStay` | `DeadSessionsStayDead`, an action property |
| `IdentifierFollows` | `IdentifierFollowsChallenge`, with the invariant `IdentifierInv` |
| `NoReissue` | `NoReissueAfterReply`, provided `"redisWrite" \notin Faults`, with `LateInv` |
| `HashesExpire` | `KeysExpire`, provided `"redisWrite" \notin Faults` |
| `OneIdentity` | `OneIdentityWithoutOverlap`, provided neither `"redisWrite"` nor `"crash"` is in `Faults`, with `OnceInv` |
| `Implements` | `ImplementsPromise`: initial states map to initial states and every step to a step of `AkaPromise` or a stutter |
| `ImplementsEnrolment`, `Enrols` | `Enrolment!Spec`, in the same way, and `EnrolsForReauth`, which is the same where a step touches an identity and asks nothing of the others |

`OneIdentity` follows a vector on its way: fetched and about to be sent (`PendingApart`), in a
session (`SessionsApart`), accepted and about to be turned into an identity (`IssuingApart`),
and spent, in a session that a request is about to delete (`SpentIsDeleted`). At each place
nobody else has it. `NoOverlap` is used for the steps from one place to the next, and the
two hypotheses for the last: a lost DEL or a dead request would leave a spent vector in a
session. TLC finds a violation without either of them.

### Re-authentication

`UsableIsEarned` and `CounterIsDepth` speak of the store, but what is stored at RT2 was read
at RT1 and has been in a session and in a request's memory since. `IInv` of `ReauthProofs`
follows it on that way:

- `RequestInv`: what a request holds at each call. A loaded session is `Backed`: it names two
  identities whose `issued` entries follow each other; a request whose answer was accepted
  carries the counter of the challenge its session was made for, and that session is answered.
- `SessionInv`: a session in Redis is `Backed`, and is the one its challenge was made from.
- `IdentityInv`: a stored identity has its lineage's root and depth, and was earned.
- `ReplyInv`, `ChallengeInv`: replies were offered; a session has at most one challenge, and
  the identities it names follow each other.

Most actions only delete or do nothing (`Shrinks`, `Still`), and two lemmas (`ReturnStep`,
`ContinueStep`) cover all of them; each action that stores something has a lemma of its own.

| Theorem | Establishes |
|---|---|
| `Invariance`, `TypeCorrect` | `Spec => []IInv`, `Spec => []TypeOK` |
| `GrantsOffered`, `UsableEarned`, `CounterDepth` | `GrantsAreOffered`, `UsableIsEarned`, `CounterIsDepth` |
| `OneIdentity` | `OneIdentityPerSession`: what was granted was offered, and a session has one challenge |
| `NoRotation` | `NoRotationAfterReply`, provided `"redisWrite" \notin Faults`, with `LateInv`: a closed session is gone, and stays gone |
| `DeliveredUsable` | `DeliveredStaysUsable`, provided neither `"redisWrite"` nor `"expiry"` is in `Faults`, with `KeptInv` |
| `Implements`, `UnderFaults` | `ImplementsPromise`, step by step as above; `HoldsUnderFaults` |

### The HSS

`OneResyncIsEnough` speaks of an AUTS made for the vector of a resync; `IInv` of
`MockHssProofs` says where both come from. A vector that answers an AUTS, handed out or about
to be, carries `SqnBytes(ResyncSqn(sqn))` of an AUTS of its own subscriber (`Sound`); an AUTS
reports a number no lower than that of the vector it was made for (`AutsSound`). With the cut
to 48 bits ruled out, the second exceeds the first.

| Theorem | Establishes |
|---|---|
| `Invariance`, `TypeCorrect` | `Spec => []IInv`, `Spec => []TypeOK` |
| `OwnUsim`, `OneResync` | `ResyncAnswersOwnUsim`, `OneResyncIsEnough` |
| `OnlyResyncsMove` | `UsimsMoveByResync`, an action property, with `SeededInv`: rows stay as they were seeded, and so does the number of every vector of `/vectors` |

### Tokens

What a request writes to the cache was read from the table, or written there, one call before.
`IInv` of `TokenServiceProofs` says so for each call (`JobOK`): before a SET the table has what
the request holds, before an INSERT it has nothing under that value. `Apart` is what makes the
second stable: a value that is being generated is known to nobody else. The rest is that rows
are never changed.

| Theorem | Establishes |
|---|---|
| `Invariance`, `TypeCorrect` | `Spec => []IInv`, `Spec => []TypeOK` |
| `Backed`, `Cause` | `CacheIsBacked`, `RefusedForCause` |
| `WhileValid` | `AcceptedWhileValid`, an action property |
| `Implements` | `ImplementsPromise` |

### The codec

`RoundTrip` speaks of the end of a loop. `IInv` of `EapCodecProofs` says where the loop stands
before: `WireInv`, each attribute starts where the previous one ends and has the length its
length byte says; `PaddingInv`, what lies after them; `DecodeInv`, the decoder stands at the start
of attribute n with the n-1 before it decoded; `FindInv`, the same of the search for AT_MAC. The
core is arithmetic on one attribute at a time (`AlignedLayout`, `NextAttribute`), by type. The
decoders end where the packet does as long as its length has room in its field (`NothingCut`,
`LimitIs`); of other packets only `TypeOK` is claimed.

| Theorem | Establishes |
|---|---|
| `Invariance`, `TypeCorrect` | `Spec => []IInv`, `Spec => []TypeOK` |
| `RoundTrips`, `DecodesAll`, `MacFound` | `RoundTrip`, `Decodes`, `MacIsWhereItWasRead`, for every list whose packet's length has room in its field |
| `Blocks` | `WholeBlocks`, for every list |
| `RoundsAdvance` | `EveryRoundAdvances`, for the same lists |

### Replies

`RouteInv` has three parts: types, what a goroutine holds at each call (`JobInv`: past
authentication, the right response of its session), and what is cached (`CacheInv`). The
properties of what a reply says are then facts about the tables, for every row: the lemmas go
through the applications in two groups, those with operations (`...Tells`) and those without
(`Plain`), and `Apart` says that no extra parameter of a table has the name of a field it sets.

| Theorem | Establishes |
|---|---|
| `Invariance`, `TypeCorrect` | `Spec => []RouteInv`, `Spec => []TypeOK` |
| `Repeats` | `ReplayRepeats`, an action property |
| `FormatsAlike`, `OffersComplete`, `OffersEligible`, `NothingWithout` | `FormatsAgree`, `OffersAreComplete`, `OffersAreEligible`, `NotEntitledGetsNothing` |

### Only model-checked

Liveness under fairness (`RequestCompletes`, `SessionsReclaimed`, `Terminates`), which TLAPS does
not reach. What is safety in two of them is proved for every instance. `KeysExpire` (every hash has a
TTL, one that `Update` makes of a deleted session included) is why the expiry that
`SessionsReclaimed` waits for is possible. `EveryRoundAdvances` is the variant of `Terminates`:
each round of the three loops finds a length that is positive and stays within the packet, on
the encoder's account, as `DecodeEapPacket` checks only the second and `FindATMACOffset`
neither.

## Plan

What would come next:

1. Re-authentication without overlapping challenges: that a device then holds one usable identity,
   with the hypotheses it takes, as `OneIdentityWithoutOverlap` does for full authentication.
2. The convergence of HSS and device as a liveness property, under fairness of the HSS and of a
   device that keeps trying.
3. The version check of GET, which has no state, and the migration and seeding that run before
   the server, where two instances start at once.

## Not modelled

Bit-level cryptography (`milenage.go`, `keys.go`, envelope encryption, KMS): functions with test
vectors and no state; the models treat their results as functions of what goes in. The layout
and escaping of XML, the Vers block. Reading of the environment, graceful shutdown, logging.
Queries that have no caller (`FindEntitlement`, `ConsumeToken`, `DeleteExpiredTokens`). The audit
middleware, which is never installed. Terraform, Docker and CI.
