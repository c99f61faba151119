------------------------- MODULE EapAkaPromiseProofs -------------------------
(***************************************************************************)
(* EapAka implements AkaPromise, for every value of the constants: each    *)
(* step of the server is a step of the promise or changes nothing it       *)
(* speaks of.                                                             *)
(***************************************************************************)
EXTENDS EapAkaProofs

\* A step of which the promise sees nothing.
Silent == UNCHANGED <<vectors, answered, issued, granted>>

LEMMA SilentStutters == Silent => UNCHANGED Promise!vars
  BY DEF Silent, Promise!vars

LEMMA InitPromise == Init => Promise!Init
  BY DEF Init, Promise!Init

LEMMA GenerateStep ==
    ASSUME IInv, NEW r \in Req, FetchVectors(r) \/ Resync(r)
    PROVE  Promise!Next
<1>1. PICK v \in Vec, imsi \in Imsi :
          /\ FreshVector(v)
          /\ vectors' = [vectors EXCEPT ![v] = imsi]
  <2>1. CASE FetchVectors(r)
    BY <2>1, ConstantsOK DEF FetchVectors, TakeVector
  <2>2. CASE Resync(r)
    BY <2>2, ConstantsOK DEF Resync, TakeVector, IInv, RequestInv, SessionInv, Owned
  <2>3. QED
    BY <2>1, <2>2
<1>2. UNCHANGED <<answered, issued, granted>>
  BY DEF FetchVectors, Resync
<1>3. Promise!Generate(v, imsi)
  BY <1>1, <1>2 DEF Promise!Generate, FreshVector
<1>4. QED
  BY <1>3 DEF Promise!Next

LEMMA AnswerStep ==
    ASSUME IInv, NEW r \in Req, EapRelay(r)
    PROVE  Promise!Next \/ UNCHANGED Promise!vars
<1>1. UNCHANGED <<vectors, issued, granted>>
  BY DEF EapRelay
<1>2. PICK c \in challenges : answered' \in {answered, answered \cup {c.vec}}
  BY DEF EapRelay
<1>3. c.vec \in Vec /\ vectors[c.vec] # None
  BY ConstantsOK DEF IInv, TypeOK, SeenOK, WorldInv, Challenge
<1>4. CASE answered' = answered
  BY <1>1, <1>4, SilentStutters DEF Silent
<1>5. CASE answered' = answered \cup {c.vec}
  <2>1. Promise!Answer(c.vec)
    BY <1>1, <1>3, <1>5 DEF Promise!Answer
  <2>2. QED
    BY <1>3, <2>1 DEF Promise!Next
<1>6. QED
  BY <1>2, <1>4, <1>5

LEMMA IssueStep ==
    ASSUME IInv, NEW r \in Req, Store(r) \/ StoreFails(r)
    PROVE  Promise!Next \/ UNCHANGED Promise!vars
<1>1. pc[r] \in Accepted /\ UNCHANGED <<vectors, answered, granted>>
  BY DEF Store, StoreFails, Accepted
<1>2. CASE UNCHANGED issued
  BY <1>1, <1>2, SilentStutters DEF Silent
<1>3. CASE ~ UNCHANGED issued
  <2>1. PICK i \in ReauthId :
            /\ issued[i] = None
            /\ issued' = [issued EXCEPT ![i] = [imsi |-> loaded[r].imsi,
                                                vec  |-> loaded[r].vec]]
    BY <1>3 DEF Store, StoreFails
  <2>2. /\ loaded[r].vec \in answered /\ loaded[r].vec \in Vec
        /\ loaded[r].imsi = vectors[loaded[r].vec]
    BY <1>1, IssueOwned
  <2>3. Promise!Issue(i, loaded[r].vec)
    BY <1>1, <2>1, <2>2 DEF Promise!Issue
  <2>4. QED
    BY <2>1, <2>2, <2>3 DEF Promise!Next
<1>4. QED
  BY <1>2, <1>3

\* What the promise sees of a reply.
Seen(replies) == {[vec |-> g.msg.res, rid |-> g.rid] : g \in replies}

LEMMA SeenAdds ==
    ASSUME NEW replies, NEW g
    PROVE  Seen(replies \cup {g}) =
               Seen(replies) \cup {[vec |-> g.msg.res, rid |-> g.rid]}
  BY DEF Seen

LEMMA DeliverStep ==
    ASSUME IInv, NEW r \in Req, CacheHit(r) \/ CachePut(r)
    PROVE  Promise!Next
<1>1. UNCHANGED <<vectors, answered, issued>>
  BY DEF CacheHit, CachePut
<1>2. IInv'
  BY CacheHitStep, CachePutStep
<1>3. PICK reply : granted' = granted \cup {reply}
  BY DEF CacheHit, CachePut
<1>4. reply \in Reply /\ (Earned(reply))'
  BY <1>2, <1>3 DEF IInv, TypeOK, SeenOK, ReplyInv
<1>5. /\ reply.rid \in ReauthId /\ reply.msg.res \in answered
      /\ issued[reply.rid] = [imsi |-> vectors[reply.msg.res], vec |-> reply.msg.res]
  BY <1>1, <1>4 DEF Earned, Reply
<1>6. issued[reply.rid] # None /\ issued[reply.rid].vec = reply.msg.res
  <2>1. vectors[reply.msg.res] \in Imsi /\ reply.msg.res \in Vec
    BY <1>5, ConstantsOK DEF IInv, TypeOK, SeenOK, WorldInv
  <2>2. [imsi |-> vectors[reply.msg.res], vec |-> reply.msg.res] \in Identity
    BY <2>1 DEF Identity
  <2>3. QED
    BY <1>5, <2>2, ConstantsOK
<1>7. Seen(granted') =
          Seen(granted) \cup {[vec |-> issued[reply.rid].vec, rid |-> reply.rid]}
  BY <1>3, <1>6, SeenAdds
<1>8. Promise!Deliver(reply.rid)
  BY <1>1, <1>6, <1>7 DEF Promise!Deliver, Seen
<1>9. QED
  BY <1>5, <1>8 DEF Promise!Next

LEMMA StepPromise ==
    ASSUME IInv, [Next]_vars
    PROVE  [Promise!Next]_(Promise!vars)
<1>1. ASSUME NEW r \in Req, Initial(r) \/ EapRelay(r) \/ Serve(r)
      PROVE  Promise!Next \/ UNCHANGED Promise!vars
  <2>1. CASE FetchVectors(r) \/ Resync(r)
    BY <2>1, GenerateStep
  <2>2. CASE EapRelay(r)
    BY <2>2, AnswerStep
  <2>3. CASE Store(r) \/ StoreFails(r)
    BY <2>3, IssueStep
  <2>4. CASE CacheHit(r) \/ CachePut(r)
    BY <2>4, DeliverStep
  <2>5. CASE \/ Initial(r) \/ FetchVectorsFails(r) \/ CacheMiss(r) \/ SessionGet(r)
             \/ SessionGetFails(r) \/ Reject(r) \/ ResyncFails(r) \/ Lookup(r)
             \/ DeleteSession(r) \/ Build(r) \/ BuildFails(r)
    <3>1. Silent
      BY <2>5 DEF Silent, Initial, FetchVectorsFails, CacheMiss, SessionGet,
           SessionGetFails, Reject, ResyncFails, Lookup, DeleteSession, Build,
           BuildFails, seen
    <3>2. QED
      BY <3>1, SilentStutters
  <2>6. CASE CreateSession(r) \/ CreateSessionFails(r) \/ Update(r)
    BY <2>6, SilentStutters DEF Silent, CreateSession, CreateSessionFails, Update
  <2>7. QED
    BY <1>1, <2>1, <2>2, <2>3, <2>4, <2>5, <2>6 DEF Serve
<1>2. CASE Environment
  BY <1>2, SilentStutters
     DEF Silent, Environment, ExpireSession, ExpireReauth, ExpireCache, Crash, seen
<1>3. CASE UNCHANGED vars
  BY <1>3, SilentStutters DEF Silent, vars, seen
<1>4. QED
  BY <1>1, <1>2, <1>3 DEF Next

\* The server implements the promise, for every value of the constants: identities
\* are issued only against answered vectors, to the vector's subscriber, and handed
\* out only for an answer to that vector, whatever interleaves, fails or restarts.
THEOREM Implements == Spec => ImplementsPromise
  BY InitPromise, StepPromise, Invariance, PTL DEF Spec, ImplementsPromise, Promise!Spec

-----------------------------------------------------------------------------
(* What re-authentication takes for granted *)

\* The mapping's parts: the lineage of an identity and the hash under it.
FirstOf(i) == [root |-> i, depth |-> 1]

Lineages == [i \in ReauthId |-> IF issued[i] = None THEN None ELSE FirstOf(i)]

HashOf(i, h) ==
    [root |-> IF h.vec = None THEN None ELSE i, counter |-> h.counter, ttl |-> h.ttl]

Hashes == [i \in ReauthId |-> HashOf(i, reauths[i])]

EnrolmentStep == [Enrolment!Next]_(Enrolment!vars)

LEMMA InitEnrolment == Init => Enrolment!Init
  BY DEF Init, Enrolment!Init, NoReauth, Enrolment!NoReauth

\* Steps that touch no identity.
LEMMA EnrolmentStutters ==
    ASSUME UNCHANGED <<issued, reauths>>
    PROVE  EnrolmentStep
<1>1. Lineages' = Lineages /\ Hashes' = Hashes
  BY DEF Lineages, Hashes, HashOf
<1>2. UNCHANGED Enrolment!vars
  BY <1>1 DEF Enrolment!vars, Enrolment!locals, Enrolment!stores, Enrolment!seen,
       Lineages, FirstOf, Hashes, HashOf
<1>3. QED
  BY <1>2 DEF EnrolmentStep

\* A fresh identity is issued and at most its own hash is written: with a TTL, or
\* without one when Redis fails.
LEMMA EnrolmentEnrols ==
    ASSUME IInv, NEW r \in Req, NEW i \in ReauthId, pc[r] \in Accepted,
           issued[i] = None,
           issued' = [issued EXCEPT ![i] = [imsi |-> loaded[r].imsi,
                                            vec  |-> loaded[r].vec]],
           NEW h, reauths' = [reauths EXCEPT ![i] = h],
           \/ h = NewReauth(loaded[r])
           \/ Faulty("redisWrite") /\ h \in PipelineOutcomes(reauths[i], NewReauth(loaded[r]))
    PROVE  EnrolmentStep
<1> DEFINE new == NewReauth(loaded[r])
           state == [root |-> i, counter |-> 1, ttl |-> TRUE]
<1>1. /\ [imsi |-> loaded[r].imsi, vec |-> loaded[r].vec] # None
      /\ loaded[r].vec # None
  BY IssueOwned, ConstantsOK
<1>2. Lineages[i] = None /\ Lineages' = [Lineages EXCEPT ![i] = FirstOf(i)]
  BY <1>1 DEF Lineages, IInv, TypeOK, SeenOK
<1>3. Hashes' = [Hashes EXCEPT ![i] = HashOf(i, h)]
  BY DEF Hashes, IInv, TypeOK, StoresOK
<1>4. HashOf(i, new) = state
  BY <1>1 DEF HashOf, NewReauth
<1>5. CASE h = new
  <2>1. Enrolment!FullAuth(i)
    BY <1>2, <1>3, <1>4, <1>5
       DEF Enrolment!FullAuth, Enrolment!FreshIdentity, Enrolment!locals, Lineages, Hashes,
           FirstOf, HashOf
  <2>2. QED
    BY <2>1 DEF EnrolmentStep, Enrolment!Next, Enrolment!Environment
<1>6. CASE h # new
  <2>1. HashOf(i, h) \in Enrolment!PipelineOutcomes(Hashes[i], state)
    <3>1. h \in {reauths[i], [new EXCEPT !.ttl = reauths[i].ttl]}
      BY <1>6 DEF PipelineOutcomes
    <3>2. HashOf(i, [new EXCEPT !.ttl = reauths[i].ttl]) =
              [state EXCEPT !.ttl = Hashes[i].ttl]
      BY <1>1 DEF HashOf, NewReauth, Hashes
    <3>3. HashOf(i, reauths[i]) = Hashes[i]
      BY DEF Hashes
    <3>4. QED
      BY <3>1, <3>2, <3>3 DEF Enrolment!PipelineOutcomes
  <2>2. Enrolment!FullAuthFails(i)
    BY <1>2, <1>3, <1>6, <2>1
       DEF Enrolment!FullAuthFails, Enrolment!FreshIdentity, Enrolment!locals,
           Enrolment!Faulty, Faulty, Lineages, Hashes, FirstOf, HashOf
  <2>3. QED
    BY <2>2 DEF EnrolmentStep, Enrolment!Next, Enrolment!Environment
<1>7. QED
  BY <1>5, <1>6

LEMMA EnrolmentStores ==
    ASSUME IInv, NEW r \in Req, Store(r) \/ StoreFails(r)
    PROVE  EnrolmentStep
<1>1. pc[r] \in Accepted
  BY DEF Store, StoreFails, Accepted
<1>2. CASE Store(r)
  <2>1. PICK i \in ReauthId :
            /\ issued[i] = None
            /\ issued' = [issued EXCEPT ![i] = [imsi |-> loaded[r].imsi,
                                                vec  |-> loaded[r].vec]]
            /\ reauths' = [reauths EXCEPT ![i] = NewReauth(loaded[r])]
    BY <1>2 DEF Store
  <2>2. QED
    BY <1>1, <2>1, EnrolmentEnrols
<1>3. CASE StoreFails(r)
  <2>1. CASE UNCHANGED <<reauths, issued>>
    BY <2>1, EnrolmentStutters
  <2>2. CASE ~ UNCHANGED <<reauths, issued>>
    <3>1. Faulty("redisWrite")
      BY <1>3, <2>2 DEF StoreFails
    <3>2. PICK i \in ReauthId :
              /\ issued[i] = None
              /\ issued' = [issued EXCEPT ![i] = [imsi |-> loaded[r].imsi,
                                                  vec  |-> loaded[r].vec]]
              /\ \E h \in PipelineOutcomes(reauths[i], NewReauth(loaded[r])) :
                   reauths' = [reauths EXCEPT ![i] = h]
      BY <1>3, <2>2 DEF StoreFails
    <3>3. PICK h \in PipelineOutcomes(reauths[i], NewReauth(loaded[r])) :
              reauths' = [reauths EXCEPT ![i] = h]
      BY <3>2
    <3>4. QED
      BY <1>1, <3>1, <3>2, <3>3, EnrolmentEnrols
  <2>3. QED
    BY <2>1, <2>2
<1>4. QED
  BY <1>2, <1>3

LEMMA EnrolmentExpires ==
    ASSUME IInv, NEW i \in ReauthId, ExpireReauth(i)
    PROVE  EnrolmentStep
<1>1. /\ Faulty("expiry") /\ reauths[i].ttl /\ issued' = issued
      /\ reauths' = [reauths EXCEPT ![i] = NoReauth]
  BY DEF ExpireReauth, seen
<1>2. HashOf(i, NoReauth) = Enrolment!NoReauth
  BY DEF HashOf, NoReauth, Enrolment!NoReauth
<1>3. Hashes' = [Hashes EXCEPT ![i] = Enrolment!NoReauth] /\ Lineages' = Lineages
  BY <1>1, <1>2 DEF Hashes, Lineages, IInv, TypeOK, StoresOK
<1>4. Hashes[i].ttl
  BY <1>1 DEF Hashes, HashOf
<1>5. Enrolment!ExpireReauth(i)
  BY <1>1, <1>3, <1>4
     DEF Enrolment!ExpireReauth, Enrolment!locals, Enrolment!seen, Enrolment!Faulty, Faulty,
         Lineages, Hashes, FirstOf, HashOf
<1>6. QED
  BY <1>5 DEF EnrolmentStep, Enrolment!Next, Enrolment!Environment

LEMMA StepEnrolment ==
    ASSUME IInv, [Next]_vars
    PROVE  EnrolmentStep
<1>1. ASSUME NEW r \in Req, Initial(r) \/ EapRelay(r) \/ Serve(r),
             ~ (Store(r) \/ StoreFails(r))
      PROVE  EnrolmentStep
  <2>1. UNCHANGED <<issued, reauths>>
    BY <1>1 DEF Serve, Initial, EapRelay, FetchVectors, FetchVectorsFails, CreateSession,
         CreateSessionFails, CacheHit, CacheMiss, SessionGet, SessionGetFails, Reject,
         Resync, ResyncFails, Update, Lookup, DeleteSession, Build, BuildFails, CachePut,
         stores, seen
  <2>2. QED
    BY <2>1, EnrolmentStutters
<1>2. CASE \/ \E s \in Session : ExpireSession(s)
           \/ \E e \in cache : ExpireCache(e)
           \/ Crash
           \/ UNCHANGED vars
  BY <1>2, EnrolmentStutters DEF ExpireSession, ExpireCache, Crash, vars, stores, seen
<1>3. QED
  BY <1>1, <1>2, EnrolmentStores, EnrolmentExpires DEF Next, Environment

\* Full authentication, with all its sessions, resyncs, copies and faults, is what module
\* Reauth assumes of it: all it does to the identities is to issue fresh ones as the first
\* of their lineage, with counter 1, and to let them expire.
THEOREM ImplementsEnrolment == Spec => Enrolment!Spec
<1>1. IInv /\ [Next]_vars => [Enrolment!Next]_(Enrolment!vars)
  BY StepEnrolment DEF EnrolmentStep
<1>2. QED
  BY <1>1, InitEnrolment, Invariance, PTL DEF Spec, Enrolment!Spec

\* The same as TLC checks it, which looks only at the steps that touch an identity.
THEOREM Enrols == Spec => EnrolsForReauth
<1>1. IInv /\ [Next]_vars =>
        [UNCHANGED <<issued, reauths>> \/ [Enrolment!Next]_(Enrolment!vars)]_vars
  BY StepEnrolment DEF EnrolmentStep
<1>2. QED
  BY <1>1, InitEnrolment, Invariance, PTL DEF Spec, EnrolsForReauth
=============================================================================
