------------------------ MODULE ReauthPromiseProofs ------------------------
(***************************************************************************)
(* Reauth implements ReauthPromise, under the mapping of instance Promise: *)
(* initial states map to initial states, and every step of a request or of *)
(* the environment maps to one step of the promise or changes nothing the  *)
(* promise speaks of.                                                      *)
(***************************************************************************)
EXTENDS ReauthProofs

\* The mapping's parts.
Offers == {[from |-> c.rid, to |-> c.next] : c \in challenges}

Proved == {c.next : c \in {d \in challenges : Answered(d)}}

Usable == {i \in ReauthId : reauths[i] # NoReauth}

Delivered == {g.rid : g \in granted}

PromiseStep == [Promise!Next]_(Promise!vars)

LEMMA InitPromise == Init => Promise!Init
  BY DEF Init, Promise!Init, Answered

\* Steps that change none of the variables the mapping reads.
LEMMA Stutter ==
    ASSUME UNCHANGED <<issued, challenges, answered, reauths, granted>>
    PROVE  PromiseStep
<1>1. /\ issued' = issued /\ Offers' = Offers /\ Proved' = Proved
      /\ Usable' = Usable /\ Delivered' = Delivered
  BY DEF Offers, Proved, Usable, Delivered, Answered
<1>2. QED
  BY <1>1
     DEF PromiseStep, Promise!Next, Promise!vars, Offers, Proved, Usable, Delivered

LEMMA StutterSteps ==
    ASSUME NEW r \in Req,
           \/ Token(r) \/ RouteGet(r) \/ HandlerGet(r) \/ HandlerGetFails(r) \/ TokenCheck(r)
           \/ CacheMiss(r) \/ RouteSession(r) \/ FullAuthHandler(r) \/ SessionGet(r)
           \/ SessionGetFails(r) \/ Reject(r) \/ Abandon(r) \/ Restart(r)
           \/ InitialRequest(r) \/ CloseSession(r) \/ Build(r) \/ BuildFails(r)
    PROVE  PromiseStep
<1>1. UNCHANGED <<issued, challenges, answered, reauths, granted>>
  BY DEF Token, RouteGet, HandlerGet, HandlerGetFails, TokenCheck, CacheMiss,
       RouteSession, FullAuthHandler, SessionGet, SessionGetFails, Reject, Abandon, Restart,
       InitialRequest, CloseSession, Build, BuildFails, stores, seen
<1>2. QED
  BY <1>1, Stutter

-----------------------------------------------------------------------------
(* Identities are issued and offered *)

LEMMA EnrolStep ==
    ASSUME IInv, NEW i \in ReauthId, FullAuth(i) \/ FullAuthFails(i)
    PROVE  PromiseStep
<1>1. /\ issued[i] = None
      /\ issued' = [issued EXCEPT ![i] = [root |-> i, depth |-> 1]]
      /\ UNCHANGED <<challenges, answered, granted>>
  BY DEF FullAuth, FullAuthFails, FreshIdentity
<1>2. Offers' = Offers /\ Proved' = Proved /\ Delivered' = Delivered
  BY <1>1 DEF Offers, Proved, Delivered, Answered
<1>3. Usable' = Usable \cup {i} \/ Usable' = Usable
  <2>1. PICK h \in ReauthState : reauths' = [reauths EXCEPT ![i] = h]
    BY Enrolled
  <2>2. reauths[i] = NoReauth /\ reauths \in [ReauthId -> ReauthState]
    BY Enrolled DEF IInv, TypeOK, StoresOK
  <2>3. CASE h = NoReauth
    BY <2>1, <2>2, <2>3 DEF Usable
  <2>4. CASE h # NoReauth
    BY <2>1, <2>2, <2>4 DEF Usable
  <2>5. QED
    BY <2>3, <2>4
<1>4. Promise!Enrol(i)
  BY <1>1, <1>2, <1>3 DEF Promise!Enrol, Offers, Proved, Usable, Delivered
<1>5. QED
  BY <1>4 DEF PromiseStep, Promise!Next

\* A successor is drawn for r's copy of a re-auth state, with or without a challenge.
LEMMA OfferStep ==
    ASSUME IInv, NEW r \in Req, pc[r] = "challenge", NEW i \in ReauthId, IssueNext(r, i),
           \/ Offers' = Offers
           \/ Offers' = Offers \cup {[from |-> loaded[r].rid, to |-> i]},
           Proved' = Proved, UNCHANGED <<reauths, granted>>
    PROVE  PromiseStep
<1> DEFINE copy == loaded[r]
<1>1. From(copy) /\ copy.counter \in Counter
  BY DEF IInv, TypeOK, LocalsOK, ReauthSession, RequestInv, Held
<1>2. [root |-> copy.root, depth |-> copy.counter] \in Lineage
  BY <1>1 DEF From, Lineage
<1>3. /\ issued[copy.rid] = [root |-> copy.root, depth |-> copy.counter]
      /\ issued[copy.rid] # None /\ copy.counter < MaxCounter
  BY <1>1, <1>2, ConstantsOK DEF From
<1>4. /\ issued[i] = None
      /\ issued' = [issued EXCEPT ![i] = [root  |-> issued[copy.rid].root,
                                          depth |-> issued[copy.rid].depth + 1]]
  BY <1>3 DEF IssueNext, FreshIdentity
<1>5. Usable' = Usable /\ Delivered' = Delivered
  BY DEF Usable, Delivered
<1>6. Promise!Offer(copy.rid, i)
  BY <1>3, <1>4, <1>5 DEF Promise!Offer, Offers, Proved, Usable, Delivered
<1>7. QED
  BY <1>1, <1>6 DEF PromiseStep, Promise!Next, From

LEMMA ChallengeStep ==
    ASSUME IInv, NEW r \in Req, CreateSession(r)
    PROVE  PromiseStep
<1>1. PICK s \in Session \ created, i \in ReauthId :
          /\ IssueNext(r, i)
          /\ challenges' = challenges \cup
                 {[sid |-> s, rid |-> loaded[r].rid, next |-> i,
                   counter |-> loaded[r].counter % (MaxCounter + 1)]}
  BY DEF CreateSession
<1>2. pc[r] = "challenge" /\ UNCHANGED <<reauths, answered, granted>>
  BY DEF CreateSession
<1>3. Offers' = Offers \cup {[from |-> loaded[r].rid, to |-> i]}
  <2> DEFINE c == [sid |-> s, rid |-> loaded[r].rid, next |-> i,
                   counter |-> loaded[r].counter % (MaxCounter + 1)]
  <2>1. challenges' = challenges \cup {c} /\ c.rid = loaded[r].rid /\ c.next = i
    BY <1>1
  <2> HIDE DEF c
  <2>2. Offers' = Offers \cup {[from |-> c.rid, to |-> c.next]}
    BY <2>1 DEF Offers
  <2>3. QED
    BY <2>1, <2>2
<1>4. s \notin answered
  BY <1>1 DEF IInv, ChallengeInv
<1>5. Proved' = Proved
  BY <1>1, <1>2, <1>4 DEF Proved, Answered
<1>6. QED
  BY <1>1, <1>2, <1>3, <1>5, OfferStep

LEMMA LostChallengeStep ==
    ASSUME IInv, NEW r \in Req, CreateSessionFails(r)
    PROVE  PromiseStep
<1>1. pc[r] = "challenge" /\ UNCHANGED <<reauths, challenges, answered, granted>>
  BY DEF CreateSessionFails
<1>2. CASE UNCHANGED issued
  BY <1>1, <1>2, Stutter
<1>3. CASE issued' # issued
  <2>1. PICK i \in ReauthId : IssueNext(r, i)
    BY <1>3 DEF CreateSessionFails
  <2>2. Offers' = Offers /\ Proved' = Proved
    BY <1>1 DEF Offers, Proved, Answered
  <2>3. QED
    BY <1>1, <2>1, <2>2, OfferStep
<1>4. QED
  BY <1>2, <1>3

-----------------------------------------------------------------------------
(* Offers are answered, successors used and handed out *)

LEMMA ProveStep ==
    ASSUME IInv, NEW r \in Req, EapRelay(r)
    PROVE  PromiseStep
<1>1. PICK c \in challenges :
          answered' = answered \cup {c.sid} \/ answered' = answered
  BY DEF EapRelay
<1>2. UNCHANGED <<stores, issued, challenges, granted>>
  BY DEF EapRelay
<1>3. CASE answered' = answered
  BY <1>2, <1>3, Stutter DEF stores
<1>4. CASE answered' = answered \cup {c.sid}
  <2>1. \A d \in challenges : d.sid = c.sid => d = c
    BY DEF IInv, ChallengeInv
  <2>2. Proved' = Proved \cup {c.next}
    BY <1>2, <1>4, <2>1 DEF Proved, Answered
  <2>3. Offers' = Offers /\ Usable' = Usable /\ Delivered' = Delivered
    BY <1>2 DEF Offers, Usable, Delivered, stores
  <2>4. [from |-> c.rid, to |-> c.next] \in Offers
    BY DEF Offers
  <2>5. Promise!Prove(c.next)
    BY <1>2, <2>2, <2>3, <2>4 DEF Promise!Prove, Offers, Proved, Usable, Delivered
  <2>6. QED
    BY <2>5 DEF PromiseStep, Promise!Next, IInv, TypeOK, SeenOK, Challenge
<1>5. QED
  BY <1>1, <1>3, <1>4

LEMMA ActivateStep ==
    ASSUME IInv, NEW r \in Req, Store(r) \/ StoreFails(r)
    PROVE  PromiseStep
<1> DEFINE n == loaded[r].next
           new == Rotated(loaded[r])
<1>1. pc[r] = "store" /\ UNCHANGED <<issued, challenges, answered, granted>>
  BY DEF Store, StoreFails, seen
<1>2. PICK h \in PipelineOutcomes(reauths[n], new) : reauths' = [reauths EXCEPT ![n] = h]
  BY DEF Store, StoreFails, PipelineOutcomes
<1>3. /\ Backed(loaded[r]) /\ msg[r].sid \in answered
      /\ \E c \in challenges : c.sid = msg[r].sid /\ Made(c, loaded[r])
  BY <1>1 DEF IInv, RequestInv, Held, Loaded, Accepted
<1>4. n \in ReauthId /\ n \in Proved
  BY <1>3 DEF Backed, Proved, Made, Answered
<1>5. h = reauths[n] \/ h # NoReauth
  <2>1. h = reauths[n] \/ h.root = loaded[r].root
    BY <1>2 DEF PipelineOutcomes, Rotated
  <2>2. loaded[r].root # None
    BY <1>3, ConstantsOK DEF Backed, From
  <2>3. QED
    BY <2>1, <2>2 DEF NoReauth
<1>6. CASE reauths' = reauths
  BY <1>1, <1>6, Stutter
<1>7. CASE reauths' # reauths
  <2>1. h # NoReauth
    BY <1>2, <1>4, <1>5, <1>7 DEF IInv, TypeOK, StoresOK
  <2>2. Usable' = Usable \cup {n}
    BY <1>2, <1>4, <2>1 DEF Usable, IInv, TypeOK, StoresOK
  <2>3. Offers' = Offers /\ Proved' = Proved /\ Delivered' = Delivered
    BY <1>1 DEF Offers, Proved, Delivered, Answered
  <2>4. PICK j \in ReauthId : j = n
    BY <1>4
  <2>5. Promise!Activate(j)
    BY <1>1, <1>4, <2>2, <2>3, <2>4
       DEF Promise!Activate, Offers, Proved, Usable, Delivered
  <2>6. QED
    BY <2>5 DEF PromiseStep, Promise!Next
<1>8. QED
  BY <1>6, <1>7

LEMMA RetireStep ==
    ASSUME IInv, NEW i, NEW h \in {reauths[i], NoReauth},
           reauths' = [reauths EXCEPT ![i] = h],
           UNCHANGED <<issued, challenges, answered, granted>>
    PROVE  PromiseStep
<1>1. CASE reauths' = reauths
  BY <1>1, Stutter
<1>2. CASE reauths' # reauths
  <2>1. i \in ReauthId /\ h = NoReauth
    BY <1>2 DEF IInv, TypeOK, StoresOK
  <2>2. Usable' = Usable \ {i}
    BY <2>1 DEF Usable, IInv, TypeOK, StoresOK
  <2>3. Offers' = Offers /\ Proved' = Proved /\ Delivered' = Delivered
    BY DEF Offers, Proved, Delivered, Answered
  <2>4. Promise!Retire(i)
    BY <2>2, <2>3 DEF Promise!Retire, Offers, Proved, Usable, Delivered
  <2>5. QED
    BY <2>1, <2>4 DEF PromiseStep, Promise!Next
<1>3. QED
  BY <1>1, <1>2

LEMMA RetireSteps ==
    ASSUME IInv, NEW r \in Req,
           GiveUp(r) \/ Forget(r) \/ ForgetRestart(r) \/ Rotate(r)
    PROVE  PromiseStep
<1>1. PICK i : DropIdentity(i)
  BY DEF GiveUp, Forget, ForgetRestart, Rotate
<1>2. UNCHANGED <<issued, challenges, answered, granted>>
  BY DEF GiveUp, Forget, ForgetRestart, Rotate, seen
<1>3. PICK h \in {reauths[i], NoReauth} : reauths' = [reauths EXCEPT ![i] = h]
  BY <1>1 DEF DropIdentity, DelOutcomes
<1>4. QED
  BY <1>2, <1>3, RetireStep

LEMMA DeliverStep ==
    ASSUME IInv, NEW reply \in Reply, Offered(reply), granted' = granted \cup {reply},
           UNCHANGED <<issued, challenges, answered, reauths>>
    PROVE  PromiseStep
<1>1. reply.rid \in ReauthId /\ reply.rid \in Proved
  BY DEF Reply, Offered, Proved
<1>2. Delivered' = Delivered \cup {reply.rid}
  BY DEF Delivered
<1>3. Offers' = Offers /\ Proved' = Proved /\ Usable' = Usable
  BY DEF Offers, Proved, Usable, Answered
<1>4. Promise!Deliver(reply.rid)
  BY <1>1, <1>2, <1>3 DEF Promise!Deliver, Offers, Proved, Usable, Delivered
<1>5. QED
  BY <1>1, <1>4 DEF PromiseStep, Promise!Next

LEMMA DeliverSteps ==
    ASSUME IInv, NEW r \in Req, CacheHit(r) \/ CachePut(r)
    PROVE  PromiseStep
<1>1. CASE CacheHit(r)
  <2>1. PICK e \in Cached(msg[r]) :
            granted' = granted \cup {[msg |-> msg[r], rid |-> e.rid]}
    BY <1>1 DEF CacheHit
  <2>2. e \in cache /\ e \in Reply /\ e.msg = msg[r]
    BY DEF Cached, IInv, TypeOK, StoresOK
  <2>3. granted' = granted \cup {e} /\ Offered(e)
    BY <2>1, <2>2 DEF Reply, IInv, ReplyInv
  <2>4. QED
    BY <1>1, <2>2, <2>3, DeliverStep DEF CacheHit, stores
<1>2. CASE CachePut(r)
  <2> DEFINE reply == [msg |-> msg[r], rid |-> loaded[r].next]
  <2>1. /\ pc[r] = "cachePut" /\ granted' = granted \cup {reply}
        /\ UNCHANGED <<issued, challenges, answered, reauths>>
    BY <1>2 DEF CachePut
  <2>2. /\ Backed(loaded[r]) /\ msg[r].sid \in answered
        /\ \E c \in challenges : c.sid = msg[r].sid /\ Made(c, loaded[r])
        /\ msg[r].kind = "reauth" /\ msg[r].counter = loaded[r].counter
    BY <2>1 DEF IInv, RequestInv, Held, Loaded, Accepted
  <2>3. reply \in Reply
    BY <2>2 DEF Backed, Reply, IInv, TypeOK, LocalsOK
  <2>4. Offered(reply)
    BY <2>2 DEF Offered, Made, Answered
  <2>5. QED
    BY <2>1, <2>3, <2>4, DeliverStep
<1>3. QED
  BY <1>1, <1>2

-----------------------------------------------------------------------------
LEMMA EnvironmentPromise ==
    ASSUME IInv, Environment
    PROVE  PromiseStep
<1>1. ASSUME NEW i \in ReauthId, ExpireReauth(i)
      PROVE  PromiseStep
  BY <1>1, RetireStep DEF ExpireReauth, seen
<1>2. CASE \/ \E s \in Session : ExpireSession(s)
           \/ \E e \in cache : ExpireCache(e)
           \/ Crash
  BY <1>2, Stutter DEF ExpireSession, ExpireCache, Crash, stores, seen
<1>3. QED
  BY <1>1, <1>2, EnrolStep DEF Environment

LEMMA NextPromise == IInv /\ [Next]_vars => PromiseStep
<1> SUFFICES ASSUME IInv, [Next]_vars
             PROVE  PromiseStep
  OBVIOUS
<1>1. ASSUME NEW r \in Req, Token(r) \/ EapRelay(r) \/ Serve(r)
      PROVE  PromiseStep
  BY <1>1, StutterSteps, ChallengeStep, LostChallengeStep, ProveStep, ActivateStep,
     RetireSteps, DeliverSteps
     DEF Serve
<1>2. CASE UNCHANGED vars
  BY <1>2, Stutter DEF vars, stores, seen
<1>3. QED
  BY <1>1, <1>2, EnvironmentPromise DEF Next

\* The server's re-authentication, with all its requests, sessions, caches and faults,
\* implements the promise: it is the abstract specification under the mapping Promise.
THEOREM Implements == Spec => ImplementsPromise
<1>1. IInv /\ [Next]_vars => [Promise!Next]_(Promise!vars)
  BY NextPromise DEF PromiseStep
<1>2. QED
  BY <1>1, InitPromise, Invariance, PTL DEF Spec, Promise!Spec, ImplementsPromise

\* Whatever fails, is written in part or expires, for any number of requests and sessions:
\* replies and stored identities are sound, and the promise is kept.
THEOREM UnderFaults == Spec => HoldsUnderFaults
<1>1. Spec => [](GrantsAreOffered /\ OneIdentityPerSession /\ UsableIsEarned /\ CounterIsDepth)
  BY GrantsOffered, OneIdentity, UsableEarned, CounterDepth, PTL
<1>2. QED
  BY <1>1, Implements DEF HoldsUnderFaults
=============================================================================
