---------------------------- MODULE ReauthProofs ----------------------------
(***************************************************************************)
(* Proofs about module Reauth for every number of identities, sessions and *)
(* concurrent requests, every counter range and every set of faults.  The  *)
(* inductive invariant IInv ties every copy of a re-auth session, in Redis *)
(* or in a goroutine, to the challenge made from it and to the lineage of  *)
(* the two identities it names.                                            *)
(***************************************************************************)
EXTENDS Reauth, TLAPS

\* The calls of a request that has loaded its session, and those of any relay.
Loaded ==
    {"reject", "abandon", "forget", "restart", "forgetRestart", "initial"} \cup Accepted

Relay == {"cacheGet", "routeSession", "fullAuth", "sessionGet"} \cup Loaded

\* The calls that look a token up as an identity.
Identified == {"routeGet", "handlerGet"}

\* The depth of the identity a copy of a re-auth state was read from.
From(copy) ==
    /\ copy.rid \in ReauthId /\ copy.root \in ReauthId
    /\ copy.counter < MaxCounter
    /\ issued[copy.rid] = [root |-> copy.root, depth |-> copy.counter]

\* A session names an identity and its successor.
Backed(session) ==
    /\ From(session)
    /\ session.next \in ReauthId
    /\ issued[session.next] = [root |-> session.root, depth |-> session.counter + 1]

\* Challenge c was made from this session.
Made(c, session) ==
    c.rid = session.rid /\ c.next = session.next /\ c.counter = session.counter

\* Request r answers challenge c.
AnswerTo(r, c) ==
    /\ c.sid = msg[r].sid
    /\ msg[r].kind = "reauth" /\ msg[r].counter = c.counter => Answered(c)

\* What request r has in hand before its next call.
Held(r) ==
    /\ pc[r] \in Identified => msg[r].rid \in ReauthId
    /\ pc[r] = "challenge" => From(loaded[r])
    /\ pc[r] \in Relay =>
           /\ msg[r].kind \in {"reauth", "tooSmall", "authReject", "bad"}
           /\ \E c \in challenges : AnswerTo(r, c)
    /\ pc[r] \in Loaded =>
           /\ Backed(loaded[r])
           /\ \E c \in challenges : c.sid = msg[r].sid /\ Made(c, loaded[r])
    /\ pc[r] \in Accepted =>
           /\ msg[r].kind = "reauth" /\ msg[r].counter = loaded[r].counter
           /\ msg[r].sid \in answered

RequestInv == \A r \in Req : Held(r)

\* A session in Redis is the one its challenge was made from.
SessionInv ==
    \A s \in Session :
        rsessions[s] # NoSession =>
            /\ s \in created
            /\ Backed(rsessions[s])
            /\ \A c \in challenges : c.sid = s => Made(c, rsessions[s])

\* The lineage of an identity in Redis, and how it came to be there.
IdentityInv ==
    \A i \in ReauthId :
        reauths[i] # NoReauth =>
            /\ reauths[i].root \in ReauthId
            /\ issued[i] = [root |-> reauths[i].root, depth |-> reauths[i].counter]
            /\ \/ issued[i].root = i
               \/ \E c \in challenges : c.next = i /\ Answered(c)

ReplyInv == \A reply \in cache \cup granted : Offered(reply)

ChallengeInv ==
    /\ answered \subseteq created
    /\ \A c \in challenges :
         /\ c.sid \in created
         /\ c.counter < MaxCounter
         /\ issued[c.rid] # None /\ issued[c.rid].depth = c.counter
         /\ issued[c.next] = [root |-> issued[c.rid].root, depth |-> c.counter + 1]
    /\ \A c, d \in challenges : c.sid = d.sid => c = d

\* The inductive invariant.
IInv == TypeOK /\ RequestInv /\ SessionInv /\ IdentityInv /\ ReplyInv /\ ChallengeInv

-----------------------------------------------------------------------------
(* Facts the steps share *)

LEMMA ConstantRecords ==
    /\ NoSession \in ReauthSession
    /\ NoReauth \in ReauthState
    /\ NoMsg \in Message
  BY ConstantsOK DEF NoSession, ReauthSession, NoReauth, ReauthState, NoMsg, Msg, Message,
       Counter

\* What the rest of the world has seen is never taken back.
Grows ==
    /\ created \subseteq created'
    /\ challenges \subseteq challenges'
    /\ answered \subseteq answered'
    /\ \A i \in ReauthId : issued[i] # None => issued'[i] = issued[i]

\* What most steps leave alone.
Still == UNCHANGED <<issued, created, challenges, answered>>

LEMMA StillGrows == Still => Grows
  BY DEF Still, Grows

LEMMA FromStays ==
    ASSUME Grows, NEW copy \in ReauthSession, From(copy)
    PROVE  From(copy)'
<1>1. copy.counter \in Counter
  BY DEF ReauthSession
<1>2. [root |-> copy.root, depth |-> copy.counter] \in Lineage
  BY <1>1 DEF From, Lineage
<1>3. issued[copy.rid] # None
  BY <1>2, ConstantsOK DEF From
<1>4. QED
  BY <1>3 DEF From, Grows

LEMMA BackedStays ==
    ASSUME Grows, NEW session \in ReauthSession, Backed(session)
    PROVE  Backed(session)'
<1>1. session.counter + 1 \in Counter
  BY ConstantsOK DEF ReauthSession, Backed, From, Counter
<1>2. [root |-> session.root, depth |-> session.counter + 1] \in Lineage
  BY <1>1 DEF Backed, From, Lineage
<1>3. issued[session.next] # None
  BY <1>2, ConstantsOK DEF Backed
<1>4. QED
  BY <1>3, FromStays DEF Backed, Grows

LEMMA OfferedStays ==
    ASSUME Grows, NEW reply, Offered(reply)
    PROVE  Offered(reply)'
  BY DEF Offered, Answered, Grows

\* A request that does not move keeps what it holds.
LEMMA HeldStays ==
    ASSUME LocalsOK, Grows, NEW q \in Req, Held(q),
           pc'[q] = pc[q], msg'[q] = msg[q], loaded'[q] = loaded[q]
    PROVE  Held(q)'
<1>1. loaded[q] \in ReauthSession
  BY DEF LocalsOK
<1>2. From(loaded[q]) => From(loaded[q])'
  BY <1>1, FromStays DEF From
<1>3. Backed(loaded[q]) => Backed(loaded[q])'
  BY <1>1, BackedStays DEF Backed, From
<1>4. QED
  BY <1>2, <1>3 DEF Held, AnswerTo, Answered, Made, Grows

\* A request whose handler returns holds nothing.
LEMMA FinishRequest ==
    ASSUME LocalsOK, RequestInv, Grows, NEW r \in Req, Finish(r)
    PROVE  LocalsOK' /\ RequestInv'
<1>1. LocalsOK'
  BY ConstantRecords DEF LocalsOK, Finish, Goto, Calls
<1>2. ASSUME NEW q \in Req
      PROVE  Held(q)'
  <2>1. CASE q = r
    BY <2>1 DEF LocalsOK, Finish, Goto, Held, Identified, Relay, Loaded, Accepted
  <2>2. CASE q # r
    <3>1. pc'[q] = pc[q] /\ msg'[q] = msg[q] /\ loaded'[q] = loaded[q]
      BY <2>2 DEF LocalsOK, Finish, Goto
    <3>2. QED
      BY <3>1, HeldStays DEF RequestInv
  <2>3. QED
    BY <2>1, <2>2
<1>3. QED
  BY <1>1, <1>2 DEF RequestInv

\* The calls that ask no more of a request than the call it makes now.
Follows(r, call) ==
    /\ call \in Calls \ {"challenge"}
    /\ call \in Identified => pc[r] \in Identified
    /\ call \in Relay => pc[r] \in Relay
    /\ call \in Loaded => pc[r] \in Loaded
    /\ call \in Accepted => pc[r] \in Accepted

LEMMA GotoRequest ==
    ASSUME LocalsOK, RequestInv, Grows, NEW r \in Req, NEW call, Follows(r, call),
           Goto(r, call), UNCHANGED locals
    PROVE  LocalsOK' /\ RequestInv'
<1>1. LocalsOK'
  BY DEF LocalsOK, Goto, locals, Follows
<1>2. ASSUME NEW q \in Req
      PROVE  Held(q)'
  <2>1. loaded[q] \in ReauthSession /\ Held(q)
    BY DEF LocalsOK, RequestInv
  <2>2. Backed(loaded[q]) => Backed(loaded[q])'
    BY <2>1, BackedStays DEF Backed, From, locals
  <2>3. CASE q = r
    BY <2>1, <2>2, <2>3
       DEF LocalsOK, Goto, locals, Held, Follows, AnswerTo, Answered, Made, Grows
  <2>4. CASE q # r
    <3>1. pc'[q] = pc[q] /\ msg'[q] = msg[q] /\ loaded'[q] = loaded[q]
      BY <2>4 DEF LocalsOK, Goto, locals
    <3>2. QED
      BY <2>1, <3>1, HeldStays
  <2>5. QED
    BY <2>3, <2>4
<1>3. QED
  BY <1>1, <1>2 DEF RequestInv

\* No hash is new: each is as it was, or gone.
Shrinks ==
    /\ reauths' \in [ReauthId -> ReauthState]
    /\ rsessions' \in [Session -> ReauthSession]
    /\ \A i \in ReauthId : reauths'[i] \in {reauths[i], NoReauth}
    /\ \A s \in Session : rsessions'[s] \in {rsessions[s], NoSession}
    /\ cache' \subseteq cache

LEMMA ShrinkingStores ==
    ASSUME StoresOK, SeenOK, SessionInv, IdentityInv, ReplyInv, ChallengeInv, Shrinks,
           Still, granted' = granted, closed' \subseteq Session
    PROVE  /\ StoresOK' /\ SeenOK'
           /\ SessionInv' /\ IdentityInv' /\ ReplyInv' /\ ChallengeInv'
<1>1. StoresOK' /\ SeenOK'
  BY DEF StoresOK, SeenOK, Shrinks, Still
<1>2. SessionInv'
  BY DEF SessionInv, Shrinks, Still, Backed, From, Made
<1>3. IdentityInv'
  BY DEF IdentityInv, Shrinks, Still, Answered
<1>4. ReplyInv'
  BY DEF ReplyInv, Shrinks, Still, Offered, Answered
<1>5. ChallengeInv'
  BY DEF ChallengeInv, Still
<1>6. QED
  BY <1>1, <1>2, <1>3, <1>4, <1>5

LEMMA UnchangedShrinks ==
    ASSUME StoresOK, UNCHANGED stores
    PROVE  Shrinks
  BY DEF StoresOK, Shrinks, stores

LEMMA DropSessionShrinks ==
    ASSUME StoresOK, NEW s, DropSession(s), UNCHANGED <<reauths, cache>>
    PROVE  Shrinks
<1>1. PICK h \in DelOutcomes(rsessions[s], NoSession) :
          rsessions' = [rsessions EXCEPT ![s] = h]
  BY DEF DropSession
<1>2. h \in {rsessions[s], NoSession}
  BY <1>1 DEF DelOutcomes
<1>3. QED
  BY <1>1, <1>2, ConstantRecords DEF StoresOK, Shrinks

LEMMA DropIdentityShrinks ==
    ASSUME StoresOK, NEW i, DropIdentity(i), UNCHANGED <<rsessions, cache>>
    PROVE  Shrinks
<1>1. PICK h \in DelOutcomes(reauths[i], NoReauth) :
          reauths' = [reauths EXCEPT ![i] = h]
  BY DEF DropIdentity
<1>2. h \in {reauths[i], NoReauth}
  BY <1>1 DEF DelOutcomes
<1>3. QED
  BY <1>1, <1>2, ConstantRecords DEF StoresOK, Shrinks

-----------------------------------------------------------------------------
(* Steps that store nothing *)

\* A handler returns; it has deleted something or nothing.
LEMMA ReturnStep ==
    ASSUME IInv, NEW r \in Req, Finish(r), Shrinks, Still, granted' = granted,
           closed' \subseteq Session
    PROVE  IInv'
<1>1. LocalsOK' /\ RequestInv'
  BY StillGrows, FinishRequest DEF IInv, TypeOK
<1>2. QED
  BY <1>1, ShrinkingStores DEF IInv, TypeOK

\* A handler goes on to its next call; it has deleted something or nothing.
LEMMA ContinueStep ==
    ASSUME IInv, NEW r \in Req, NEW call, Follows(r, call), Goto(r, call),
           UNCHANGED locals, Shrinks, Still, granted' = granted, closed' = closed
    PROVE  IInv'
<1>1. LocalsOK' /\ RequestInv'
  BY StillGrows, GotoRequest DEF IInv, TypeOK
<1>2. closed' \subseteq Session
  BY DEF IInv, TypeOK, SeenOK
<1>3. QED
  BY <1>1, <1>2, ShrinkingStores DEF IInv, TypeOK

\* The session a relay names.
LEMMA RelaySession ==
    ASSUME IInv, NEW r \in Req, pc[r] \in Relay
    PROVE  msg[r].sid \in Session
  BY DEF IInv, TypeOK, SeenOK, RequestInv, Held, AnswerTo, Challenge

LEMMA ReturnSteps ==
    ASSUME IInv, NEW r \in Req,
           \/ TokenCheck(r) \/ HandlerGetFails(r) \/ FullAuthHandler(r)
           \/ SessionGetFails(r) \/ BuildFails(r) \/ InitialRequest(r)
           \/ Reject(r) \/ Forget(r)
    PROVE  IInv'
<1>1. CASE \/ TokenCheck(r) \/ HandlerGetFails(r) \/ FullAuthHandler(r)
           \/ SessionGetFails(r) \/ BuildFails(r)
  <2>1. Finish(r) /\ UNCHANGED <<stores, seen>>
    BY <1>1 DEF TokenCheck, HandlerGetFails, FullAuthHandler, SessionGetFails, BuildFails
  <2>2. /\ Shrinks /\ Still /\ granted' = granted
        /\ closed' \subseteq Session
    BY <2>1, UnchangedShrinks DEF Still, seen, IInv, TypeOK, SeenOK
  <2>3. QED
    BY <2>1, <2>2, ReturnStep
<1>2. CASE InitialRequest(r) \/ Reject(r) \/ Forget(r)
  <2>1. /\ Finish(r) /\ Close(msg[r].sid) /\ Still /\ granted' = granted
        /\ pc[r] \in Relay
    BY <1>2 DEF InitialRequest, Reject, Forget, Still, Relay, Loaded
  <2>2. Shrinks
    BY <1>2, UnchangedShrinks, DropSessionShrinks, DropIdentityShrinks
       DEF InitialRequest, Reject, Forget, IInv, TypeOK
  <2>3. closed' \subseteq Session
    BY <2>1, RelaySession DEF Close, IInv, TypeOK, SeenOK
  <2>4. QED
    BY <2>1, <2>2, <2>3, ReturnStep
<1>3. QED
  BY <1>1, <1>2

LEMMA ContinueSteps ==
    ASSUME IInv, NEW r \in Req,
           \/ RouteGet(r) \/ GiveUp(r) \/ CacheMiss(r) \/ RouteSession(r) \/ Build(r)
           \/ Abandon(r) \/ Restart(r) \/ ForgetRestart(r) \/ Rotate(r) \/ CloseSession(r)
    PROVE  IInv'
<1>1. PICK call : Goto(r, call) /\ Follows(r, call)
  <2>1. CASE RouteGet(r) \/ GiveUp(r)
    BY <2>1 DEF RouteGet, GiveUp, Follows, Calls, Identified, Relay, Loaded, Accepted
  <2>2. CASE CacheMiss(r) \/ RouteSession(r)
    BY <2>2
       DEF CacheMiss, RouteSession, Follows, Calls, Identified, Relay, Loaded, Accepted
  <2>3. CASE Abandon(r) \/ Restart(r) \/ ForgetRestart(r)
    BY <2>3
       DEF Abandon, Restart, ForgetRestart, Follows, Calls, Identified, Relay,
           Loaded, Accepted
  <2>4. CASE Rotate(r) \/ CloseSession(r) \/ Build(r)
    BY <2>4
       DEF Rotate, CloseSession, Build, Follows, Calls, Identified, Relay, Loaded,
           Accepted
  <2>5. QED
    BY <2>1, <2>2, <2>3, <2>4
<1>2. UNCHANGED locals /\ UNCHANGED seen
  BY DEF RouteGet, GiveUp, CacheMiss, RouteSession, Build, Abandon, Restart,
       ForgetRestart, Rotate, CloseSession
<1>3. Shrinks
  BY UnchangedShrinks, DropSessionShrinks, DropIdentityShrinks
     DEF RouteGet, GiveUp, CacheMiss, RouteSession, Build, Abandon, Restart,
         ForgetRestart, Rotate, CloseSession, IInv, TypeOK
<1>4. QED
  BY <1>1, <1>2, <1>3, ContinueStep DEF Still, seen

-----------------------------------------------------------------------------
(* Requests arrive *)

\* A request gets a body; every other request keeps what it holds.
LEMMA ArrivingRequest ==
    ASSUME LocalsOK, RequestInv, Grows, NEW r \in Req, NEW m \in Message,
           NEW call \in {"routeGet", "cacheGet"}, Goto(r, call),
           msg' = [msg EXCEPT ![r] = m], loaded' = loaded,
           late' \in [Req -> BOOLEAN],
           Held(r)'
    PROVE  LocalsOK' /\ RequestInv'
<1>1. LocalsOK'
  BY DEF LocalsOK, Goto, Calls
<1>2. ASSUME NEW q \in Req
      PROVE  Held(q)'
  <2>1. CASE q = r
    BY <2>1
  <2>2. CASE q # r
    <3>1. pc'[q] = pc[q] /\ msg'[q] = msg[q] /\ loaded'[q] = loaded[q]
      BY <2>2 DEF LocalsOK, Goto
    <3>2. QED
      BY <3>1, HeldStays DEF RequestInv
  <2>3. QED
    BY <2>1, <2>2
<1>3. QED
  BY <1>1, <1>2 DEF RequestInv

LEMMA TokenStep ==
    ASSUME IInv, NEW r \in Req, Token(r)
    PROVE  IInv'
<1>1. PICK i \in ReauthId : msg' = [msg EXCEPT ![r] = Msg("token", i, None, 0)]
  BY DEF Token
<1>2. Msg("token", i, None, 0) \in Message
  BY ConstantsOK DEF Msg, Message, Counter
<1>3. Goto(r, "routeGet") /\ UNCHANGED <<loaded, late, stores, seen>>
  BY DEF Token
<1>4. Still /\ granted' = granted /\ closed' \subseteq Session /\ Shrinks
  BY <1>3, UnchangedShrinks DEF Still, seen, IInv, TypeOK, SeenOK
<1>5. (Held(r))'
  BY <1>1, <1>3
     DEF IInv, TypeOK, LocalsOK, Goto, Held, Identified, Relay, Loaded, Accepted, Msg
<1>6. LocalsOK' /\ RequestInv'
  BY <1>1, <1>2, <1>3, <1>4, <1>5, StillGrows, ArrivingRequest DEF IInv, TypeOK, LocalsOK
<1>7. QED
  BY <1>4, <1>6, ShrinkingStores DEF IInv, TypeOK

LEMMA EapRelayStep ==
    ASSUME IInv, NEW r \in Req, EapRelay(r)
    PROVE  IInv'
<1>1. PICK c \in challenges :
          /\ \E m \in Answers(c) :
               /\ msg' = [msg EXCEPT ![r] = m]
               /\ answered' = IF m.kind = "reauth" /\ m.counter = c.counter
                              THEN answered \cup {c.sid} ELSE answered
          /\ late' = [late EXCEPT ![r] = c.sid \in closed]
  BY DEF EapRelay
<1>2. PICK m \in Answers(c) :
          /\ msg' = [msg EXCEPT ![r] = m]
          /\ answered' = IF m.kind = "reauth" /\ m.counter = c.counter
                         THEN answered \cup {c.sid} ELSE answered
  BY <1>1
<1>3. /\ pc[r] = "idle" /\ Goto(r, "cacheGet")
      /\ UNCHANGED <<loaded, stores, issued, created, challenges, granted, closed>>
  BY DEF EapRelay
<1>4. /\ c \in Challenge /\ c.sid \in created /\ c.sid \in Session
      /\ c.counter < MaxCounter
  BY DEF IInv, TypeOK, SeenOK, ChallengeInv, Challenge
<1>5. (c.counter + 1) % (MaxCounter + 1) \in Counter
  BY <1>4, ConstantsOK DEF Challenge, Counter
<1>6. /\ m \in Message /\ m.sid = c.sid
      /\ m.kind \in {"reauth", "tooSmall", "authReject", "bad"}
  BY <1>4, <1>5, ConstantsOK DEF Answers, Msg, Message, Challenge, Counter
<1>7. Grows /\ answered' \subseteq created /\ answered \subseteq answered'
  BY <1>1, <1>2, <1>3, <1>4 DEF Grows, IInv, ChallengeInv
<1>8. (Held(r))'
  <2>1. pc'[r] = "cacheGet" /\ msg'[r] = m
    BY <1>1, <1>2, <1>3 DEF Goto, IInv, TypeOK, LocalsOK
  <2>2. (AnswerTo(r, c))'
    BY <1>1, <1>2, <1>3, <1>6, <2>1 DEF AnswerTo, Answered
  <2>3. QED
    BY <1>3, <1>6, <2>1, <2>2 DEF Held, Identified, Relay, Loaded, Accepted
<1>9. LocalsOK' /\ RequestInv'
  <2>1. late' \in [Req -> BOOLEAN] /\ loaded' = loaded
    BY <1>1, <1>3 DEF IInv, TypeOK, LocalsOK
  <2>2. Goto(r, "cacheGet") /\ msg' = [msg EXCEPT ![r] = m] /\ m \in Message
    BY <1>2, <1>3, <1>6
  <2>3. QED
    BY <1>7, <1>8, <2>1, <2>2, ArrivingRequest DEF IInv, TypeOK
<1>10. StoresOK' /\ SeenOK'
  BY <1>3, <1>7 DEF IInv, TypeOK, StoresOK, SeenOK, stores
<1>11. SessionInv'
  BY <1>3 DEF IInv, SessionInv, stores, Backed, From, Made
<1>12. IdentityInv'
  BY <1>3, <1>7 DEF IInv, IdentityInv, stores, Answered
<1>13. ReplyInv'
  BY <1>3, <1>7 DEF IInv, ReplyInv, stores, Offered, Answered
<1>14. ChallengeInv'
  BY <1>3, <1>7 DEF IInv, ChallengeInv
<1>15. QED
  BY <1>9, <1>10, <1>11, <1>12, <1>13, <1>14 DEF IInv, TypeOK

-----------------------------------------------------------------------------
(* RT1 makes a challenge *)

LEMMA HandlerGetStep ==
    ASSUME IInv, NEW r \in Req, HandlerGet(r)
    PROVE  IInv'
<1> DEFINE i == msg[r].rid
           state == reauths[i]
           copy == [rid |-> i, next |-> None, root |-> state.root,
                    counter |-> state.counter, ttl |-> TRUE]
<1>1. pc[r] = "handlerGet" /\ UNCHANGED <<msg, late, stores, seen>>
  BY DEF HandlerGet
<1>2. Still /\ Shrinks /\ granted' = granted /\ closed' = closed
  BY <1>1, UnchangedShrinks DEF Still, seen, IInv, TypeOK
<1>3. CASE UNCHANGED loaded /\ (Goto(r, "tokenCheck") \/ Goto(r, "giveUp"))
  BY <1>1, <1>2, <1>3, ContinueStep
     DEF Follows, Calls, Identified, Relay, Loaded, Accepted, locals
<1>4. CASE /\ state # NoReauth /\ ~ Exhausted(state.counter)
           /\ Goto(r, "challenge") /\ loaded' = [loaded EXCEPT ![r] = copy]
  <2>1. i \in ReauthId /\ state \in ReauthState
    BY <1>1 DEF IInv, TypeOK, StoresOK, RequestInv, Held, Identified
  <2>2. From(copy) /\ copy \in ReauthSession
    BY <1>4, <2>1, ConstantsOK
       DEF IInv, IdentityInv, From, Exhausted, ReauthState, ReauthSession, Counter
  <2>3. LocalsOK'
    BY <1>1, <1>4, <2>2 DEF IInv, TypeOK, LocalsOK, Goto, Calls
  <2>4. ASSUME NEW q \in Req
        PROVE  Held(q)'
    <3>1. CASE q = r
      <4>1. pc'[r] = "challenge" /\ loaded'[r] = copy
        BY <1>4 DEF IInv, TypeOK, LocalsOK, Goto
      <4>2. From(loaded[r])'
        BY <1>2, <2>2, <4>1 DEF From, Still
      <4>3. QED
        BY <3>1, <4>1, <4>2 DEF Held, Identified, Relay, Loaded, Accepted
    <3>2. CASE q # r
      <4>1. pc'[q] = pc[q] /\ msg'[q] = msg[q] /\ loaded'[q] = loaded[q]
        BY <1>1, <1>4, <3>2 DEF IInv, TypeOK, LocalsOK, Goto
      <4>2. QED
        BY <1>2, <4>1, HeldStays, StillGrows DEF IInv, TypeOK, RequestInv
    <3>3. QED
      BY <3>1, <3>2
  <2>5. closed' \subseteq Session
    BY <1>2 DEF IInv, TypeOK, SeenOK
  <2>6. QED
    BY <1>2, <2>3, <2>4, <2>5, ShrinkingStores DEF IInv, TypeOK, RequestInv
<1>5. QED
  BY <1>3, <1>4 DEF HandlerGet

\* A fresh successor is drawn for a copy of a re-auth state.
LEMMA IssueNextGrows ==
    ASSUME IInv, NEW r \in Req, pc[r] = "challenge", NEW i \in ReauthId, IssueNext(r, i),
           NEW new, new = NewSession(r, i), created \subseteq created',
           challenges \subseteq challenges', answered' = answered
    PROVE  /\ Grows /\ issued' \in [ReauthId -> Lineage \cup {None}]
           /\ new \in ReauthSession /\ Backed(new)'
           /\ loaded[r].rid # i /\ issued'[loaded[r].rid] = issued[loaded[r].rid]
<1> DEFINE copy == loaded[r]
<1>1. From(copy) /\ copy \in ReauthSession
  BY DEF IInv, TypeOK, LocalsOK, RequestInv, Held
<1>2. copy.counter + 1 \in Counter
  BY <1>1, ConstantsOK DEF From, ReauthSession, Counter
<1>3. /\ issued' = [issued EXCEPT ![i] = [root |-> copy.root, depth |-> copy.counter + 1]]
      /\ issued[i] = None
  BY DEF IssueNext, FreshIdentity
<1>4. [root |-> copy.root, depth |-> copy.counter + 1] \in Lineage
  BY <1>1, <1>2 DEF From, Lineage
<1>5. issued' \in [ReauthId -> Lineage \cup {None}]
  BY <1>3, <1>4 DEF IInv, TypeOK, SeenOK
<1>6. Grows
  BY <1>3 DEF Grows, IInv, TypeOK, SeenOK
<1>7. [root |-> copy.root, depth |-> copy.counter] \in Lineage
  BY <1>1 DEF From, Lineage, ReauthSession
<1>8. issued[copy.rid] # None
  BY <1>1, <1>7, ConstantsOK DEF From
<1>9. copy.rid # i /\ issued'[copy.rid] = issued[copy.rid]
  BY <1>1, <1>3, <1>8 DEF From, IInv, TypeOK, SeenOK
<1>10. /\ new \in ReauthSession
       /\ new.rid = copy.rid /\ new.root = copy.root /\ new.counter = copy.counter
       /\ new.next = i
  BY <1>1 DEF NewSession, ReauthSession
<1>11. Backed(new)'
  <2>1. issued'[i] = [root |-> copy.root, depth |-> copy.counter + 1]
    BY <1>3 DEF IInv, TypeOK, SeenOK
  <2>2. QED
    BY <1>1, <1>9, <1>10, <2>1 DEF Backed, From
<1>12. QED
  BY <1>5, <1>6, <1>9, <1>10, <1>11

\* The invariant's parts after a session was written that no challenge refers to yet.
LEMMA NewSessionStores ==
    ASSUME IInv, Grows, NEW s \in Session \ created, NEW new \in ReauthSession,
           Backed(new)', created' = created \cup {s}, answered' = answered,
           issued' \in [ReauthId -> Lineage \cup {None}],
           NEW h \in {NoSession, new, [new EXCEPT !.ttl = FALSE]},
           rsessions' = [rsessions EXCEPT ![s] = h],
           UNCHANGED <<reauths, cache, granted>>,
           \A c \in challenges' \ challenges : c.sid = s /\ Made(c, new) /\ h = new
    PROVE  StoresOK' /\ SessionInv' /\ IdentityInv' /\ ReplyInv'
<1>1. h \in ReauthSession
  BY ConstantRecords DEF ReauthSession
<1>2. StoresOK'
  BY <1>1 DEF IInv, TypeOK, StoresOK
<1>3. SessionInv'
  <2>1. ASSUME NEW t \in Session, rsessions'[t] # NoSession
        PROVE  /\ t \in created' /\ (Backed(rsessions[t]))'
               /\ \A c \in challenges' : c.sid = t => (Made(c, rsessions[t]))'
    <3>1. CASE t = s
      <4>1. rsessions'[t] = h /\ h # NoSession
        BY <2>1, <3>1 DEF IInv, TypeOK, StoresOK
      <4>2. (Backed(rsessions[t]))'
        BY <4>1 DEF Backed, From, ReauthSession
      <4>3. \A c \in challenges' : c.sid = t => c \notin challenges
        BY <3>1 DEF IInv, ChallengeInv
      <4>4. QED
        BY <3>1, <4>1, <4>2, <4>3 DEF Made
    <3>2. CASE t # s
      <4>1. rsessions'[t] = rsessions[t] /\ rsessions[t] \in ReauthSession
        BY <3>2 DEF IInv, TypeOK, StoresOK
      <4>2. t \in created /\ Backed(rsessions[t])
        BY <2>1, <4>1 DEF IInv, SessionInv
      <4>3. (Backed(rsessions[t]))'
        BY <4>1, <4>2, BackedStays DEF Backed, From
      <4>4. \A c \in challenges' : c.sid = t => c \in challenges
        BY <3>2
      <4>5. QED
        BY <2>1, <4>1, <4>2, <4>3, <4>4 DEF IInv, SessionInv, Made
    <3>3. QED
      BY <3>1, <3>2
  <2>2. QED
    BY <2>1 DEF SessionInv, Made
<1>4. IdentityInv'
  <2>1. ASSUME NEW i \in ReauthId, reauths[i] # NoReauth
        PROVE  issued'[i] = issued[i]
    <3>1. [root |-> reauths[i].root, depth |-> reauths[i].counter] \in Lineage
      BY <2>1 DEF IInv, TypeOK, StoresOK, IdentityInv, ReauthState, Lineage
    <3>2. issued[i] # None
      BY <2>1, <3>1, ConstantsOK DEF IInv, IdentityInv
    <3>3. QED
      BY <3>2 DEF Grows
  <2>2. QED
    BY <2>1 DEF IInv, IdentityInv, Answered, Grows
<1>5. ReplyInv'
  BY OfferedStays DEF IInv, ReplyInv
<1>6. QED
  BY <1>2, <1>3, <1>4, <1>5

\* The identities a challenge names keep their lineage.
LEMMA ChallengesStay ==
    ASSUME IInv, Grows
    PROVE  \A d \in challenges :
               issued'[d.rid] = issued[d.rid] /\ issued'[d.next] = issued[d.next]
<1>1. ASSUME NEW d \in challenges
      PROVE  issued[d.rid] # None /\ issued[d.next] # None
  <2>1. /\ d \in Challenge /\ issued[d.rid] # None /\ d.counter < MaxCounter
        /\ issued[d.next] = [root |-> issued[d.rid].root, depth |-> d.counter + 1]
    BY DEF IInv, TypeOK, SeenOK, ChallengeInv
  <2>2. issued[d.rid] \in Lineage /\ d.counter + 1 \in Counter
    BY <2>1, ConstantsOK DEF IInv, TypeOK, SeenOK, Challenge, Counter
  <2>3. [root |-> issued[d.rid].root, depth |-> d.counter + 1] \in Lineage
    BY <2>2 DEF Lineage
  <2>4. QED
    BY <2>1, <2>3, ConstantsOK
<1>2. QED
  BY <1>1 DEF Grows, IInv, TypeOK, SeenOK, Challenge

LEMMA CreateSessionStep ==
    ASSUME IInv, NEW r \in Req, CreateSession(r)
    PROVE  IInv'
<1>1. PICK s \in Session \ created, i \in ReauthId :
          /\ IssueNext(r, i)
          /\ rsessions' = [rsessions EXCEPT ![s] = NewSession(r, i)]
          /\ created' = created \cup {s}
          /\ challenges' = challenges \cup
                 {[sid |-> s, rid |-> loaded[r].rid, next |-> i,
                   counter |-> loaded[r].counter % (MaxCounter + 1)]}
  BY DEF CreateSession
<1>2. /\ pc[r] = "challenge" /\ Finish(r)
      /\ UNCHANGED <<reauths, cache, answered, granted, closed>>
  BY DEF CreateSession
<1> DEFINE new == NewSession(r, i)
           c == [sid |-> s, rid |-> new.rid, next |-> i, counter |-> new.counter]
<1>3. /\ new.rid = loaded[r].rid /\ new.root = loaded[r].root
      /\ new.counter = loaded[r].counter /\ new.next = i
  BY DEF NewSession, IInv, TypeOK, LocalsOK, ReauthSession
<1>4. /\ Grows /\ issued' \in [ReauthId -> Lineage \cup {None}]
      /\ new \in ReauthSession /\ new.rid # i
      /\ issued'[new.rid] = issued[new.rid]
  BY <1>1, <1>2, <1>3, IssueNextGrows
<1>5. From(new) /\ new.counter \in Counter
  BY <1>2, <1>3, <1>4 DEF IInv, RequestInv, Held, From, ReauthSession
<1>6. loaded[r].counter % (MaxCounter + 1) = new.counter
  BY <1>3, <1>5, ConstantsOK DEF From, Counter
<1>7. challenges' = challenges \cup {c} /\ c \in Challenge
  BY <1>1, <1>3, <1>5, <1>6 DEF Challenge, From
<1>8. LocalsOK' /\ RequestInv'
  BY <1>2, <1>4, FinishRequest DEF IInv, TypeOK
<1>9. SeenOK'
  BY <1>1, <1>2, <1>4, <1>7 DEF IInv, TypeOK, SeenOK
<1>10. StoresOK' /\ SessionInv' /\ IdentityInv' /\ ReplyInv'
  <2> HIDE DEF new
  <2>1. ASSUME NEW copy, copy = new
        PROVE  Backed(copy)'
    BY <1>1, <1>2, <2>1, IssueNextGrows DEF new
  <2>2. \A d \in challenges' \ challenges : d.sid = s /\ Made(d, new)
    BY <1>3, <1>7 DEF Made
  <2>3. QED
    BY <1>1, <1>2, <1>4, <2>1, <2>2, NewSessionStores DEF new
<1>11. ChallengeInv'
  <2>1. issued'[i] = [root |-> new.root, depth |-> new.counter + 1]
    BY <1>1, <1>3 DEF IssueNext, IInv, TypeOK, SeenOK
  <2>2. issued'[new.rid] = [root |-> new.root, depth |-> new.counter]
    BY <1>4, <1>5 DEF From
  <2>3. [root |-> new.root, depth |-> new.counter] \in Lineage
    BY <1>5 DEF From, Lineage
  <2>4. issued'[new.rid] # None
    BY <2>2, <2>3, ConstantsOK
  <2>5. \A d \in challenges :
            /\ d.sid \in created /\ d.sid # s /\ d.counter < MaxCounter
            /\ issued'[d.rid] = issued[d.rid] /\ issued'[d.next] = issued[d.next]
    BY <1>4, ChallengesStay DEF IInv, ChallengeInv
  <2>6. QED
    BY <1>1, <1>2, <1>5, <1>7, <2>1, <2>2, <2>4, <2>5 DEF From, IInv, ChallengeInv
<1>12. QED
  BY <1>8, <1>9, <1>10, <1>11 DEF IInv, TypeOK

LEMMA CreateSessionFailsStep ==
    ASSUME IInv, NEW r \in Req, CreateSessionFails(r)
    PROVE  IInv'
<1>1. /\ pc[r] = "challenge" /\ Finish(r)
      /\ UNCHANGED <<reauths, cache, challenges, answered, granted, closed>>
  BY DEF CreateSessionFails
<1>2. CASE UNCHANGED <<rsessions, issued, created>>
  <2>1. Shrinks /\ Still /\ closed' \subseteq Session
    BY <1>1, <1>2 DEF IInv, TypeOK, StoresOK, SeenOK, Shrinks, Still
  <2>2. QED
    BY <1>1, <2>1, ReturnStep
<1>3. CASE ~ UNCHANGED <<rsessions, issued, created>>
  <2>1. PICK s \in Session \ created, i \in ReauthId :
            /\ IssueNext(r, i)
            /\ \E h \in PipelineOutcomes(NoSession, NewSession(r, i)) :
                 rsessions' = [rsessions EXCEPT ![s] = h]
            /\ created' = created \cup {s}
    BY <1>3 DEF CreateSessionFails
  <2> DEFINE new == NewSession(r, i)
  <2>2. PICK h \in {NoSession, new, [new EXCEPT !.ttl = FALSE]} :
            rsessions' = [rsessions EXCEPT ![s] = h]
    BY <2>1 DEF PipelineOutcomes, NoSession
  <2>3. /\ Grows /\ issued' \in [ReauthId -> Lineage \cup {None}]
        /\ new \in ReauthSession
    BY <1>1, <2>1, IssueNextGrows
  <2>4. LocalsOK' /\ RequestInv'
    BY <1>1, <2>3, FinishRequest DEF IInv, TypeOK
  <2>5. SeenOK'
    BY <1>1, <2>1, <2>3 DEF IInv, TypeOK, SeenOK
  <2>6. StoresOK' /\ SessionInv' /\ IdentityInv' /\ ReplyInv'
    <3> HIDE DEF new
    <3>1. ASSUME NEW copy, copy = new
          PROVE  Backed(copy)'
      BY <1>1, <2>1, <3>1, IssueNextGrows DEF new
    <3>2. QED
      BY <1>1, <2>1, <2>2, <2>3, <3>1, NewSessionStores
  <2>7. ChallengeInv'
    BY <1>1, <2>1, <2>3, ChallengesStay DEF IInv, ChallengeInv
  <2>8. QED
    BY <2>4, <2>5, <2>6, <2>7 DEF IInv, TypeOK
<1>4. QED
  BY <1>2, <1>3

-----------------------------------------------------------------------------
(* RT2 *)

LEMMA CacheHitStep ==
    ASSUME IInv, NEW r \in Req, CacheHit(r)
    PROVE  IInv'
<1>1. PICK e \in Cached(msg[r]) :
          granted' = granted \cup {[msg |-> msg[r], rid |-> e.rid]}
  BY DEF CacheHit
<1>2. Finish(r) /\ UNCHANGED <<stores, issued, created, challenges, answered, closed>>
  BY DEF CacheHit
<1>3. e \in cache /\ e \in Reply /\ e.msg = msg[r]
  BY DEF Cached, IInv, TypeOK, StoresOK
<1>4. granted' = granted \cup {e}
  BY <1>1, <1>3 DEF Reply
<1>5. Still
  BY <1>2 DEF Still
<1>6. LocalsOK' /\ RequestInv'
  BY <1>2, <1>5, StillGrows, FinishRequest DEF IInv, TypeOK
<1>7. StoresOK' /\ SeenOK'
  BY <1>2, <1>3, <1>4 DEF IInv, TypeOK, StoresOK, SeenOK, stores
<1>8. SessionInv' /\ IdentityInv' /\ ChallengeInv'
  BY <1>2 DEF IInv, SessionInv, IdentityInv, ChallengeInv, stores, Backed, From, Made,
       Answered
<1>9. ReplyInv'
  BY <1>2, <1>3, <1>4 DEF IInv, ReplyInv, stores, Offered, Answered
<1>10. QED
  BY <1>6, <1>7, <1>8, <1>9 DEF IInv, TypeOK

LEMMA SessionGetStep ==
    ASSUME IInv, NEW r \in Req, SessionGet(r)
    PROVE  IInv'
<1> DEFINE session == rsessions[msg[r].sid]
           call == Verdict(msg[r], session)
<1>1. /\ pc[r] = "sessionGet" /\ session # NoSession
      /\ loaded' = [loaded EXCEPT ![r] = session] /\ Goto(r, call)
      /\ UNCHANGED <<msg, late, stores, seen>>
  BY DEF SessionGet
<1>2. Still /\ Shrinks /\ granted' = granted /\ closed' \subseteq Session
  BY <1>1, UnchangedShrinks DEF Still, seen, IInv, TypeOK, SeenOK
<1>3. pc[r] \in Relay /\ msg[r].sid \in Session
  BY <1>1, RelaySession DEF Relay
<1>4. session \in ReauthSession /\ Backed(session)
  BY <1>1, <1>3 DEF IInv, TypeOK, StoresOK, SessionInv
<1>5. PICK c \in challenges : AnswerTo(r, c)
  BY <1>3 DEF IInv, RequestInv, Held
<1>6. Made(c, session) /\ c.sid = msg[r].sid
  BY <1>1, <1>3, <1>5 DEF IInv, SessionInv, AnswerTo
<1>7. /\ call \in {"reject", "restart", "abandon", "rotate"}
      /\ call = "rotate" => msg[r].kind = "reauth" /\ msg[r].counter = session.counter
  BY <1>3 DEF Verdict, IInv, RequestInv, Held
<1>8. LocalsOK'
  BY <1>1, <1>4, <1>7 DEF IInv, TypeOK, LocalsOK, Goto, Calls
<1>9. RequestInv'
  <2>1. ASSUME NEW q \in Req
        PROVE  Held(q)'
    <3>1. CASE q = r
      <4>1. pc'[r] = call /\ loaded'[r] = session /\ msg'[r] = msg[r]
        BY <1>1 DEF IInv, TypeOK, LocalsOK, Goto
      <4>2. (Backed(loaded[r]))'
        BY <1>2, <1>4, <4>1 DEF Backed, From, Still
      <4>3. (AnswerTo(r, c))' /\ c \in challenges'
        BY <1>2, <1>5, <4>1 DEF AnswerTo, Answered, Still
      <4>4. call = "rotate" => msg[r].sid \in answered
        BY <1>5, <1>6, <1>7 DEF AnswerTo, Answered, Made
      <4>5. msg[r].kind \in {"reauth", "tooSmall", "authReject", "bad"}
        BY <1>3 DEF IInv, RequestInv, Held
      <4>6. QED
        BY <1>2, <1>6, <1>7, <3>1, <4>1, <4>2, <4>3, <4>4, <4>5
           DEF Held, Identified, Relay, Loaded, Accepted, Made, Still
    <3>2. CASE q # r
      <4>1. pc'[q] = pc[q] /\ msg'[q] = msg[q] /\ loaded'[q] = loaded[q]
        BY <1>1, <3>2 DEF IInv, TypeOK, LocalsOK, Goto
      <4>2. QED
        BY <1>2, <4>1, HeldStays, StillGrows DEF IInv, TypeOK, RequestInv
    <3>3. QED
      BY <3>1, <3>2
  <2>2. QED
    BY <2>1 DEF RequestInv
<1>10. QED
  BY <1>2, <1>8, <1>9, ShrinkingStores DEF IInv, TypeOK

\* The invariant's parts after a successor was stored, in full or in part.
LEMMA RotatedStores ==
    ASSUME IInv, NEW r \in Req, pc[r] = "store",
           NEW h \in PipelineOutcomes(reauths[loaded[r].next], Rotated(loaded[r])),
           reauths' = [reauths EXCEPT ![loaded[r].next] = h],
           UNCHANGED <<rsessions, cache, seen>>
    PROVE  /\ StoresOK' /\ SeenOK'
           /\ SessionInv' /\ IdentityInv' /\ ReplyInv' /\ ChallengeInv'
<1> DEFINE session == loaded[r]
           n == session.next
           old == reauths[n]
           new == Rotated(session)
<1>1. /\ session \in ReauthSession /\ Backed(session)
      /\ \E c \in challenges : c.sid = msg[r].sid /\ Made(c, session)
      /\ msg[r].sid \in answered
  BY DEF IInv, TypeOK, LocalsOK, RequestInv, Held, Loaded, Accepted
<1>2. n \in ReauthId /\ old \in ReauthState
  BY <1>1 DEF Backed, IInv, TypeOK, StoresOK
<1>3. new = [root |-> session.root, counter |-> session.counter + 1, ttl |-> TRUE]
  BY DEF Rotated
<1>4. session.root \in ReauthId /\ session.counter + 1 \in Counter
  BY <1>1, ConstantsOK DEF Backed, From, ReauthSession, Counter
<1>5. h = old \/ \E b \in BOOLEAN :
          h = [root |-> session.root, counter |-> session.counter + 1, ttl |-> b]
  <2>1. [new EXCEPT !.ttl = old.ttl] =
            [root |-> session.root, counter |-> session.counter + 1, ttl |-> old.ttl]
    BY <1>3
  <2>2. old.ttl \in BOOLEAN
    BY <1>2 DEF ReauthState
  <2>3. QED
    BY <1>3, <2>1, <2>2 DEF PipelineOutcomes
<1>6. h \in ReauthState
  BY <1>2, <1>4, <1>5 DEF ReauthState
<1>7. StoresOK' /\ SeenOK'
  BY <1>2, <1>6 DEF IInv, TypeOK, StoresOK, SeenOK, seen
<1>8. SessionInv' /\ ReplyInv' /\ ChallengeInv'
  BY DEF IInv, SessionInv, ReplyInv, ChallengeInv, seen, Backed, From, Made, Offered,
     Answered
<1>9. IdentityInv'
  <2>1. ASSUME NEW i \in ReauthId, reauths'[i] # NoReauth
        PROVE  /\ reauths'[i].root \in ReauthId
               /\ issued[i] = [root |-> reauths'[i].root, depth |-> reauths'[i].counter]
               /\ \/ issued[i].root = i
                  \/ \E c \in challenges : c.next = i /\ Answered(c)
    <3>1. CASE reauths'[i] = reauths[i]
      BY <2>1, <3>1 DEF IInv, IdentityInv
    <3>2. CASE reauths'[i] # reauths[i]
      <4>1. i = n /\ reauths'[i] = h /\ h # old
        BY <1>2, <3>2 DEF IInv, TypeOK, StoresOK
      <4>2. h.root = session.root /\ h.counter = session.counter + 1
        BY <1>5, <4>1
      <4>3. \E c \in challenges : c.next = i /\ Answered(c)
        BY <1>1, <4>1 DEF Made, Answered
      <4>4. QED
        BY <1>1, <1>4, <4>1, <4>2, <4>3 DEF Backed
    <3>3. QED
      BY <3>1, <3>2
  <2>2. QED
    BY <2>1 DEF IdentityInv, seen, Answered
<1>10. QED
  BY <1>7, <1>8, <1>9

LEMMA StoreSteps ==
    ASSUME IInv, NEW r \in Req, Store(r) \/ StoreFails(r)
    PROVE  IInv'
<1>1. pc[r] = "store" /\ UNCHANGED <<rsessions, cache, seen>>
  BY DEF Store, StoreFails
<1>2. Grows
  BY <1>1, StillGrows DEF Still, seen
<1>3. PICK h \in PipelineOutcomes(reauths[loaded[r].next], Rotated(loaded[r])) :
          reauths' = [reauths EXCEPT ![loaded[r].next] = h]
  BY DEF Store, StoreFails, PipelineOutcomes
<1>4. /\ StoresOK' /\ SeenOK'
      /\ SessionInv' /\ IdentityInv' /\ ReplyInv' /\ ChallengeInv'
  BY <1>1, <1>3, RotatedStores
<1>5. LocalsOK' /\ RequestInv'
  <2>1. CASE Store(r)
    <3>1. Follows(r, "close") /\ Goto(r, "close") /\ UNCHANGED locals
      BY <2>1 DEF Store, Follows, Calls, Identified, Relay, Loaded, Accepted
    <3>2. QED
      BY <1>2, <3>1, GotoRequest DEF IInv, TypeOK
  <2>2. CASE StoreFails(r)
    BY <1>2, <2>2, FinishRequest DEF StoreFails, IInv, TypeOK
  <2>3. QED
    BY <2>1, <2>2
<1>6. QED
  BY <1>4, <1>5 DEF IInv, TypeOK

LEMMA CachePutStep ==
    ASSUME IInv, NEW r \in Req, CachePut(r)
    PROVE  IInv'
<1> DEFINE reply == [msg |-> msg[r], rid |-> loaded[r].next]
<1>1. /\ pc[r] = "cachePut" /\ Finish(r)
      /\ cache' \subseteq cache \cup {reply}
      /\ granted' = granted \cup {reply}
      /\ Close(msg[r].sid)
      /\ UNCHANGED <<reauths, rsessions, issued, created, challenges, answered>>
  BY DEF CachePut
<1>2. /\ Backed(loaded[r]) /\ msg[r].sid \in answered
      /\ \E c \in challenges : c.sid = msg[r].sid /\ Made(c, loaded[r])
      /\ msg[r].kind = "reauth" /\ msg[r].counter = loaded[r].counter
  BY <1>1 DEF IInv, RequestInv, Held, Loaded, Accepted
<1>3. reply \in Reply
  BY <1>2 DEF Backed, Reply, IInv, TypeOK, LocalsOK
<1>4. Offered(reply)
  BY <1>2 DEF Offered, Made, Answered
<1>5. Still /\ msg[r].sid \in Session
  BY <1>1, RelaySession DEF Still, Relay, Loaded, Accepted
<1>6. LocalsOK' /\ RequestInv'
  BY <1>1, <1>5, StillGrows, FinishRequest DEF IInv, TypeOK
<1>7. StoresOK' /\ SeenOK'
  BY <1>1, <1>3, <1>5 DEF Close, IInv, TypeOK, StoresOK, SeenOK
<1>8. SessionInv' /\ IdentityInv' /\ ChallengeInv'
  BY <1>1 DEF IInv, SessionInv, IdentityInv, ChallengeInv, Backed, From, Made, Answered
<1>9. ReplyInv'
  <2>1. \A e \in cache' \cup granted' : Offered(e)
    BY <1>1, <1>4 DEF IInv, ReplyInv
  <2>2. QED
    BY <1>5, <2>1 DEF ReplyInv, Offered, Answered, Still
<1>10. QED
  BY <1>6, <1>7, <1>8, <1>9 DEF IInv, TypeOK

-----------------------------------------------------------------------------
(* Steps of the environment *)

\* What full authentication leaves in Redis under a fresh identity: nothing, or its state
\* with or without a TTL.
LEMMA Enrolled ==
    ASSUME IInv, NEW i \in ReauthId, FullAuth(i) \/ FullAuthFails(i)
    PROVE  /\ issued[i] = None /\ reauths[i] = NoReauth
           /\ \E h \in ReauthState :
                /\ reauths' = [reauths EXCEPT ![i] = h]
                /\ h = NoReauth \/ (h.root = i /\ h.counter = 1)
<1>1. issued[i] = None
  BY DEF FullAuth, FullAuthFails, FreshIdentity
<1>2. reauths[i] = NoReauth
  <2> SUFFICES ASSUME reauths[i] # NoReauth
               PROVE  FALSE
    OBVIOUS
  <2>1. reauths[i] \in ReauthState
    BY DEF IInv, TypeOK, StoresOK
  <2>2. /\ issued[i] = [root |-> reauths[i].root, depth |-> reauths[i].counter]
        /\ reauths[i].root \in ReauthId
    BY DEF IInv, IdentityInv
  <2>3. issued[i] \in Lineage
    BY <2>1, <2>2 DEF ReauthState, Lineage
  <2>4. QED
    BY <1>1, <2>3, ConstantsOK
<1>3. PICK h \in PipelineOutcomes(NoReauth, [root |-> i, counter |-> 1, ttl |-> TRUE]) :
          reauths' = [reauths EXCEPT ![i] = h]
  BY <1>2 DEF FullAuth, FullAuthFails, PipelineOutcomes
<1>4. 1 \in Counter
  BY ConstantsOK DEF Counter
<1>5. h \in ReauthState /\ (h = NoReauth \/ (h.root = i /\ h.counter = 1))
  <2>1. \/ h = NoReauth
        \/ h = [root |-> i, counter |-> 1, ttl |-> FALSE]
        \/ h = [root |-> i, counter |-> 1, ttl |-> TRUE]
    BY <1>3 DEF PipelineOutcomes, NoReauth
  <2>2. CASE h = NoReauth
    BY <2>2, ConstantRecords
  <2>3. CASE h # NoReauth
    <3>1. PICK t \in BOOLEAN : h = [root |-> i, counter |-> 1, ttl |-> t]
      BY <2>1, <2>3
    <3>2. QED
      BY <1>4, <3>1 DEF ReauthState
  <2>4. QED
    BY <2>2, <2>3
<1>6. QED
  BY <1>1, <1>2, <1>3, <1>5

LEMMA FullAuthStep ==
    ASSUME IInv, NEW i \in ReauthId, FullAuth(i) \/ FullAuthFails(i)
    PROVE  IInv'
<1> DEFINE first == [root |-> i, depth |-> 1]
<1>0. PICK state \in ReauthState :
          /\ reauths' = [reauths EXCEPT ![i] = state]
          /\ state = NoReauth \/ (state.root = i /\ state.counter = 1)
  BY Enrolled
<1>1. /\ issued[i] = None /\ issued' = [issued EXCEPT ![i] = first]
      /\ UNCHANGED <<pc, locals, rsessions, cache, created, challenges, answered,
                     granted, closed>>
  BY DEF FullAuth, FullAuthFails, FreshIdentity
<1>2. 1 \in Counter
  BY ConstantsOK DEF Counter
<1>3. first \in Lineage
  BY <1>2 DEF Lineage
<1>4. Grows
  BY <1>1 DEF Grows, IInv, TypeOK, SeenOK
<1>5. LocalsOK' /\ StoresOK' /\ SeenOK'
  BY <1>0, <1>1, <1>3 DEF IInv, TypeOK, LocalsOK, StoresOK, SeenOK, locals
<1>6. RequestInv'
  <2>1. ASSUME NEW q \in Req
        PROVE  Held(q)'
    BY <1>1, <1>4, HeldStays DEF IInv, TypeOK, RequestInv, locals
  <2>2. QED
    BY <2>1 DEF RequestInv
<1>7. SessionInv'
  <2>1. ASSUME NEW s \in Session, rsessions[s] # NoSession
        PROVE  (Backed(rsessions[s]))'
    <3>1. rsessions[s] \in ReauthSession /\ Backed(rsessions[s])
      BY <2>1 DEF IInv, TypeOK, StoresOK, SessionInv
    <3>2. QED
      BY <1>1, <1>4, <3>1, BackedStays DEF Backed, From
  <2>2. QED
    BY <1>1, <2>1 DEF IInv, SessionInv, Made
<1>8. IdentityInv'
  <2>1. ASSUME NEW j \in ReauthId, reauths'[j] # NoReauth
        PROVE  /\ reauths'[j].root \in ReauthId
               /\ issued'[j] = [root |-> reauths'[j].root, depth |-> reauths'[j].counter]
               /\ \/ issued'[j].root = j
                  \/ \E c \in challenges : c.next = j /\ Answered(c)
    <3>1. CASE j = i
      BY <1>0, <1>1, <2>1, <3>1 DEF IInv, TypeOK, StoresOK, SeenOK
    <3>2. CASE j # i
      <4>1. reauths'[j] = reauths[j] /\ issued'[j] = issued[j]
        BY <1>0, <1>1, <3>2 DEF IInv, TypeOK, StoresOK, SeenOK
      <4>2. QED
        BY <2>1, <4>1 DEF IInv, IdentityInv
    <3>3. QED
      BY <3>1, <3>2
  <2>2. QED
    BY <1>1, <2>1 DEF IdentityInv, Answered
<1>9. ReplyInv'
  BY <1>1, <1>4, OfferedStays DEF IInv, ReplyInv
<1>10. ChallengeInv'
  BY <1>1, <1>4, ChallengesStay DEF IInv, ChallengeInv
<1>11. QED
  BY <1>5, <1>6, <1>7, <1>8, <1>9, <1>10 DEF IInv, TypeOK

LEMMA ExpireSteps ==
    ASSUME IInv,
           \/ \E s \in Session : ExpireSession(s)
           \/ \E i \in ReauthId : ExpireReauth(i)
           \/ \E e \in cache : ExpireCache(e)
    PROVE  IInv'
<1>1. UNCHANGED <<pc, locals, seen>>
  BY DEF ExpireSession, ExpireReauth, ExpireCache
<1>2. Shrinks
  BY ConstantRecords
     DEF ExpireSession, ExpireReauth, ExpireCache, Shrinks, IInv, TypeOK, StoresOK
<1>3. Still /\ granted' = granted /\ closed' \subseteq Session
  BY <1>1 DEF Still, seen, IInv, TypeOK, SeenOK
<1>4. LocalsOK' /\ RequestInv'
  BY <1>1, <1>3, HeldStays, StillGrows DEF IInv, TypeOK, LocalsOK, RequestInv, locals
<1>5. QED
  BY <1>2, <1>3, <1>4, ShrinkingStores DEF IInv, TypeOK

\* Requests that hold nothing.
LEMMA IdleRequests ==
    ASSUME pc = [r \in Req |-> "idle"], msg = [r \in Req |-> NoMsg],
           loaded = [r \in Req |-> NoSession], late = [r \in Req |-> FALSE]
    PROVE  LocalsOK /\ RequestInv
  BY ConstantRecords
     DEF LocalsOK, Calls, RequestInv, Held, Identified, Relay, Loaded, Accepted

LEMMA CrashStep ==
    ASSUME IInv, Crash
    PROVE  IInv'
<1>1. /\ pc' = [r \in Req |-> "idle"] /\ msg' = [r \in Req |-> NoMsg]
      /\ loaded' = [r \in Req |-> NoSession] /\ late' = [r \in Req |-> FALSE]
      /\ UNCHANGED <<stores, seen>>
  BY DEF Crash
<1>2. LocalsOK' /\ RequestInv'
  BY <1>1, ConstantRecords
     DEF LocalsOK, Calls, RequestInv, Held, Identified, Relay, Loaded, Accepted
<1>3. Still /\ granted' = granted /\ closed' \subseteq Session /\ Shrinks
  BY <1>1, UnchangedShrinks DEF Still, seen, IInv, TypeOK, SeenOK
<1>4. QED
  BY <1>2, <1>3, ShrinkingStores DEF IInv, TypeOK

-----------------------------------------------------------------------------
(* The invariant, and what follows from it *)

LEMMA InitIInv == Init => IInv
<1> SUFFICES ASSUME Init
             PROVE  IInv
  OBVIOUS
<1>1. LocalsOK /\ RequestInv
  BY IdleRequests DEF Init
<1>2. StoresOK /\ SeenOK
  BY ConstantRecords DEF Init, StoresOK, SeenOK
<1>3. SessionInv /\ IdentityInv /\ ReplyInv /\ ChallengeInv
  BY DEF Init, SessionInv, IdentityInv, ReplyInv, ChallengeInv
<1>4. QED
  BY <1>1, <1>2, <1>3 DEF IInv, TypeOK

LEMMA UnchangedStep ==
    ASSUME IInv, UNCHANGED vars
    PROVE  IInv'
<1>1. UNCHANGED <<pc, locals, stores, seen>>
  BY DEF vars
<1>2. Still /\ granted' = granted /\ closed' \subseteq Session /\ Shrinks
  BY <1>1, UnchangedShrinks DEF Still, seen, IInv, TypeOK, SeenOK
<1>3. LocalsOK' /\ RequestInv'
  BY <1>1, <1>2, HeldStays, StillGrows DEF IInv, TypeOK, LocalsOK, RequestInv, locals
<1>4. QED
  BY <1>2, <1>3, ShrinkingStores DEF IInv, TypeOK

LEMMA ServeStep ==
    ASSUME IInv, NEW r \in Req, Serve(r)
    PROVE  IInv'
<1>1. CASE \/ TokenCheck(r) \/ HandlerGetFails(r) \/ FullAuthHandler(r)
           \/ SessionGetFails(r) \/ BuildFails(r) \/ InitialRequest(r)
           \/ Reject(r) \/ Forget(r)
  BY <1>1, ReturnSteps
<1>2. CASE \/ RouteGet(r) \/ GiveUp(r) \/ CacheMiss(r) \/ RouteSession(r) \/ Build(r)
           \/ Abandon(r) \/ Restart(r) \/ ForgetRestart(r) \/ Rotate(r) \/ CloseSession(r)
  BY <1>2, ContinueSteps
<1>3. CASE \/ HandlerGet(r) \/ CreateSession(r) \/ CreateSessionFails(r)
  BY <1>3, HandlerGetStep, CreateSessionStep, CreateSessionFailsStep
<1>4. CASE \/ CacheHit(r) \/ SessionGet(r) \/ Store(r) \/ StoreFails(r) \/ CachePut(r)
  BY <1>4, CacheHitStep, SessionGetStep, StoreSteps, CachePutStep
<1>5. QED
  BY <1>1, <1>2, <1>3, <1>4 DEF Serve

LEMMA NextIInv == IInv /\ [Next]_vars => IInv'
<1> SUFFICES ASSUME IInv, [Next]_vars
             PROVE  IInv'
  OBVIOUS
<1>1. ASSUME NEW r \in Req, Token(r) \/ EapRelay(r) \/ Serve(r)
      PROVE  IInv'
  BY <1>1, TokenStep, EapRelayStep, ServeStep
<1>2. CASE Environment
  BY <1>2, FullAuthStep, ExpireSteps, CrashStep DEF Environment
<1>3. CASE UNCHANGED vars
  BY <1>3, UnchangedStep
<1>4. QED
  BY <1>1, <1>2, <1>3 DEF Next

\* IInv holds in every reachable state: it is an inductive invariant of the server's
\* re-authentication.
THEOREM Invariance == Spec => []IInv
  BY InitIInv, NextIInv, PTL DEF Spec

\* Every variable keeps to its type: in particular the counter, which
\* HandleReauthRequest checks at RT1 and HandleReauthResponse increments at RT2, never
\* leaves the 16 bits of AT_COUNTER.
THEOREM TypeCorrect == Spec => []TypeOK
<1>1. IInv => TypeOK
  BY DEF IInv
<1>2. QED
  BY <1>1, Invariance, PTL

\* Every 200 reply to a re-authentication, fresh or replayed, hands out the successor
\* that the challenge it answers offered.
THEOREM GrantsOffered == Spec => []GrantsAreOffered
<1>1. IInv => GrantsAreOffered
  BY DEF IInv, ReplyInv, GrantsAreOffered
<1>2. QED
  BY <1>1, Invariance, PTL

\* All grants of a re-auth session hand out the same identity: a session has one
\* challenge, and every grant of it names that challenge's successor.
THEOREM OneIdentity == Spec => []OneIdentityPerSession
<1>1. IInv => OneIdentityPerSession
  BY DEF IInv, ReplyInv, ChallengeInv, Offered, OneIdentityPerSession
<1>2. QED
  BY <1>1, Invariance, PTL

\* The re-auth store accepts only identities that full authentication issued or that a
\* device earned by answering the challenge that offered them.
THEOREM UsableEarned == Spec => []UsableIsEarned
<1>1. IInv => UsableIsEarned
  BY DEF IInv, IdentityInv, UsableIsEarned
<1>2. QED
  BY <1>1, Invariance, PTL

\* Stored and transmitted counters are the number of rotations since full
\* authentication, on every branch of a lineage.
THEOREM CounterDepth == Spec => []CounterIsDepth
<1>1. IInv => CounterIsDepth
  <2> SUFFICES ASSUME IInv
               PROVE  CounterIsDepth
    OBVIOUS
  <2>1. ASSUME NEW c \in challenges
        PROVE  /\ issued[c.rid].depth = c.counter
               /\ issued[c.next] = [issued[c.rid] EXCEPT !.depth = c.counter + 1]
    <3>1. issued[c.rid] \in Lineage
      BY DEF IInv, TypeOK, SeenOK, Challenge, ChallengeInv
    <3>2. QED
      BY <3>1 DEF IInv, ChallengeInv, Lineage
  <2>2. QED
    BY <2>1 DEF CounterIsDepth, IInv, IdentityInv
<1>2. QED
  BY <1>1, Invariance, PTL
-----------------------------------------------------------------------------
(* What a 200 reply settles: its session is never accepted again, and the  *)
(* identity it hands out stays usable.  Both need Redis to execute every   *)
(* write, and the second needs nothing to expire, so they are proved of    *)
(* instances whose Faults leave those out.                                 *)

Gone(s) == rsessions[s] = NoSession

\* The calls after the deletion of the session, and the calls before it is loaded.
Behind == {"forget", "forgetRestart", "initial", "build", "cachePut"}

Early == {"cacheGet", "routeSession", "fullAuth", "sessionGet"}

\* Request r has not got past a closed session, and has deleted a session it is
\* behind with.
Settled(r) ==
    /\ late[r] => pc[r] \in Early /\ msg[r].sid \in closed
    /\ pc[r] \in Behind => Gone(msg[r].sid)

LateInv ==
    /\ \A s \in closed : s \in created /\ Gone(s)
    /\ \A r \in Req : Settled(r)

-----------------------------------------------------------------------------
(* Late responses: facts the steps share *)

\* The other requests do not move.
OthersStay(r) ==
    \A q \in Req \ {r} : pc'[q] = pc[q] /\ msg'[q] = msg[q] /\ late'[q] = late[q]

LEMMA MovesAlone ==
    ASSUME LocalsOK, NEW r \in Req, Token(r) \/ EapRelay(r) \/ Serve(r)
    PROVE  OthersStay(r)
<1>1. CASE \/ Token(r) \/ EapRelay(r)
  BY <1>1 DEF Token, EapRelay, Goto, OthersStay, LocalsOK
<1>2. CASE Serve(r)
  <2>1. \/ \E call : Goto(r, call) /\ UNCHANGED <<msg, late>>
        \/ Finish(r)
    BY <1>2
       DEF Serve, RouteGet, HandlerGet, HandlerGetFails, GiveUp, TokenCheck,
           CreateSession, CreateSessionFails, CacheHit, CacheMiss, RouteSession,
           FullAuthHandler, SessionGet, SessionGetFails, Reject, Abandon, Forget, Restart,
           ForgetRestart, InitialRequest, Rotate, Store, StoreFails, CloseSession, Build,
           BuildFails, CachePut, locals
  <2>2. QED
    BY <2>1 DEF Goto, Finish, OthersStay, LocalsOK
<1>3. QED
  BY <1>1, <1>2

\* A request that answers a challenge names a session that was created.
LEMMA RelayCreated ==
    ASSUME IInv, NEW r \in Req, pc[r] \in Relay
    PROVE  msg[r].sid \in created /\ msg[r].sid \in Session
  BY RelaySession DEF IInv, RequestInv, Held, AnswerTo, ChallengeInv

\* A session that is gone does not come back.
GoneStay == \A s \in created : Gone(s) => Gone(s)'

LEMMA SameSessions ==
    ASSUME UNCHANGED rsessions
    PROVE  GoneStay
  BY DEF GoneStay, Gone

LEMMA DroppedSessions ==
    ASSUME StoresOK, NEW s, DropSession(s)
    PROVE  GoneStay
  BY DEF DropSession, DelOutcomes, GoneStay, Gone, StoresOK

LEMMA CreatedSessions ==
    ASSUME IInv, NEW s \in Session \ created, NEW h,
           rsessions' = [rsessions EXCEPT ![s] = h]
    PROVE  GoneStay
  BY DEF GoneStay, Gone, IInv, TypeOK, StoresOK, SeenOK

\* What is left to show of a step of r.
LEMMA SettledStep ==
    ASSUME IInv, LateInv, NEW r \in Req, OthersStay(r), GoneStay,
           created \subseteq created', closed \subseteq closed',
           \A s \in closed' \ closed : s \in created /\ Gone(s)',
           Settled(r)'
    PROVE  LateInv'
<1>1. ASSUME NEW s \in closed'
      PROVE  s \in created' /\ Gone(s)'
  BY <1>1 DEF LateInv, GoneStay
<1>2. ASSUME NEW q \in Req
      PROVE  Settled(q)'
  <2>1. CASE q = r
    BY <2>1
  <2>2. CASE q # r
    <3>1. pc'[q] = pc[q] /\ msg'[q] = msg[q] /\ late'[q] = late[q]
      BY <2>2 DEF OthersStay
    <3>2. pc[q] \in Behind => pc[q] \in Relay
      BY DEF Behind, Relay, Loaded, Accepted
    <3>3. pc[q] \in Behind => (Gone(msg[q].sid))'
      BY <3>1, <3>2, RelayCreated DEF LateInv, Settled, GoneStay, Gone
    <3>4. QED
      BY <3>1, <3>3 DEF LateInv, Settled
  <2>3. QED
    BY <2>1, <2>2
<1>3. QED
  BY <1>1, <1>2 DEF LateInv

\* A request whose handler returns is settled.
LEMMA FinishSettled ==
    ASSUME LocalsOK, NEW r \in Req, Finish(r)
    PROVE  Settled(r)'
  BY DEF LocalsOK, Finish, Goto, Settled, Behind

-----------------------------------------------------------------------------
(* Late responses: the steps *)

LEMMA LateTokenSteps ==
    ASSUME IInv, LateInv, NEW r \in Req,
           \/ Token(r) \/ RouteGet(r) \/ HandlerGet(r) \/ HandlerGetFails(r)
           \/ GiveUp(r) \/ TokenCheck(r)
    PROVE  LateInv'
<1>1. UNCHANGED <<rsessions, created, closed>>
  BY DEF Token, RouteGet, HandlerGet, HandlerGetFails, GiveUp, TokenCheck, stores, seen
<1>2. OthersStay(r)
  BY MovesAlone DEF Serve, IInv, TypeOK
<1>3. pc[r] \notin Early
  BY DEF Token, RouteGet, HandlerGet, HandlerGetFails, GiveUp, TokenCheck, Early
<1>4. ~ late[r]
  BY <1>3 DEF LateInv, Settled
<1>5. \/ Finish(r)
      \/ /\ \E call \in {"routeGet", "handlerGet", "tokenCheck", "giveUp", "challenge"} :
              Goto(r, call)
         /\ UNCHANGED late
  BY DEF Token, RouteGet, HandlerGet, HandlerGetFails, GiveUp, TokenCheck, locals
<1>6. Settled(r)'
  BY <1>4, <1>5, FinishSettled DEF Goto, Settled, Behind, IInv, TypeOK, LocalsOK
<1>7. QED
  BY <1>1, <1>2, <1>6, SameSessions, SettledStep

LEMMA LateCreateSteps ==
    ASSUME IInv, LateInv, NEW r \in Req, CreateSession(r) \/ CreateSessionFails(r)
    PROVE  LateInv'
<1>1. Finish(r) /\ closed' = closed /\ created \subseteq created'
  BY DEF CreateSession, CreateSessionFails
<1>2. OthersStay(r)
  BY MovesAlone DEF Serve, IInv, TypeOK
<1>3. \/ UNCHANGED rsessions
      \/ \E s \in Session \ created : \E h : rsessions' = [rsessions EXCEPT ![s] = h]
  BY DEF CreateSession, CreateSessionFails
<1>4. GoneStay
  BY <1>3, SameSessions, CreatedSessions
<1>5. Settled(r)'
  BY <1>1, FinishSettled DEF IInv, TypeOK
<1>6. QED
  BY <1>1, <1>2, <1>4, <1>5, SettledStep

\* A relay arrives, is served from the cache or looks its session up.
LEMMA LateRelaySteps ==
    ASSUME IInv, LateInv, NEW r \in Req,
           \/ EapRelay(r) \/ CacheHit(r) \/ CacheMiss(r) \/ RouteSession(r)
           \/ FullAuthHandler(r) \/ SessionGet(r) \/ SessionGetFails(r)
    PROVE  LateInv'
<1>1. UNCHANGED <<rsessions, created, closed>>
  BY DEF EapRelay, CacheHit, CacheMiss, RouteSession, FullAuthHandler, SessionGet,
       SessionGetFails, stores, seen
<1>2. OthersStay(r)
  BY MovesAlone DEF Serve, IInv, TypeOK
<1>3. Settled(r)'
  <2>1. CASE EapRelay(r)
    <3>1. PICK c \in challenges :
              /\ \E m \in Answers(c) : msg' = [msg EXCEPT ![r] = m]
              /\ late' = [late EXCEPT ![r] = c.sid \in closed]
      BY <2>1 DEF EapRelay
    <3>2. PICK m \in Answers(c) : msg' = [msg EXCEPT ![r] = m]
      BY <3>1
    <3>3. m.sid = c.sid
      BY DEF Answers, Msg
    <3>4. pc'[r] = "cacheGet" /\ msg'[r] = m /\ late'[r] = (c.sid \in closed)
      BY <2>1, <3>1, <3>2 DEF EapRelay, Goto, IInv, TypeOK, LocalsOK
    <3>5. QED
      BY <1>1, <3>3, <3>4 DEF Settled, Behind, Early
  <2>2. CASE CacheHit(r) \/ FullAuthHandler(r) \/ SessionGetFails(r)
    BY <2>2, FinishSettled DEF CacheHit, FullAuthHandler, SessionGetFails, IInv, TypeOK
  <2>3. CASE CacheMiss(r) \/ RouteSession(r)
    <3>1. /\ pc'[r] \in Early /\ pc'[r] \notin Behind
          /\ msg'[r] = msg[r] /\ late'[r] = late[r]
      BY <2>3
         DEF CacheMiss, RouteSession, Goto, locals, Early, Behind, IInv, TypeOK, LocalsOK
    <3>2. QED
      BY <1>1, <3>1 DEF Settled, LateInv
  <2>4. CASE SessionGet(r)
    <3>1. /\ pc[r] = "sessionGet" /\ rsessions[msg[r].sid] # NoSession
          /\ pc' = [pc EXCEPT ![r] = Verdict(msg[r], rsessions[msg[r].sid])]
          /\ UNCHANGED <<msg, late>>
      BY <2>4 DEF SessionGet, Goto
    <3>2. ~ late[r]
      BY <3>1 DEF LateInv, Settled, Gone
    <3>3. Verdict(msg[r], rsessions[msg[r].sid]) \notin Behind
      BY <3>1 DEF IInv, RequestInv, Held, Relay, Verdict, Behind
    <3>4. QED
      BY <3>1, <3>2, <3>3 DEF Settled, IInv, TypeOK, LocalsOK
  <2>5. QED
    BY <2>1, <2>2, <2>3, <2>4
<1>4. QED
  BY <1>1, <1>2, <1>3, SameSessions, SettledStep

\* A session is deleted: every DEL is executed.
LEMMA DropIsGone ==
    ASSUME IInv, "redisWrite" \notin Faults, NEW s \in Session, DropSession(s)
    PROVE  Gone(s)'
  BY DEF DropSession, DelOutcomes, Faulty, Gone, IInv, TypeOK, StoresOK

LEMMA LateDropSteps ==
    ASSUME IInv, LateInv, "redisWrite" \notin Faults, NEW r \in Req,
           Reject(r) \/ Abandon(r) \/ Restart(r) \/ CloseSession(r)
    PROVE  LateInv'
<1>1. DropSession(msg[r].sid) /\ created' = created
  BY DEF Reject, Abandon, Restart, CloseSession, seen
<1>2. pc[r] \in Loaded /\ pc[r] \notin Early
  BY DEF Reject, Abandon, Restart, CloseSession, Loaded, Accepted, Early
<1>3. ~ late[r] /\ msg[r].sid \in created /\ msg[r].sid \in Session
  BY <1>2, RelayCreated DEF LateInv, Settled, Relay
<1>4. (Gone(msg[r].sid))' \/ Finish(r)
  <2>1. CASE Reject(r)
    BY <2>1 DEF Reject
  <2>2. CASE Abandon(r) \/ Restart(r) \/ CloseSession(r)
    <3>1. msg' = msg
      BY <2>2 DEF Abandon, Restart, CloseSession, locals
    <3>2. PICK s \in Session : s = msg[r].sid
      BY <1>3
    <3>3. Gone(s)'
      BY <1>1, <3>2, DropIsGone
    <3>4. QED
      BY <3>1, <3>2, <3>3 DEF Gone
  <2>3. QED
    BY <2>1, <2>2
<1>5. Settled(r)'
  <2>1. CASE Finish(r)
    BY <2>1, FinishSettled DEF IInv, TypeOK
  <2>2. CASE ~ Finish(r)
    <3>1. UNCHANGED late
      BY <2>2 DEF Reject, Abandon, Restart, CloseSession, locals
    <3>2. QED
      BY <1>3, <1>4, <2>2, <3>1 DEF Settled
  <2>3. QED
    BY <2>1, <2>2
<1>6. OthersStay(r)
  BY MovesAlone DEF Serve, IInv, TypeOK
<1>7. GoneStay
  BY <1>1, DroppedSessions DEF IInv, TypeOK
<1>8. closed' \in {closed, closed \cup {msg[r].sid}}
  BY DEF Reject, Abandon, Restart, CloseSession, Close, seen
<1>9. \A s \in closed' \ closed : s \in created /\ Gone(s)'
  BY <1>1, <1>3, <1>8, DropIsGone
<1>10. QED
  BY <1>1, <1>5, <1>6, <1>7, <1>8, <1>9, SettledStep

\* The other steps of a request that has loaded its session.
LEMMA LateLoadedSteps ==
    ASSUME IInv, LateInv, NEW r \in Req,
           \/ Forget(r) \/ ForgetRestart(r) \/ InitialRequest(r)
           \/ Rotate(r) \/ Store(r) \/ StoreFails(r) \/ Build(r) \/ BuildFails(r)
           \/ CachePut(r)
    PROVE  LateInv'
<1>1. UNCHANGED <<rsessions, created>>
  BY DEF Forget, ForgetRestart, InitialRequest, Rotate, Store, StoreFails, Build,
       BuildFails, CachePut, stores, seen
<1>2. OthersStay(r)
  BY MovesAlone DEF Serve, IInv, TypeOK
<1>3. pc[r] \in Loaded /\ pc[r] \notin Early
  BY DEF Forget, ForgetRestart, InitialRequest, Rotate, Store, StoreFails, Build,
       BuildFails, CachePut, Loaded, Accepted, Early
<1>4. ~ late[r] /\ msg[r].sid \in created
  BY <1>3, RelayCreated DEF LateInv, Settled, Relay
<1>5. Settled(r)'
  <2>1. CASE Finish(r)
    BY <2>1, FinishSettled DEF IInv, TypeOK
  <2>2. CASE ForgetRestart(r) \/ Build(r)
    <3>1. pc[r] \in Behind /\ UNCHANGED <<msg, late>>
      BY <2>2 DEF ForgetRestart, Build, Behind, locals
    <3>2. QED
      BY <1>1, <1>4, <3>1 DEF Settled, LateInv, Gone
  <2>3. CASE Rotate(r) \/ Store(r)
    <3>1. pc'[r] \notin Behind /\ UNCHANGED late
      BY <2>3 DEF Rotate, Store, Goto, Behind, locals, IInv, TypeOK, LocalsOK
    <3>2. QED
      BY <1>4, <3>1 DEF Settled
  <2>4. QED
    BY <2>1, <2>2, <2>3
       DEF Forget, InitialRequest, StoreFails, BuildFails, CachePut
<1>6. \/ closed' = closed
      \/ closed' = closed \cup {msg[r].sid} /\ pc[r] \in Behind
  BY DEF Forget, ForgetRestart, InitialRequest, Rotate, Store, StoreFails, Build,
       BuildFails, CachePut, Close, Behind, seen
<1>7. \A s \in closed' \ closed : s \in created /\ Gone(s)'
  BY <1>1, <1>4, <1>6 DEF LateInv, Settled, Gone
<1>8. QED
  BY <1>1, <1>2, <1>5, <1>6, <1>7, SameSessions, SettledStep

LEMMA LateEnvironment ==
    ASSUME IInv, LateInv, Environment
    PROVE  LateInv'
<1>1. created' = created /\ closed' = closed
  BY DEF Environment, FullAuth, FullAuthFails, ExpireReauth, ExpireSession, ExpireCache,
       Crash, seen
<1>2. \A s \in Session : Gone(s) => Gone(s)'
  BY DEF Environment, FullAuth, FullAuthFails, ExpireReauth, ExpireSession, ExpireCache,
       Crash, stores, Gone, IInv, TypeOK, StoresOK
<1>3. \/ UNCHANGED <<pc, msg, late>>
      \/ pc' = [r \in Req |-> "idle"] /\ late' = [r \in Req |-> FALSE]
  BY DEF Environment, FullAuth, FullAuthFails, ExpireReauth, ExpireSession, ExpireCache,
       Crash, locals
<1>4. ASSUME NEW r \in Req
      PROVE  Settled(r)'
  <2>1. CASE UNCHANGED <<pc, msg, late>>
    <3>1. pc[r] \in Behind => pc[r] \in Relay
      BY DEF Behind, Relay, Loaded, Accepted
    <3>2. pc[r] \in Behind => (Gone(msg[r].sid))'
      BY <1>2, <2>1, <3>1, RelayCreated DEF LateInv, Settled, Gone
    <3>3. QED
      BY <1>1, <2>1, <3>2 DEF LateInv, Settled
  <2>2. CASE pc' = [q \in Req |-> "idle"] /\ late' = [q \in Req |-> FALSE]
    BY <2>2 DEF Settled, Behind
  <2>3. QED
    BY <1>3, <2>1, <2>2
<1>5. QED
  BY <1>1, <1>2, <1>4 DEF LateInv, IInv, TypeOK, SeenOK

LEMMA NextLate ==
    ASSUME "redisWrite" \notin Faults
    PROVE  IInv /\ LateInv /\ [Next]_vars => LateInv'
<1> SUFFICES ASSUME IInv, LateInv, [Next]_vars
             PROVE  LateInv'
  OBVIOUS
<1>1. ASSUME NEW r \in Req, Token(r) \/ EapRelay(r) \/ Serve(r)
      PROVE  LateInv'
  BY <1>1, LateTokenSteps, LateCreateSteps, LateRelaySteps, LateDropSteps, LateLoadedSteps
     DEF Serve
<1>2. CASE UNCHANGED vars
  BY <1>2 DEF vars, locals, stores, seen, LateInv, Settled, Gone
<1>3. QED
  BY <1>1, <1>2, LateEnvironment DEF Next

\* As long as Redis executes every DEL, a response that arrives after a final reply
\* for its session, a 200 or a failure, is never accepted, whatever copies of it are
\* still being served and wherever the process crashes.
THEOREM NoRotation ==
    ASSUME "redisWrite" \notin Faults
    PROVE  Spec => []NoRotationAfterReply
<1>1. Init => LateInv
  BY DEF Init, LateInv, Settled, Behind
<1>2. IInv /\ LateInv /\ [Next]_vars => LateInv'
  BY NextLate
<1>3. LateInv => NoRotationAfterReply
  BY DEF LateInv, Settled, Early, Accepted, NoRotationAfterReply
<1>4. QED
  BY <1>1, <1>2, <1>3, Invariance, PTL DEF Spec
-----------------------------------------------------------------------------
(* Identities that were handed out *)

\* An identity is usable, or its device has had its use of it.
Kept(i) ==
    \/ reauths[i] # NoReauth
    \/ Exhausted(issued[i].depth)
    \/ \E c \in challenges : c.rid = i

\* The calls that follow the storing of a successor.
AfterStore == {"close", "build", "cachePut"}

\* What request r knows of the identity it is about to delete or hand out.
Careful(r) ==
    /\ pc[r] = "giveUp" =>
           /\ msg[r].rid \in ReauthId /\ issued[msg[r].rid] # None
           /\ Exhausted(issued[msg[r].rid].depth)
    /\ pc[r] \in AfterStore => Kept(loaded[r].next)

KeptInv ==
    /\ \A reply \in cache \cup granted : Kept(reply.rid)
    /\ \A r \in Req : Careful(r)

LEMMA BackedIssued ==
    ASSUME NEW session \in ReauthSession, Backed(session)
    PROVE  session.next \in ReauthId /\ issued[session.next] # None
<1>1. session.counter + 1 \in Counter
  BY ConstantsOK DEF ReauthSession, Backed, From, Counter
<1>2. [root |-> session.root, depth |-> session.counter + 1] \in Lineage
  BY <1>1 DEF Backed, From, Lineage
<1>3. QED
  BY <1>2, ConstantsOK DEF Backed

LEMMA OfferedIssued ==
    ASSUME IInv, NEW reply, Offered(reply)
    PROVE  reply.rid \in ReauthId /\ issued[reply.rid] # None
<1>1. PICK c \in challenges : reply.rid = c.next
  BY DEF Offered
<1>2. /\ c \in Challenge /\ issued[c.rid] # None /\ c.counter < MaxCounter
      /\ issued[c.next] = [root |-> issued[c.rid].root, depth |-> c.counter + 1]
  BY DEF IInv, TypeOK, SeenOK, ChallengeInv
<1>3. issued[c.rid] \in Lineage /\ c.counter + 1 \in Counter
  BY <1>2, ConstantsOK DEF IInv, TypeOK, SeenOK, Challenge, Counter
<1>4. [root |-> issued[c.rid].root, depth |-> c.counter + 1] \in Lineage
  BY <1>3 DEF Lineage
<1>5. QED
  BY <1>1, <1>2, <1>4, ConstantsOK DEF Challenge

\* No identity that is issued and kept is lost.
KeptStay == \A i \in ReauthId : issued[i] # None /\ Kept(i) => Kept(i)'

LEMMA StoredStays ==
    ASSUME Grows, \A i \in ReauthId : reauths[i] # NoReauth => reauths'[i] # NoReauth
    PROVE  KeptStay
  BY DEF Grows, KeptStay, Kept

\* Deleting an identity that its device has had its use of loses nothing.
LEMMA DroppedStays ==
    ASSUME StoresOK, Grows, NEW i, DropIdentity(i),
           i \in ReauthId =>
               \/ issued[i] # None /\ Exhausted(issued[i].depth)
               \/ \E c \in challenges : c.rid = i
    PROVE  KeptStay
<1>1. \A j \in ReauthId : j # i => reauths'[j] = reauths[j]
  BY DEF DropIdentity, StoresOK
<1>2. QED
  BY <1>1 DEF Grows, KeptStay, Kept

\* The other requests keep their identities.
LEMMA KeptStep ==
    ASSUME IInv, KeptInv, Grows, KeptStay, NEW r \in Req,
           \A q \in Req \ {r} :
               pc'[q] = pc[q] /\ msg'[q] = msg[q] /\ loaded'[q] = loaded[q],
           \A reply \in cache' \cup granted' :
               reply \in cache \cup granted \/ (Kept(reply.rid))',
           Careful(r)'
    PROVE  KeptInv'
<1>1. ASSUME NEW reply \in cache' \cup granted', reply \in cache \cup granted
      PROVE  (Kept(reply.rid))'
  <2>1. reply.rid \in ReauthId /\ issued[reply.rid] # None
    BY <1>1, OfferedIssued DEF IInv, ReplyInv
  <2>2. QED
    BY <1>1, <2>1 DEF KeptInv, KeptStay, Kept
<1>2. ASSUME NEW q \in Req, q # r
      PROVE  Careful(q)'
  <2>1. pc'[q] = pc[q] /\ msg'[q] = msg[q] /\ loaded'[q] = loaded[q]
    BY <1>2
  <2>2. CASE pc[q] = "giveUp"
    BY <2>1, <2>2 DEF KeptInv, Careful, Grows, AfterStore
  <2>3. CASE pc[q] \in AfterStore
    <3>1. Backed(loaded[q]) /\ loaded[q] \in ReauthSession
      BY <2>3 DEF AfterStore, Loaded, Accepted, IInv, TypeOK, LocalsOK, RequestInv, Held
    <3>2. loaded[q].next \in ReauthId /\ issued[loaded[q].next] # None
      BY <3>1, BackedIssued
    <3>3. QED
      BY <2>1, <2>3, <3>2 DEF KeptInv, Careful, AfterStore, KeptStay, Kept
  <2>4. QED
    BY <2>1, <2>2, <2>3 DEF Careful
<1>3. QED
  BY <1>1, <1>2 DEF KeptInv

\* A request goes to a call that knows of no identity, or returns.
LEMMA CarefulElsewhere ==
    ASSUME LocalsOK, NEW r \in Req,
           \/ Finish(r)
           \/ \E call : Goto(r, call) /\ call # "giveUp" /\ call \notin AfterStore
    PROVE  Careful(r)'
  BY DEF LocalsOK, Finish, Goto, Careful, AfterStore

LEMMA LoadedAlone ==
    ASSUME LocalsOK, NEW r \in Req, Token(r) \/ EapRelay(r) \/ Serve(r)
    PROVE  \A q \in Req \ {r} :
               pc'[q] = pc[q] /\ msg'[q] = msg[q] /\ loaded'[q] = loaded[q]
<1>1. \A q \in Req \ {r} : loaded'[q] = loaded[q]
  BY DEF Token, EapRelay, Serve, RouteGet, HandlerGet, HandlerGetFails, GiveUp, TokenCheck,
       CreateSession, CreateSessionFails, CacheHit, CacheMiss, RouteSession,
       FullAuthHandler, SessionGet, SessionGetFails, Reject, Abandon, Forget, Restart,
       ForgetRestart, InitialRequest, Rotate, Store, StoreFails, CloseSession, Build,
       BuildFails, CachePut, locals, Finish, LocalsOK
<1>2. QED
  BY <1>1, MovesAlone DEF OthersStay

-----------------------------------------------------------------------------
(* Identities that were handed out: the steps *)

LEMMA IdleIdentitySteps ==
    ASSUME IInv, KeptInv, NEW r \in Req,
           \/ Token(r) \/ RouteGet(r) \/ HandlerGetFails(r) \/ TokenCheck(r)
           \/ EapRelay(r) \/ CacheHit(r) \/ CacheMiss(r) \/ RouteSession(r)
           \/ FullAuthHandler(r) \/ SessionGet(r) \/ SessionGetFails(r)
           \/ Reject(r) \/ Abandon(r) \/ Restart(r) \/ InitialRequest(r) \/ BuildFails(r)
    PROVE  KeptInv'
<1>1. UNCHANGED <<reauths, issued, created, challenges, cache>>
  BY DEF Token, RouteGet, HandlerGetFails, TokenCheck, EapRelay, CacheHit, CacheMiss,
       RouteSession, FullAuthHandler, SessionGet, SessionGetFails, Reject, Abandon, Restart,
       InitialRequest, BuildFails, stores, seen
<1>2. answered \subseteq answered'
  BY DEF Token, RouteGet, HandlerGetFails, TokenCheck, EapRelay, CacheHit, CacheMiss,
       RouteSession, FullAuthHandler, SessionGet, SessionGetFails, Reject, Abandon, Restart,
       InitialRequest, BuildFails, seen
<1>3. Grows /\ KeptStay
  BY <1>1, <1>2, StoredStays DEF Grows
<1>4. \A reply \in cache' \cup granted' :
          reply \in cache \cup granted \/ (Kept(reply.rid))'
  <2>1. CASE CacheHit(r)
    <3>1. PICK e \in Cached(msg[r]) :
              granted' = granted \cup {[msg |-> msg[r], rid |-> e.rid]}
      BY <2>1 DEF CacheHit
    <3>2. e \in cache /\ e \in Reply /\ e.msg = msg[r]
      BY DEF Cached, IInv, TypeOK, StoresOK
    <3>3. granted' = granted \cup {e}
      BY <3>1, <3>2 DEF Reply
    <3>4. QED
      BY <1>1, <3>2, <3>3
  <2>2. CASE ~ CacheHit(r)
    <3>1. granted' = granted
      BY <2>2
         DEF Token, RouteGet, HandlerGetFails, TokenCheck, EapRelay, CacheMiss, RouteSession,
             FullAuthHandler, SessionGet, SessionGetFails, Reject, Abandon, Restart,
             InitialRequest, BuildFails, seen
    <3>2. QED
      BY <1>1, <3>1
  <2>3. QED
    BY <2>1, <2>2
<1>5. \/ Finish(r)
      \/ \E call : Goto(r, call) /\ call # "giveUp" /\ call \notin AfterStore
  <2>1. CASE SessionGet(r)
    <3>1. /\ pc[r] = "sessionGet"
          /\ Goto(r, Verdict(msg[r], rsessions[msg[r].sid]))
      BY <2>1 DEF SessionGet
    <3>2. Verdict(msg[r], rsessions[msg[r].sid])
              \in {"reject", "restart", "abandon", "rotate"}
      BY <3>1 DEF IInv, RequestInv, Held, Relay, Verdict
    <3>3. QED
      BY <3>1, <3>2 DEF AfterStore
  <2>2. CASE ~ SessionGet(r)
    BY <2>2
       DEF Token, RouteGet, HandlerGetFails, TokenCheck, EapRelay, CacheHit, CacheMiss,
           RouteSession, FullAuthHandler, SessionGetFails, Reject, Abandon, Restart,
           InitialRequest, BuildFails, AfterStore
  <2>3. QED
    BY <2>1, <2>2
<1>6. Careful(r)'
  BY <1>5, CarefulElsewhere DEF IInv, TypeOK
<1>7. QED
  BY <1>3, <1>4, <1>6, LoadedAlone, KeptStep DEF Serve, IInv, TypeOK

LEMMA ExhaustedSteps ==
    ASSUME IInv, KeptInv, NEW r \in Req, HandlerGet(r) \/ GiveUp(r)
    PROVE  KeptInv'
<1>1. UNCHANGED <<msg, cache, seen>>
  BY DEF HandlerGet, GiveUp, stores, locals
<1>2. Grows
  BY <1>1, StillGrows DEF Still, seen
<1>3. CASE HandlerGet(r)
  <2>1. KeptStay
    BY <1>2, <1>3, StoredStays DEF HandlerGet, stores
  <2>2. Careful(r)'
    <3>1. CASE Goto(r, "giveUp") /\ Exhausted(reauths[msg[r].rid].counter)
                 /\ reauths[msg[r].rid] # NoReauth
      <4>1. msg[r].rid \in ReauthId
        BY <1>3 DEF HandlerGet, IInv, RequestInv, Held, Identified
      <4>2. /\ reauths[msg[r].rid].root \in ReauthId
            /\ issued[msg[r].rid] = [root  |-> reauths[msg[r].rid].root,
                                     depth |-> reauths[msg[r].rid].counter]
        BY <3>1, <4>1 DEF IInv, IdentityInv
      <4>3. issued[msg[r].rid] \in Lineage
        BY <4>1, <4>2 DEF Lineage, IInv, TypeOK, StoresOK, ReauthState
      <4>4. issued[msg[r].rid] # None /\ Exhausted(issued[msg[r].rid].depth)
        BY <3>1, <4>2, <4>3, ConstantsOK
      <4>5. QED
        BY <1>1, <3>1, <4>1, <4>4
           DEF Goto, Careful, AfterStore, seen, IInv, TypeOK, LocalsOK
    <3>2. CASE Goto(r, "tokenCheck") \/ Goto(r, "challenge")
      BY <3>2, CarefulElsewhere DEF AfterStore, IInv, TypeOK
    <3>3. QED
      BY <1>3, <3>1, <3>2 DEF HandlerGet
  <2>3. QED
    BY <1>1, <1>2, <1>3, <2>1, <2>2, LoadedAlone, KeptStep DEF Serve, seen, IInv, TypeOK
<1>4. CASE GiveUp(r)
  <2>1. /\ pc[r] = "giveUp" /\ DropIdentity(msg[r].rid)
        /\ Goto(r, "tokenCheck")
    BY <1>4 DEF GiveUp
  <2>2. KeptStay
    BY <1>2, <2>1, DroppedStays DEF KeptInv, Careful, IInv, TypeOK
  <2>3. Careful(r)'
    BY <2>1, CarefulElsewhere DEF AfterStore, IInv, TypeOK
  <2>4. QED
    BY <1>1, <1>2, <1>4, <2>2, <2>3, LoadedAlone, KeptStep DEF Serve, seen, IInv, TypeOK
<1>5. QED
  BY <1>3, <1>4

LEMMA CreateIdentitySteps ==
    ASSUME IInv, KeptInv, NEW r \in Req, CreateSession(r) \/ CreateSessionFails(r)
    PROVE  KeptInv'
<1>1. /\ Finish(r) /\ UNCHANGED <<reauths, cache, answered, granted>>
      /\ created \subseteq created' /\ challenges \subseteq challenges'
  BY DEF CreateSession, CreateSessionFails
<1>2. issued' = issued \/ \E i \in ReauthId : IssueNext(r, i)
  BY DEF CreateSession, CreateSessionFails
<1>3. Grows
  BY <1>1, <1>2 DEF Grows, IssueNext, FreshIdentity, IInv, TypeOK, SeenOK
<1>4. KeptStay /\ Careful(r)'
  BY <1>1, <1>3, StoredStays, CarefulElsewhere DEF IInv, TypeOK
<1>5. QED
  BY <1>1, <1>3, <1>4, LoadedAlone, KeptStep DEF Serve, IInv, TypeOK

LEMMA RotationSteps ==
    ASSUME IInv, KeptInv, "redisWrite" \notin Faults, NEW r \in Req,
           \/ Forget(r) \/ ForgetRestart(r) \/ Rotate(r)
           \/ Store(r) \/ StoreFails(r) \/ CloseSession(r) \/ Build(r) \/ CachePut(r)
    PROVE  KeptInv'
<1>1. UNCHANGED <<issued, created, challenges, answered>>
  BY DEF Forget, ForgetRestart, Rotate, Store, StoreFails, CloseSession, Build, CachePut,
       stores, seen
<1>2. Grows
  BY <1>1, StillGrows DEF Still
<1>3. pc[r] \in Loaded
  BY DEF Forget, ForgetRestart, Rotate, Store, StoreFails, CloseSession, Build, CachePut,
       Loaded, Accepted
<1>4. /\ loaded[r] \in ReauthSession /\ Backed(loaded[r])
      /\ \E c \in challenges : c.rid = loaded[r].rid
  BY <1>3 DEF IInv, TypeOK, LocalsOK, RequestInv, Held, Made
<1>5. CASE Forget(r) \/ ForgetRestart(r) \/ Rotate(r)
  <2>1. DropIdentity(loaded[r].rid) /\ UNCHANGED <<cache, granted>>
    BY <1>5 DEF Forget, ForgetRestart, Rotate, seen
  <2>2. KeptStay
    BY <1>2, <1>4, <2>1, DroppedStays DEF IInv, TypeOK
  <2>3. Careful(r)'
    BY <1>5, CarefulElsewhere DEF Forget, ForgetRestart, Rotate, AfterStore, IInv, TypeOK
  <2>4. QED
    BY <1>2, <1>5, <2>1, <2>2, <2>3, LoadedAlone, KeptStep DEF Serve, IInv, TypeOK
<1>6. CASE Store(r)
  <2>1. /\ reauths' = [reauths EXCEPT ![loaded[r].next] = Rotated(loaded[r])]
        /\ Goto(r, "close") /\ UNCHANGED <<locals, cache, granted>>
    BY <1>6 DEF Store, seen
  <2>2. Rotated(loaded[r]) # NoReauth
    BY <1>4, ConstantsOK DEF Rotated, NoReauth, Backed, From
  <2>3. KeptStay
    BY <1>2, <2>1, <2>2, StoredStays DEF IInv, TypeOK, StoresOK
  <2>4. (Kept(loaded[r].next))'
    BY <1>4, <2>1, <2>2 DEF Kept, Backed, locals, IInv, TypeOK, StoresOK
  <2>5. Careful(r)'
    BY <2>1, <2>4 DEF Goto, Careful, IInv, TypeOK, LocalsOK
  <2>6. QED
    BY <1>2, <1>6, <2>1, <2>3, <2>5, LoadedAlone, KeptStep DEF Serve, IInv, TypeOK
<1>7. CASE CloseSession(r) \/ Build(r)
  <2>1. /\ UNCHANGED <<locals, reauths, cache, granted>>
        /\ Goto(r, "build") \/ Goto(r, "cachePut")
        /\ pc[r] \in AfterStore
    BY <1>7 DEF CloseSession, Build, stores, seen, AfterStore
  <2>2. KeptStay
    BY <1>2, <2>1, StoredStays
  <2>3. Careful(r)'
    BY <1>1, <2>1 DEF Goto, Careful, AfterStore, Kept, locals, KeptInv, IInv, TypeOK,
         LocalsOK
  <2>4. QED
    BY <1>2, <1>7, <2>1, <2>2, <2>3, LoadedAlone, KeptStep DEF Serve, IInv, TypeOK
<1>8. CASE CachePut(r)
  <2> DEFINE reply == [msg |-> msg[r], rid |-> loaded[r].next]
  <2>1. /\ pc[r] = "cachePut" /\ Finish(r) /\ UNCHANGED reauths
        /\ cache' \subseteq cache \cup {reply}
        /\ granted' = granted \cup {reply}
    BY <1>8 DEF CachePut
  <2>2. KeptStay
    BY <1>2, <2>1, StoredStays
  <2>3. Kept(reply.rid)
    BY <2>1 DEF KeptInv, Careful, AfterStore
  <2>4. ASSUME NEW e \in cache' \cup granted', e \notin cache \cup granted
        PROVE  (Kept(e.rid))'
    <3>1. e = reply
      BY <2>1, <2>4
    <3>2. QED
      BY <1>1, <2>1, <2>3, <3>1 DEF Kept
  <2>5. Careful(r)'
    BY <2>1, CarefulElsewhere DEF IInv, TypeOK
  <2>6. QED
    BY <1>2, <1>8, <2>2, <2>4, <2>5, LoadedAlone, KeptStep DEF Serve, IInv, TypeOK
<1>9. CASE StoreFails(r)
  BY <1>9 DEF StoreFails, Faulty
<1>10. QED
  BY <1>5, <1>6, <1>7, <1>8, <1>9

LEMMA KeptEnvironment ==
    ASSUME IInv, KeptInv, "redisWrite" \notin Faults, "expiry" \notin Faults,
           Environment
    PROVE  KeptInv'
<1>1. ASSUME NEW i \in ReauthId, FullAuth(i)
      PROVE  KeptInv'
  <2>1. /\ issued[i] = None
        /\ issued' = [issued EXCEPT ![i] = [root |-> i, depth |-> 1]]
        /\ reauths' = [reauths EXCEPT ![i] = [root |-> i, counter |-> 1, ttl |-> TRUE]]
        /\ UNCHANGED <<pc, locals, cache, created, challenges, answered, granted>>
    BY <1>1 DEF FullAuth, FreshIdentity
  <2>2. Grows
    BY <2>1 DEF Grows, IInv, TypeOK, SeenOK
  <2>3. KeptStay
    BY <2>1, <2>2, StoredStays DEF NoReauth, IInv, TypeOK, StoresOK
  <2>4. ASSUME NEW reply \in cache \cup granted
        PROVE  (Kept(reply.rid))'
    <3>1. reply.rid \in ReauthId /\ issued[reply.rid] # None
      BY OfferedIssued DEF IInv, ReplyInv
    <3>2. QED
      BY <2>3, <3>1 DEF KeptInv, KeptStay, Kept
  <2>5. ASSUME NEW r \in Req
        PROVE  Careful(r)'
    <3>1. CASE pc[r] = "giveUp"
      BY <2>1, <2>2, <3>1 DEF locals, KeptInv, Careful, Grows, AfterStore
    <3>2. CASE pc[r] \in AfterStore
      <4>1. Backed(loaded[r]) /\ loaded[r] \in ReauthSession
        BY <3>2 DEF AfterStore, Loaded, Accepted, IInv, TypeOK, LocalsOK, RequestInv, Held
      <4>2. loaded[r].next \in ReauthId /\ issued[loaded[r].next] # None
        BY <4>1, BackedIssued
      <4>3. QED
        BY <2>1, <2>3, <3>2, <4>2
           DEF locals, KeptInv, Careful, AfterStore, KeptStay, Kept
    <3>3. QED
      BY <2>1, <3>1, <3>2 DEF Careful
  <2>6. QED
    BY <2>1, <2>4, <2>5 DEF KeptInv
<1>2. CASE Crash
  BY <1>2 DEF Crash, stores, seen, KeptInv, Careful, AfterStore, Kept
<1>3. QED
  BY <1>1, <1>2
     DEF Environment, FullAuthFails, ExpireReauth, ExpireSession, ExpireCache, Faulty

LEMMA NextKept ==
    ASSUME "redisWrite" \notin Faults, "expiry" \notin Faults
    PROVE  IInv /\ KeptInv /\ [Next]_vars => KeptInv'
<1> SUFFICES ASSUME IInv, KeptInv, [Next]_vars
             PROVE  KeptInv'
  OBVIOUS
<1>1. ASSUME NEW r \in Req, Token(r) \/ EapRelay(r) \/ Serve(r)
      PROVE  KeptInv'
  BY <1>1, IdleIdentitySteps, ExhaustedSteps, CreateIdentitySteps, RotationSteps
     DEF Serve
<1>2. CASE UNCHANGED vars
  BY <1>2 DEF vars, locals, stores, seen, KeptInv, Careful, AfterStore, Kept
<1>3. QED
  BY <1>1, <1>2, KeptEnvironment DEF Next

\* As long as Redis executes every write and nothing expires, an identity handed out in
\* a 200 reply stays usable until its device uses it or its counter is exhausted:
\* whatever other sessions of the same lineage are rotated, rejected or restarted
\* meanwhile, and wherever the process crashes.
THEOREM DeliveredUsable ==
    ASSUME "redisWrite" \notin Faults, "expiry" \notin Faults
    PROVE  Spec => []DeliveredStaysUsable
<1>1. Init => KeptInv
  BY DEF Init, KeptInv, Careful, AfterStore
<1>2. IInv /\ KeptInv /\ [Next]_vars => KeptInv'
  BY NextKept
<1>3. KeptInv => DeliveredStaysUsable
  BY DEF KeptInv, Kept, DeliveredStaysUsable
<1>4. QED
  BY <1>1, <1>2, <1>3, Invariance, PTL DEF Spec
=============================================================================
