---------------------------- MODULE EapAkaProofs ----------------------------
(***************************************************************************)
(* Proofs about module EapAka for every number of subscribers, sessions,   *)
(* vectors, identities and concurrent requests, and for every set of       *)
(* faults.  The inductive invariant IInv says which request owns what at   *)
(* each of its calls and ties every copy of a session's key material, in   *)
(* Redis, in a goroutine or in a reply, to the vector and the subscriber   *)
(* it came from.                                                           *)
(***************************************************************************)
EXTENDS EapAka, TLAPS

\* What a request has in hand before each call.
RequestInv ==
    \A r \in Req :
        /\ pc[r] \in Relay => msg[r].sid \in created
        /\ pc[r] \in {"resync", "update"} \cup Accepted => loaded[r].state = Sent
        /\ pc[r] = "create" =>
               /\ fresh[r].vec \in Vec
               /\ msg[r].imsi \in Known
               /\ vectors[fresh[r].vec] = msg[r].imsi
        /\ pc[r] = "update" =>
               /\ fresh[r].vec \in Vec
               /\ vectors[fresh[r].vec] = loaded[r].imsi
        /\ pc[r] \in Relay /\ msg[r].kind = "challenge" =>
               (msg[r].res # None => msg[r].res \in answered)
        /\ pc[r] \in Accepted => Genuine(msg[r]) /\ msg[r].res = loaded[r].vec
        /\ pc[r] \in {"delete", "build", "cachePut"} =>
               /\ rid[r] \in ReauthId
               /\ issued[rid[r]] = [imsi |-> loaded[r].imsi, vec |-> loaded[r].vec]

\* A session hash or a copy of one that is in state CHALLENGE_SENT names a
\* subscriber the HSS knows and a vector generated for that subscriber.
Owned(session) ==
    session.state = Sent =>
        /\ session.vec \in Vec
        /\ session.imsi \in Known
        /\ vectors[session.vec] = session.imsi

SessionInv ==
    /\ \A s \in Session : Owned(sessions[s])
    /\ \A s \in Session \ created : sessions[s] = NoSession
    /\ \A r \in Req : Owned(loaded[r])
    \* A session never changes its subscriber.
    /\ \A r \in Req :
           pc[r] \in {"resync", "update"} /\ sessions[msg[r].sid].state = Sent =>
               sessions[msg[r].sid].imsi = loaded[r].imsi

WorldInv ==
    /\ \A c \in challenges : c.sid \in created /\ vectors[c.vec] \in Known
    /\ \A v \in answered : vectors[v] \in Known
    /\ \A i \in ReauthId :
           issued[i] # None =>
               /\ issued[i].vec \in answered
               /\ issued[i].imsi = vectors[issued[i].vec]
    /\ \A i \in ReauthId :
           reauths[i].vec # None =>
               /\ issued[i] # None
               /\ issued[i] = [imsi |-> reauths[i].imsi, vec |-> reauths[i].vec]

\* A reply names an identity issued for the challenge response it answers.
Earned(reply) ==
    /\ Genuine(reply.msg)
    /\ reply.msg.res \in answered
    /\ issued[reply.rid] =
           [imsi |-> vectors[reply.msg.res], vec |-> reply.msg.res]

ReplyInv == \A reply \in cache \cup granted : Earned(reply)

\* The inductive invariant.
IInv == TypeOK /\ RequestInv /\ SessionInv /\ WorldInv /\ ReplyInv
-----------------------------------------------------------------------------
(* Facts the steps share *)

USE DEF Sent, NoState

LEMMA ConstantRecords ==
    /\ NoSession \in EapSession
    /\ NoReauth \in ReauthState
    /\ NoMsg \in Message
    /\ NoFresh \in Fresh
  BY ConstantsOK DEF NoSession, EapSession, NoReauth, ReauthState, NoMsg, Msg, Message,
       NoFresh, Fresh

\* A request that has finished holds nothing.
LEMMA FinishLocals ==
    ASSUME LocalsOK, NEW r \in Req, Finish(r)
    PROVE  /\ LocalsOK'
           /\ pc'[r] = "idle" /\ loaded'[r] = NoSession
           /\ \A q \in Req \ {r} :
                  /\ pc'[q] = pc[q] /\ msg'[q] = msg[q] /\ loaded'[q] = loaded[q]
                  /\ fresh'[q] = fresh[q] /\ rid'[q] = rid[q] /\ late'[q] = late[q]
  BY ConstantRecords DEF LocalsOK, Finish, Goto, Calls

\* A request that only goes on to another call keeps what it holds.
LEMMA GotoLocals ==
    ASSUME LocalsOK, NEW r \in Req, NEW call \in Calls, Goto(r, call), UNCHANGED locals
    PROVE  /\ LocalsOK'
           /\ pc'[r] = call
           /\ \A q \in Req \ {r} : pc'[q] = pc[q]
  BY DEF LocalsOK, Goto, locals

\* What the rest of the world has seen is never taken back.
Grows ==
    /\ created \subseteq created'
    /\ answered \subseteq answered'
    /\ \A v \in Vec : vectors[v] # None => vectors'[v] = vectors[v]
    /\ \A i \in ReauthId : issued[i] # None => issued'[i] = issued[i]

\* What was earned once stays earned.
LEMMA EarnedStays ==
    ASSUME TypeOK, WorldInv, Grows, NEW reply \in Reply, Earned(reply)
    PROVE  Earned(reply)'
<1>1. reply.msg.res \in Vec /\ vectors[reply.msg.res] \in Known
  BY DEF TypeOK, SeenOK, WorldInv, Earned
<1>2. reply.rid \in ReauthId /\ issued[reply.rid] # None
  BY <1>1, ConstantsOK DEF Reply, Earned, Identity
<1>3. QED
  BY <1>1, <1>2, ConstantsOK DEF Earned, Grows, Genuine

\* A request whose handler returns without having touched anything.
LEMMA FinishStep ==
    ASSUME IInv, NEW r \in Req, Finish(r), UNCHANGED <<stores, counter, seen>>
    PROVE  IInv'
<1> USE DEF IInv
<1>1. TypeOK'
  BY FinishLocals DEF TypeOK, StoresOK, SeenOK, stores, seen
<1>2. RequestInv'
  BY FinishLocals DEF TypeOK, RequestInv, Relay, Accepted, seen, Genuine
<1>3. SessionInv'
  <2>1. \A q \in Req : (Owned(loaded[q]))'
    BY FinishLocals DEF TypeOK, SessionInv, Owned, NoSession, seen
  <2>2. \A q \in Session : (Owned(sessions[q]))'
    BY DEF SessionInv, Owned, stores, seen
  <2>3. QED
    BY <2>1, <2>2, FinishLocals DEF TypeOK, SessionInv, stores, seen
<1>4. WorldInv'
  BY DEF WorldInv, stores, seen
<1>5. ReplyInv'
  BY DEF ReplyInv, Earned, Genuine, stores, seen
<1>6. QED
  BY <1>1, <1>2, <1>3, <1>4, <1>5

-----------------------------------------------------------------------------
(* RT1 *)

LEMMA InitialStep ==
    ASSUME IInv, NEW r \in Req, Initial(r)
    PROVE  IInv'
<1> USE DEF IInv, Initial
<1>1. PICK imsi \in Imsi :
          msg' = [msg EXCEPT ![r] = Msg("initial", imsi, None, None, None)]
  OBVIOUS
<1>2. Msg("initial", imsi, None, None, None) \in Message
  BY DEF Msg, Message
<1>3. TypeOK'
  BY <1>1, <1>2 DEF TypeOK, LocalsOK, StoresOK, SeenOK, stores, seen, Goto, Calls
<1>4. RequestInv'
  BY <1>1 DEF TypeOK, LocalsOK, RequestInv, Relay, Accepted, seen, Goto, Genuine
<1>5. SessionInv'
  BY <1>1 DEF TypeOK, LocalsOK, SessionInv, Owned, stores, seen, Goto
<1>6. WorldInv'
  BY DEF WorldInv, stores, seen
<1>7. ReplyInv'
  BY DEF ReplyInv, Earned, stores, seen
<1>8. QED
  BY <1>3, <1>4, <1>5, <1>6, <1>7

LEMMA FetchVectorsStep ==
    ASSUME IInv, NEW r \in Req, FetchVectors(r)
    PROVE  IInv'
<1> USE DEF IInv, FetchVectors
<1>1. PICK v \in Vec : FreshVector(v) /\ TakeVector(r, v, msg[r].imsi)
  OBVIOUS
<1>2. Grows
  BY <1>1 DEF Grows, FreshVector, TakeVector
<1>3. msg[r].imsi \in Known /\ vectors'[v] = msg[r].imsi /\ Known \subseteq Imsi
  BY <1>1, ConstantsOK DEF TypeOK, SeenOK, TakeVector
<1>4. TypeOK'
  BY <1>1, <1>3, ConstantsOK
     DEF TypeOK, LocalsOK, StoresOK, SeenOK, stores, TakeVector, NextIdentifier,
         Fresh, Goto, Calls
<1>5. RequestInv'
  BY <1>1, <1>2, <1>3, ConstantsOK
     DEF TypeOK, LocalsOK, SeenOK, RequestInv, SessionInv, WorldInv, Owned, Relay,
         Accepted, Goto, TakeVector, FreshVector, Genuine
<1>6. SessionInv'
  BY <1>1, <1>2, ConstantsOK
     DEF TypeOK, LocalsOK, SessionInv, Owned, stores, Goto, FreshVector, TakeVector
<1>7. WorldInv'
  BY <1>1, <1>2, ConstantsOK DEF TypeOK, SeenOK, WorldInv, stores, Challenge, Grows
<1>8. ReplyInv'
  BY <1>2, EarnedStays DEF TypeOK, StoresOK, SeenOK, ReplyInv, stores
<1>9. QED
  BY <1>4, <1>5, <1>6, <1>7, <1>8

LEMMA CreateSessionStep ==
    ASSUME IInv, NEW r \in Req, CreateSession(r)
    PROVE  IInv'
<1> USE DEF IInv, CreateSession
<1> DEFINE new == NewSession(msg[r].imsi, fresh[r])
<1>1. PICK s \in Session \ created :
          /\ sessions' = [sessions EXCEPT ![s] = new]
          /\ created' = created \cup {s}
          /\ SendChallenge(r, s)
  OBVIOUS
<1>2. Grows
  BY <1>1 DEF Grows
<1>3. /\ fresh[r].vec \in Vec /\ fresh[r].identifier \in 0 .. IdMod - 1
      /\ msg[r].imsi \in Known /\ vectors[fresh[r].vec] = msg[r].imsi
  BY DEF TypeOK, LocalsOK, Fresh, RequestInv
<1>4. new \in EapSession /\ Owned(new)
  BY <1>3, ConstantsOK DEF NewSession, EapSession, Owned
<1>5. TypeOK'
  BY <1>1, <1>3, <1>4, FinishLocals
     DEF TypeOK, StoresOK, SeenOK, SendChallenge, Challenge
<1>6. RequestInv'
  BY <1>2, FinishLocals
     DEF TypeOK, RequestInv, Relay, Accepted, Genuine, Grows
<1>7. SessionInv'
  <2>1. \A q \in Req \ {r} : pc[q] \in Relay => msg[q].sid # s
    BY <1>1 DEF RequestInv
  <2>2. \A q \in Req : (Owned(loaded[q]))'
    BY FinishLocals DEF TypeOK, SessionInv, Owned, NoSession
  <2>3. \A q \in Session : (Owned(sessions[q]))'
    BY <1>1, <1>4 DEF TypeOK, StoresOK, SessionInv, Owned
  <2>4. QED
    BY <1>1, <2>1, <2>2, <2>3, FinishLocals
       DEF TypeOK, StoresOK, SessionInv, Relay, Calls
<1>8. WorldInv'
  BY <1>1, <1>3 DEF TypeOK, SeenOK, WorldInv, SendChallenge
<1>9. ReplyInv'
  BY DEF ReplyInv, Earned
<1>10. QED
  BY <1>5, <1>6, <1>7, <1>8, <1>9

LEMMA CreateSessionFailsStep ==
    ASSUME IInv, NEW r \in Req, CreateSessionFails(r)
    PROVE  IInv'
<1> USE DEF IInv
<1> DEFINE new == NewSession(msg[r].imsi, fresh[r])
<1>1. CASE UNCHANGED <<sessions, created>>
  BY <1>1, FinishStep DEF CreateSessionFails, stores, seen
<1>2. ASSUME NEW s \in Session \ created,
             NEW h \in PipelineOutcomes(sessions[s], new),
             sessions' = [sessions EXCEPT ![s] = h],
             created' = created \cup {s}
      PROVE  IInv'
  <2> USE <1>2 DEF CreateSessionFails
  <2>1. Grows
    BY DEF Grows
  <2>2. /\ fresh[r].vec \in Vec /\ fresh[r].identifier \in 0 .. IdMod - 1
        /\ msg[r].imsi \in Known /\ vectors[fresh[r].vec] = msg[r].imsi
    BY DEF TypeOK, LocalsOK, Fresh, RequestInv
  <2>3. h \in EapSession /\ Owned(h)
    <3>1. new \in EapSession /\ Owned(new)
      BY <2>2, ConstantsOK DEF NewSession, EapSession, Owned
    <3>2. sessions[s] \in EapSession /\ Owned(sessions[s])
      BY DEF TypeOK, StoresOK, SessionInv
    <3>3. [new EXCEPT !.ttl = sessions[s].ttl] \in EapSession
      BY <3>1, <3>2 DEF EapSession
    <3>4. Owned([new EXCEPT !.ttl = sessions[s].ttl])
      BY <3>1 DEF NewSession, Owned
    <3>5. QED
      BY <3>1, <3>2, <3>3, <3>4 DEF PipelineOutcomes
  <2>4. TypeOK'
    BY <2>3, FinishLocals DEF TypeOK, StoresOK, SeenOK
  <2>5. RequestInv'
    BY <2>1, FinishLocals DEF TypeOK, RequestInv, Relay, Accepted, Genuine, Grows
  <2>6. SessionInv'
    <3>1. \A q \in Req \ {r} : pc[q] \in Relay => msg[q].sid # s
      BY DEF RequestInv
    <3>2. \A q \in Req : (Owned(loaded[q]))'
      BY FinishLocals DEF TypeOK, SessionInv, Owned, NoSession
    <3>3. \A q \in Session : (Owned(sessions[q]))'
      BY <2>3 DEF TypeOK, StoresOK, SessionInv, Owned
    <3>4. QED
      BY <3>1, <3>2, <3>3, FinishLocals
         DEF TypeOK, StoresOK, SessionInv, Relay, Calls
  <2>7. WorldInv'
    BY DEF WorldInv
  <2>8. ReplyInv'
    BY DEF ReplyInv, Earned, Genuine
  <2>9. QED
    BY <2>4, <2>5, <2>6, <2>7, <2>8
<1>3. QED
  BY <1>1, <1>2 DEF CreateSessionFails

-----------------------------------------------------------------------------
(* RT2 *)

LEMMA EapRelayStep ==
    ASSUME IInv, NEW r \in Req, EapRelay(r)
    PROVE  IInv'
<1> USE DEF IInv, EapRelay
<1>1. PICK c \in challenges :
          /\ \E m \in Answers(c) :
               /\ msg' = [msg EXCEPT ![r] = m]
               /\ answered' = IF m.kind = "challenge"
                              THEN answered \cup {c.vec} ELSE answered
          /\ late' = [late EXCEPT ![r] = \E g \in granted : g.msg.sid = c.sid]
  OBVIOUS
<1>2. PICK m \in Answers(c) :
          /\ msg' = [msg EXCEPT ![r] = m]
          /\ answered' = IF m.kind = "challenge"
                         THEN answered \cup {c.vec} ELSE answered
  BY <1>1
<1>3. c.sid \in created /\ c.sid \in Session /\ c.vec \in Vec /\ vectors[c.vec] \in Known
  BY DEF TypeOK, SeenOK, WorldInv, Challenge
<1>4. /\ m \in Message /\ m.sid = c.sid
      /\ m.kind = "challenge" /\ m.res # None => m.res \in answered'
  BY <1>2, <1>3 DEF Answers, Msg, Message
<1>5. Grows
  BY <1>2 DEF Grows
<1>6. TypeOK'
  BY <1>1, <1>2, <1>3, <1>4 DEF TypeOK, LocalsOK, StoresOK, SeenOK, stores, Goto, Calls
<1>7. RequestInv'
  BY <1>2, <1>3, <1>4, <1>5
     DEF TypeOK, LocalsOK, RequestInv, Relay, Calls, Accepted, Goto, Genuine, Grows
<1>8. SessionInv'
  BY <1>2 DEF TypeOK, LocalsOK, SessionInv, Owned, stores, Goto
<1>9. WorldInv'
  BY <1>2, <1>3, <1>5 DEF WorldInv, stores, Grows
<1>10. ReplyInv'
  BY <1>5 DEF ReplyInv, Earned, Genuine, stores, Grows
<1>11. QED
  BY <1>6, <1>7, <1>8, <1>9, <1>10

LEMMA CacheHitStep ==
    ASSUME IInv, NEW r \in Req, CacheHit(r)
    PROVE  IInv'
<1> USE DEF IInv, CacheHit
<1>1. PICK e \in Cached(msg[r]) :
          granted' = granted \cup {[msg |-> msg[r], rid |-> e.rid]}
  OBVIOUS
<1>2. e \in cache /\ e \in Reply /\ [msg |-> msg[r], rid |-> e.rid] = e
  BY DEF Cached, TypeOK, StoresOK, Reply
<1>3. TypeOK'
  BY <1>1, <1>2, FinishLocals DEF TypeOK, StoresOK, SeenOK, stores
<1>4. RequestInv'
  BY FinishLocals DEF TypeOK, RequestInv, Relay, Accepted, Genuine
<1>5. SessionInv'
  <2>1. \A q \in Req : (Owned(loaded[q]))'
    BY FinishLocals DEF TypeOK, SessionInv, Owned, NoSession
  <2>2. \A q \in Session : (Owned(sessions[q]))'
    BY DEF SessionInv, Owned, stores
  <2>3. QED
    BY <2>1, <2>2, FinishLocals DEF TypeOK, SessionInv, stores
<1>6. WorldInv'
  BY DEF WorldInv, stores
<1>7. ReplyInv'
  BY <1>1, <1>2 DEF ReplyInv, Earned, Genuine, stores
<1>8. QED
  BY <1>3, <1>4, <1>5, <1>6, <1>7

\* A request that goes on to a call at which it owes nothing new.
LEMMA GoStep ==
    ASSUME IInv, NEW r \in Req, pc[r] \in Relay,
           NEW call \in {"sessionGet", "reject"}, Goto(r, call),
           UNCHANGED <<locals, stores, counter, seen>>
    PROVE  IInv'
<1> USE DEF IInv
<1>1. TypeOK'
  BY GotoLocals DEF Calls, TypeOK, StoresOK, SeenOK, stores, seen
<1>2. RequestInv'
  BY GotoLocals DEF Calls, TypeOK, RequestInv, Relay, Accepted, locals, seen, Genuine
<1>3. SessionInv'
  BY GotoLocals DEF Calls, TypeOK, SessionInv, Owned, locals, stores, seen
<1>4. WorldInv'
  BY DEF WorldInv, stores, seen
<1>5. ReplyInv'
  BY DEF ReplyInv, Earned, Genuine, stores, seen
<1>6. QED
  BY <1>1, <1>2, <1>3, <1>4, <1>5

LEMMA SessionGetStep ==
    ASSUME IInv, NEW r \in Req, SessionGet(r)
    PROVE  IInv'
<1> USE DEF IInv, SessionGet
<1> DEFINE session == sessions[msg[r].sid]
           call == Verdict(msg[r], session)
<1>1. /\ loaded' = [loaded EXCEPT ![r] = session]
      /\ pc' = [pc EXCEPT ![r] = call]
  BY DEF Goto
<1>2. msg[r].sid \in Session /\ session \in EapSession /\ Owned(session)
  BY DEF TypeOK, StoresOK, SeenOK, RequestInv, SessionInv, Relay, Calls
<1>3. /\ call \in {"reject", "resync", "lookup"}
      /\ call # "reject" => session.state = Sent
      /\ call = "lookup" => Genuine(msg[r]) /\ msg[r].res = session.vec
  BY <1>2, ConstantsOK DEF Verdict, Genuine, Owned
<1>4. TypeOK'
  BY <1>1, <1>2, <1>3 DEF TypeOK, LocalsOK, StoresOK, SeenOK, stores, seen, Calls
<1>5. RequestInv'
  <2>1. \A q \in Req \ {r} : pc'[q] = pc[q] /\ loaded'[q] = loaded[q]
    BY <1>1 DEF TypeOK, LocalsOK
  <2>2. pc'[r] = call /\ loaded'[r] = session
    BY <1>1 DEF TypeOK, LocalsOK
  <2>3. /\ msg[r].sid \in created
        /\ msg[r].kind = "challenge" =>
               (msg[r].res # None => msg[r].res \in answered)
    BY DEF RequestInv, Relay, Calls
  <2> HIDE DEF call, session
  <2>4. QED
    BY <1>3, <2>1, <2>2, <2>3 DEF RequestInv, Relay, Calls, Accepted, seen, Genuine
<1>6. SessionInv'
  BY <1>1, <1>2, <1>3 DEF TypeOK, LocalsOK, SessionInv, Owned, stores, seen
<1>7. WorldInv'
  BY DEF WorldInv, stores, seen
<1>8. ReplyInv'
  BY DEF ReplyInv, Earned, Genuine, stores, seen
<1>9. QED
  BY <1>4, <1>5, <1>6, <1>7, <1>8

\* DEL leaves the hash or takes it away.
LEMMA DelLeaves ==
    ASSUME StoresOK, SessionInv, NEW s \in Session,
           NEW h \in DelOutcomes(sessions[s], NoSession),
           sessions' = [sessions EXCEPT ![s] = h], UNCHANGED <<created, vectors>>
    PROVE  /\ sessions' \in [Session -> EapSession]
           /\ \A q \in Session : sessions'[q] \in {sessions[q], NoSession}
           /\ \A q \in Session : (Owned(sessions[q]))'
           /\ \A q \in Session \ created' : sessions'[q] = NoSession
<1>1. h \in {sessions[s], NoSession}
  BY DEF DelOutcomes
<1>2. Owned(NoSession)
  BY DEF Owned, NoSession
<1>3. QED
  BY <1>1, <1>2, ConstantRecords DEF StoresOK, SessionInv, Owned

LEMMA RejectStep ==
    ASSUME IInv, NEW r \in Req, Reject(r)
    PROVE  IInv'
<1> USE DEF IInv, Reject
<1>1. msg[r].sid \in Session
  BY DEF TypeOK, SeenOK, RequestInv, Relay, Calls
<1>2. PICK h \in DelOutcomes(sessions[msg[r].sid], NoSession) :
          sessions' = [sessions EXCEPT ![msg[r].sid] = h]
  OBVIOUS
<1>3. /\ sessions' \in [Session -> EapSession]
      /\ \A q \in Session : sessions'[q] \in {sessions[q], NoSession}
      /\ \A q \in Session : (Owned(sessions[q]))'
      /\ \A q \in Session \ created' : sessions'[q] = NoSession
  BY <1>1, <1>2, DelLeaves DEF TypeOK, seen
<1>4. TypeOK'
  BY <1>3, FinishLocals DEF TypeOK, StoresOK, SeenOK, seen
<1>5. RequestInv'
  BY FinishLocals DEF TypeOK, RequestInv, Relay, Accepted, seen, Genuine
<1>6. SessionInv'
  <2>1. \A q \in Req : (Owned(loaded[q]))'
    BY FinishLocals DEF TypeOK, SessionInv, Owned, NoSession, seen
  <2>2. \A q \in Req :
            pc'[q] \in {"resync", "update"} =>
                /\ pc[q] = pc'[q] /\ msg'[q] = msg[q] /\ loaded'[q] = loaded[q]
                /\ msg[q].sid \in Session
    BY FinishLocals DEF TypeOK, SeenOK, RequestInv, Relay, Calls
  <2>3. \A q \in Session : sessions'[q].state = Sent => sessions'[q] = sessions[q]
    BY <1>3 DEF NoSession
  <2>4. QED
    BY <1>3, <2>1, <2>2, <2>3 DEF SessionInv
<1>7. WorldInv'
  BY DEF WorldInv, seen
<1>8. ReplyInv'
  BY DEF ReplyInv, Earned, Genuine, seen
<1>9. QED
  BY <1>4, <1>5, <1>6, <1>7, <1>8

LEMMA ResyncStep ==
    ASSUME IInv, NEW r \in Req, Resync(r)
    PROVE  IInv'
<1> USE DEF IInv, Resync
<1>1. PICK v \in Vec : FreshVector(v) /\ TakeVector(r, v, loaded[r].imsi)
  OBVIOUS
<1>2. Grows
  BY <1>1 DEF Grows, FreshVector, TakeVector
<1>3. loaded[r].imsi \in Known /\ loaded[r].state = Sent /\ Known \subseteq Imsi
  BY ConstantsOK DEF RequestInv, SessionInv, Owned
<1>4. vectors'[v] = loaded[r].imsi
  BY <1>1 DEF TypeOK, SeenOK, TakeVector
<1>5. TypeOK'
  BY <1>1, <1>3, ConstantsOK
     DEF TypeOK, LocalsOK, StoresOK, SeenOK, stores, TakeVector, NextIdentifier,
         Fresh, Goto, Calls
<1>6. RequestInv'
  <2>1. \A q \in Req \ {r} :
            /\ pc'[q] = pc[q] /\ msg'[q] = msg[q] /\ loaded'[q] = loaded[q]
            /\ fresh'[q] = fresh[q] /\ rid'[q] = rid[q]
    BY <1>1 DEF TypeOK, LocalsOK, Goto, TakeVector
  <2>2. /\ pc'[r] = "update" /\ msg'[r] = msg[r] /\ loaded'[r] = loaded[r]
        /\ fresh'[r].vec = v
    BY <1>1 DEF TypeOK, LocalsOK, Goto, TakeVector
  <2>3. msg[r].sid \in created /\ (msg[r].kind = "challenge" =>
            (msg[r].res # None => msg[r].res \in answered))
    BY DEF RequestInv, Relay, Calls
  <2>4. \A q \in Req : pc[q] = "create" => vectors[fresh[q].vec] # None
    BY ConstantsOK DEF RequestInv
  <2>5. \A q \in Req : pc[q] = "update" =>
            vectors[fresh[q].vec] # None /\ loaded[q].imsi # None
    BY ConstantsOK DEF RequestInv, SessionInv, Owned
  <2>6. \A q \in Req : (pc[q] \in {"delete", "build", "cachePut"}) =>
            UNCHANGED issued /\ rid[q] \in ReauthId
    BY DEF RequestInv
  <2>7. QED
    BY <1>2, <1>3, <1>4, <2>1, <2>2, <2>3, <2>4, <2>5, <2>6
       DEF RequestInv, Accepted, Grows, Genuine
<1>7. SessionInv'
  BY <1>1, <1>2, ConstantsOK
     DEF TypeOK, LocalsOK, SessionInv, Owned, stores, Goto, FreshVector, TakeVector
<1>8. WorldInv'
  BY <1>1, <1>2, ConstantsOK DEF TypeOK, SeenOK, WorldInv, stores, Challenge, Grows
<1>9. ReplyInv'
  BY <1>2, EarnedStays DEF TypeOK, StoresOK, SeenOK, ReplyInv, stores
<1>10. QED
  BY <1>5, <1>6, <1>7, <1>8, <1>9

\* Update keeps the subscriber and the state of a hash, and when that is still in
\* state CHALLENGE_SENT the new vector is that subscriber's.
LEMMA UpdateKeeps ==
    ASSUME IInv, NEW r \in Req, pc[r] = "update",
           NEW h \in PipelineOutcomes(sessions[msg[r].sid],
                                      Updated(sessions[msg[r].sid], fresh[r]))
    PROVE  /\ msg[r].sid \in created /\ msg[r].sid \in Session
           /\ h \in EapSession /\ Owned(h)
           /\ h.imsi = sessions[msg[r].sid].imsi
           /\ h.state = sessions[msg[r].sid].state
<1> USE DEF IInv
<1> DEFINE old == sessions[msg[r].sid]
           new == Updated(old, fresh[r])
<1>1. msg[r].sid \in created /\ msg[r].sid \in Session
  BY DEF TypeOK, SeenOK, RequestInv, Relay, Calls
<1>2. old \in EapSession /\ Owned(old)
  BY <1>1 DEF TypeOK, StoresOK, SessionInv
<1>3. /\ fresh[r].vec \in Vec /\ fresh[r].identifier \in 0 .. IdMod - 1
      /\ vectors[fresh[r].vec] = loaded[r].imsi
  BY DEF TypeOK, LocalsOK, Fresh, RequestInv
<1>4. old.state = Sent => old.imsi = loaded[r].imsi
  BY DEF SessionInv
<1>5. /\ new.imsi = old.imsi /\ new.state = old.state /\ new.vec = fresh[r].vec
      /\ new \in EapSession
  BY <1>2, <1>3 DEF Updated, EapSession
<1>6. Owned(new)
  BY <1>2, <1>3, <1>4, <1>5 DEF Owned
<1> DEFINE half == [new EXCEPT !.ttl = old.ttl]
<1>7. /\ half \in EapSession /\ half.imsi = new.imsi /\ half.state = new.state
      /\ half.vec = new.vec
  <2> HIDE DEF new, old
  <2>1. QED
    BY <1>2, <1>5 DEF EapSession
<1>8. Owned(half)
  <2> HIDE DEF new, half
  <2>1. QED
    BY <1>6, <1>7 DEF Owned
<1>9. h \in {old, half, new}
  BY DEF PipelineOutcomes
<1>10. QED
  <2> HIDE DEF new, half, old
  <2>1. QED
    BY <1>1, <1>2, <1>5, <1>6, <1>7, <1>8, <1>9 DEF old

LEMMA UpdateStep ==
    ASSUME IInv, NEW r \in Req, Update(r)
    PROVE  IInv'
<1> USE DEF IInv
<1> DEFINE s == msg[r].sid
           new == Updated(sessions[s], fresh[r])
<1>1. PICK h \in PipelineOutcomes(sessions[s], new) :
          sessions' = [sessions EXCEPT ![s] = h]
  BY DEF Update, PipelineOutcomes
<1>2. /\ pc[r] = "update" /\ Finish(r) /\ SendChallenge(r, s)
      /\ UNCHANGED <<reauths, cache, counter, created, vectors, answered, issued,
                     granted>>
  BY DEF Update
<1>3. /\ s \in created /\ s \in Session /\ h \in EapSession /\ Owned(h)
      /\ h.imsi = sessions[s].imsi /\ h.state = sessions[s].state
  BY <1>1, <1>2, UpdateKeeps
<1>4. /\ fresh[r].vec \in Vec /\ fresh[r].identifier \in 0 .. IdMod - 1
      /\ vectors[fresh[r].vec] \in Known
  BY <1>2 DEF TypeOK, LocalsOK, Fresh, RequestInv, SessionInv, Owned
<1>5. TypeOK'
  BY <1>1, <1>2, <1>3, <1>4, FinishLocals
     DEF TypeOK, StoresOK, SeenOK, SendChallenge, Challenge
<1>6. RequestInv'
  BY <1>2, FinishLocals DEF TypeOK, RequestInv, Relay, Accepted, Genuine
<1>7. SessionInv'
  <2>1. \A q \in Req : (Owned(loaded[q]))'
    BY <1>2, FinishLocals DEF TypeOK, SessionInv, Owned, NoSession
  <2>2. \A q \in Session : (Owned(sessions[q]))'
    BY <1>1, <1>2, <1>3 DEF TypeOK, StoresOK, SessionInv, Owned
  <2>3. \A q \in Session :
            sessions'[q].imsi = sessions[q].imsi /\ sessions'[q].state = sessions[q].state
    BY <1>1, <1>3 DEF TypeOK, StoresOK
  <2>4. \A q \in Req :
            pc'[q] \in {"resync", "update"} =>
                /\ pc[q] = pc'[q] /\ msg'[q] = msg[q] /\ loaded'[q] = loaded[q]
                /\ msg[q].sid \in Session
    BY <1>2, FinishLocals DEF TypeOK, SeenOK, RequestInv, Relay, Calls
  <2>5. \A q \in Session \ created : sessions'[q] = sessions[q]
    BY <1>1, <1>3 DEF TypeOK, StoresOK
  <2>6. QED
    BY <1>2, <2>1, <2>2, <2>3, <2>4, <2>5 DEF SessionInv
<1>8. WorldInv'
  BY <1>2, <1>3, <1>4 DEF TypeOK, SeenOK, WorldInv, SendChallenge
<1>9. ReplyInv'
  BY <1>2 DEF ReplyInv, Earned, Genuine
<1>10. QED
  BY <1>5, <1>6, <1>7, <1>8, <1>9

LEMMA LookupStep ==
    ASSUME IInv, NEW r \in Req, Lookup(r)
    PROVE  IInv'
<1> USE DEF IInv
<1>1. PICK call \in {"store", "reject"} : Goto(r, call)
  BY DEF Lookup
<1>2. pc[r] = "lookup" /\ UNCHANGED <<locals, stores, counter, seen>>
  BY DEF Lookup
<1>3. TypeOK'
  BY <1>1, <1>2, GotoLocals DEF Calls, TypeOK, StoresOK, SeenOK, stores, seen
<1>4. RequestInv'
  BY <1>1, <1>2, GotoLocals
     DEF Calls, TypeOK, RequestInv, Relay, Accepted, locals, seen, Genuine
<1>5. SessionInv'
  BY <1>1, <1>2, GotoLocals DEF Calls, TypeOK, SessionInv, Owned, locals, stores, seen
<1>6. WorldInv'
  BY <1>2 DEF WorldInv, stores, seen
<1>7. ReplyInv'
  BY <1>2 DEF ReplyInv, Earned, Genuine, stores, seen
<1>8. QED
  BY <1>3, <1>4, <1>5, <1>6, <1>7

\* The identity an accepted request issues belongs to an answered vector's owner.
LEMMA IssueOwned ==
    ASSUME IInv, NEW r \in Req, pc[r] \in Accepted
    PROVE  /\ loaded[r].vec \in answered /\ loaded[r].vec \in Vec
           /\ loaded[r].imsi = vectors[loaded[r].vec] /\ loaded[r].imsi \in Imsi
           /\ [imsi |-> loaded[r].imsi, vec |-> loaded[r].vec] \in Identity
           /\ [imsi |-> loaded[r].imsi, vec |-> loaded[r].vec] # None
           /\ NewReauth(loaded[r]) \in ReauthState
<1> USE DEF IInv
<1>1. loaded[r].state = Sent /\ Genuine(msg[r]) /\ msg[r].res = loaded[r].vec
  BY DEF RequestInv
<1>2. loaded[r].vec \in Vec /\ loaded[r].imsi \in Known
      /\ vectors[loaded[r].vec] = loaded[r].imsi
  BY <1>1 DEF SessionInv, Owned
<1>3. loaded[r].vec \in answered
  BY <1>1 DEF RequestInv, Relay, Calls, Accepted, Genuine
<1>4. loaded[r].imsi \in Imsi
  BY <1>2, ConstantsOK
<1>5. [imsi |-> loaded[r].imsi, vec |-> loaded[r].vec] \in Identity
  BY <1>2, <1>4 DEF Identity
<1>6. NewReauth(loaded[r]) \in ReauthState
  BY <1>2, <1>4 DEF NewReauth, ReauthState
<1>7. QED
  BY <1>2, <1>3, <1>4, <1>5, <1>6, ConstantsOK

\* The identity a request carries to its reply has been issued.
LEMMA CarriesIssued ==
    ASSUME IInv, NEW r \in Req, pc[r] \in {"delete", "build", "cachePut"}
    PROVE  rid[r] \in ReauthId /\ issued[rid[r]] # None
<1>1. pc[r] \in Accepted
  BY DEF Accepted
<1>2. [imsi |-> loaded[r].imsi, vec |-> loaded[r].vec] # None
  BY <1>1, IssueOwned
<1>3. /\ rid[r] \in ReauthId
      /\ issued[rid[r]] = [imsi |-> loaded[r].imsi, vec |-> loaded[r].vec]
  BY DEF IInv, RequestInv
<1>4. QED
  BY <1>2, <1>3

LEMMA StoreStep ==
    ASSUME IInv, NEW r \in Req, Store(r)
    PROVE  IInv'
<1> USE DEF IInv
<1> DEFINE owner == [imsi |-> loaded[r].imsi, vec |-> loaded[r].vec]
           reauth == NewReauth(loaded[r])
<1>1. PICK i \in ReauthId :
          /\ issued[i] = None
          /\ issued' = [issued EXCEPT ![i] = owner]
          /\ reauths' = [reauths EXCEPT ![i] = reauth]
          /\ rid' = [rid EXCEPT ![r] = i]
  BY DEF Store
<1>2. /\ pc[r] = "store" /\ Goto(r, "delete")
      /\ UNCHANGED <<msg, loaded, fresh, late, sessions, cache, counter, created,
                     vectors, challenges, answered, granted>>
  BY DEF Store
<1>3. Grows
  BY <1>1, <1>2 DEF Grows, TypeOK, SeenOK
<1>4. /\ loaded[r].vec \in answered
      /\ loaded[r].imsi = vectors[loaded[r].vec]
      /\ owner \in Identity /\ owner # None /\ reauth \in ReauthState
  BY <1>2, IssueOwned DEF Accepted
<1>5. /\ reauth.imsi = loaded[r].imsi /\ reauth.vec = loaded[r].vec
      /\ owner.imsi = loaded[r].imsi /\ owner.vec = loaded[r].vec
  BY DEF NewReauth
<1>6. TypeOK'
  <2> HIDE DEF owner, reauth
  <2>1. QED
    BY <1>1, <1>2, <1>4 DEF TypeOK, LocalsOK, StoresOK, SeenOK, Goto, Calls
<1>7. RequestInv'
  <2>1. \A q \in Req \ {r} : pc'[q] = pc[q] /\ rid'[q] = rid[q]
    BY <1>1, <1>2 DEF TypeOK, LocalsOK, Goto
  <2>2. pc'[r] = "delete" /\ rid'[r] = i /\ issued'[i] = owner
    BY <1>1, <1>2 DEF TypeOK, LocalsOK, SeenOK, Goto
  <2>3. \A q \in Req : pc[q] \in {"delete", "build", "cachePut"} =>
            rid[q] \in ReauthId /\ issued[rid[q]] # None
    BY CarriesIssued
  <2>4. QED
    BY <1>2, <1>3, <2>1, <2>2, <2>3
       DEF RequestInv, Relay, Calls, Accepted, Genuine, Grows
<1>8. SessionInv'
  BY <1>2 DEF TypeOK, LocalsOK, SessionInv, Owned, Goto
<1>9. WorldInv'
  <2> HIDE DEF owner, reauth
  <2>1. \A j \in ReauthId \ {i} : issued'[j] = issued[j] /\ reauths'[j] = reauths[j]
    BY <1>1 DEF TypeOK, StoresOK, SeenOK
  <2>2. issued'[i] = owner /\ reauths'[i] = reauth
    BY <1>1 DEF TypeOK, StoresOK, SeenOK
  <2>3. owner = [imsi |-> reauth.imsi, vec |-> reauth.vec]
    BY <1>5 DEF owner
  <2>4. QED
    BY <1>2, <1>4, <1>5, <2>1, <2>2, <2>3 DEF WorldInv
<1>10. ReplyInv'
  BY <1>2, <1>3, EarnedStays DEF TypeOK, StoresOK, SeenOK, ReplyInv
<1>11. QED
  BY <1>6, <1>7, <1>8, <1>9, <1>10

LEMMA StoreFailsStep ==
    ASSUME IInv, NEW r \in Req, StoreFails(r)
    PROVE  IInv'
<1> USE DEF IInv
<1> DEFINE owner == [imsi |-> loaded[r].imsi, vec |-> loaded[r].vec]
           reauth == NewReauth(loaded[r])
<1>1. CASE UNCHANGED <<reauths, issued>>
  BY <1>1, FinishStep DEF StoreFails, stores, seen
<1>2. ASSUME NEW i \in ReauthId, issued[i] = None,
             issued' = [issued EXCEPT ![i] = owner],
             NEW h \in PipelineOutcomes(reauths[i], reauth),
             reauths' = [reauths EXCEPT ![i] = h]
      PROVE  IInv'
  <2>1. /\ pc[r] = "store" /\ Finish(r)
        /\ UNCHANGED <<sessions, cache, counter, created, vectors, challenges,
                       answered, granted>>
    BY DEF StoreFails
  <2>2. Grows
    BY <1>2, <2>1 DEF Grows, TypeOK, SeenOK
  <2>3. /\ loaded[r].vec \in answered
        /\ loaded[r].imsi = vectors[loaded[r].vec]
        /\ owner \in Identity /\ owner # None /\ reauth \in ReauthState
    BY <2>1, IssueOwned DEF Accepted
  <2>4. /\ reauth.imsi = loaded[r].imsi /\ reauth.vec = loaded[r].vec
        /\ owner.imsi = loaded[r].imsi /\ owner.vec = loaded[r].vec
    BY DEF NewReauth
  <2>5. reauths[i] \in ReauthState /\ reauths[i].vec = None
    BY <1>2 DEF TypeOK, StoresOK, WorldInv
  <2>6. /\ h \in ReauthState
        /\ h.vec # None => owner = [imsi |-> h.imsi, vec |-> h.vec]
    <3> DEFINE half == [reauth EXCEPT !.ttl = reauths[i].ttl]
    <3>1. /\ half \in ReauthState /\ half.imsi = reauth.imsi /\ half.vec = reauth.vec
      <4> HIDE DEF reauth
      <4>1. QED
        BY <2>3, <2>5 DEF ReauthState
    <3>2. h \in {reauths[i], half, reauth}
      BY <1>2 DEF PipelineOutcomes
    <3>3. owner = [imsi |-> reauth.imsi, vec |-> reauth.vec]
      BY <2>4
    <3> HIDE DEF half, reauth, owner
    <3>4. QED
      BY <2>3, <2>5, <3>1, <3>2, <3>3
  <2>7. TypeOK'
    <3> HIDE DEF owner, reauth
    <3>1. QED
      BY <1>2, <2>1, <2>3, <2>6, FinishLocals DEF TypeOK, StoresOK, SeenOK
  <2>8. RequestInv'
    <3>1. \A q \in Req : pc[q] \in {"delete", "build", "cachePut"} =>
              rid[q] \in ReauthId /\ issued[rid[q]] # None
      BY CarriesIssued
    <3>2. QED
      BY <2>1, <2>2, <3>1, FinishLocals
         DEF TypeOK, RequestInv, Relay, Accepted, Genuine, Grows
  <2>9. SessionInv'
    <3>1. \A q \in Req : (Owned(loaded[q]))'
      BY <2>1, FinishLocals DEF TypeOK, SessionInv, Owned, NoSession
    <3>2. \A q \in Session : (Owned(sessions[q]))'
      BY <2>1 DEF SessionInv, Owned
    <3>3. QED
      BY <2>1, <3>1, <3>2, FinishLocals DEF TypeOK, SessionInv
  <2>10. WorldInv'
    <3> HIDE DEF owner, reauth
    <3>1. \A j \in ReauthId \ {i} : issued'[j] = issued[j] /\ reauths'[j] = reauths[j]
      BY <1>2 DEF TypeOK, StoresOK, SeenOK
    <3>2. issued'[i] = owner /\ reauths'[i] = h
      BY <1>2 DEF TypeOK, StoresOK, SeenOK
    <3>3. QED
      BY <2>1, <2>3, <2>4, <2>6, <3>1, <3>2 DEF WorldInv
  <2>11. ReplyInv'
    BY <2>1, <2>2, EarnedStays DEF TypeOK, StoresOK, SeenOK, ReplyInv
  <2>12. QED
    BY <2>7, <2>8, <2>9, <2>10, <2>11
<1>3. QED
  BY <1>1, <1>2 DEF StoreFails

LEMMA DeleteSessionStep ==
    ASSUME IInv, NEW r \in Req, DeleteSession(r)
    PROVE  IInv'
<1> USE DEF IInv, DeleteSession
<1>1. msg[r].sid \in Session
  BY DEF TypeOK, SeenOK, RequestInv, Relay, Calls
<1>2. PICK h \in DelOutcomes(sessions[msg[r].sid], NoSession) :
          sessions' = [sessions EXCEPT ![msg[r].sid] = h]
  OBVIOUS
<1>3. /\ sessions' \in [Session -> EapSession]
      /\ \A q \in Session : sessions'[q] \in {sessions[q], NoSession}
      /\ \A q \in Session : (Owned(sessions[q]))'
      /\ \A q \in Session \ created' : sessions'[q] = NoSession
  BY <1>1, <1>2, DelLeaves DEF TypeOK, seen
<1>4. TypeOK'
  BY <1>3, GotoLocals DEF Calls, TypeOK, StoresOK, SeenOK, seen
<1>5. RequestInv'
  BY GotoLocals DEF Calls, TypeOK, RequestInv, Relay, Accepted, locals, seen, Genuine
<1>6. SessionInv'
  <2>1. \A q \in Req : (Owned(loaded[q]))'
    BY DEF SessionInv, Owned, locals, seen
  <2>2. \A q \in Req :
            pc'[q] \in {"resync", "update"} => pc[q] = pc'[q] /\ msg[q].sid \in Session
    BY GotoLocals DEF TypeOK, SeenOK, RequestInv, Relay, Calls
  <2>3. \A q \in Session : sessions'[q].state = Sent => sessions'[q] = sessions[q]
    BY <1>3 DEF NoSession
  <2>4. QED
    BY <1>3, <2>1, <2>2, <2>3 DEF SessionInv, locals
<1>7. WorldInv'
  BY DEF WorldInv, seen
<1>8. ReplyInv'
  BY DEF ReplyInv, Earned, Genuine, seen
<1>9. QED
  BY <1>4, <1>5, <1>6, <1>7, <1>8

LEMMA BuildStep ==
    ASSUME IInv, NEW r \in Req, Build(r)
    PROVE  IInv'
<1> USE DEF IInv, Build
<1>1. TypeOK'
  BY GotoLocals DEF Calls, TypeOK, StoresOK, SeenOK, stores, seen
<1>2. RequestInv'
  BY GotoLocals DEF Calls, TypeOK, RequestInv, Relay, Accepted, locals, seen, Genuine
<1>3. SessionInv'
  BY GotoLocals DEF Calls, TypeOK, SessionInv, Owned, locals, stores, seen
<1>4. WorldInv'
  BY DEF WorldInv, stores, seen
<1>5. ReplyInv'
  BY DEF ReplyInv, Earned, Genuine, stores, seen
<1>6. QED
  BY <1>1, <1>2, <1>3, <1>4, <1>5

LEMMA CachePutStep ==
    ASSUME IInv, NEW r \in Req, CachePut(r)
    PROVE  IInv'
<1> USE DEF IInv
<1> DEFINE reply == [msg |-> msg[r], rid |-> rid[r]]
<1>1. /\ pc[r] = "cachePut" /\ Finish(r)
      /\ cache' \subseteq cache \cup {reply} /\ granted' = granted \cup {reply}
      /\ UNCHANGED <<sessions, reauths, counter, created, vectors, challenges,
                     answered, issued>>
  BY DEF CachePut
<1>2. reply \in Reply
  BY <1>1 DEF TypeOK, LocalsOK, RequestInv, Reply
<1>3. Earned(reply)
  <2>1. pc[r] \in Accepted
    BY <1>1 DEF Accepted
  <2>2. /\ loaded[r].vec \in answered
        /\ loaded[r].imsi = vectors[loaded[r].vec]
    BY <2>1, IssueOwned
  <2>3. /\ Genuine(msg[r]) /\ msg[r].res = loaded[r].vec
        /\ issued[rid[r]] = [imsi |-> loaded[r].imsi, vec |-> loaded[r].vec]
    BY <1>1, <2>1 DEF RequestInv
  <2>4. QED
    BY <2>2, <2>3 DEF Earned
<1>4. TypeOK'
  BY <1>1, <1>2, FinishLocals DEF TypeOK, StoresOK, SeenOK
<1>5. RequestInv'
  BY <1>1, FinishLocals DEF TypeOK, RequestInv, Relay, Accepted, Genuine
<1>6. SessionInv'
  <2>1. \A q \in Req : (Owned(loaded[q]))'
    BY <1>1, FinishLocals DEF TypeOK, SessionInv, Owned, NoSession
  <2>2. \A q \in Session : (Owned(sessions[q]))'
    BY <1>1 DEF SessionInv, Owned
  <2>3. QED
    BY <1>1, <2>1, <2>2, FinishLocals DEF TypeOK, SessionInv
<1>7. WorldInv'
  BY <1>1 DEF WorldInv
<1>8. ReplyInv'
  BY <1>1, <1>3 DEF ReplyInv, Earned, Genuine
<1>9. QED
  BY <1>4, <1>5, <1>6, <1>7, <1>8

-----------------------------------------------------------------------------
(* The environment *)

LEMMA ExpireSessionStep ==
    ASSUME IInv, NEW s \in Session, ExpireSession(s)
    PROVE  IInv'
<1> USE DEF IInv, ExpireSession
<1>1. TypeOK'
  BY ConstantRecords DEF TypeOK, LocalsOK, StoresOK, SeenOK, locals, seen
<1>2. RequestInv'
  BY DEF RequestInv, locals, seen, Genuine
<1>3. SessionInv'
  <2>1. \A q \in Session : sessions'[q] \in {sessions[q], NoSession}
    BY DEF TypeOK, StoresOK
  <2>2. \A q \in Session : (Owned(sessions[q]))'
    BY <2>1 DEF SessionInv, Owned, NoSession, seen
  <2>3. \A q \in Req : (Owned(loaded[q]))'
    BY DEF SessionInv, Owned, locals, seen
  <2>4. \A q \in Session : sessions'[q].state = Sent => sessions'[q] = sessions[q]
    BY <2>1 DEF NoSession
  <2>5. \A q \in Req : pc[q] \in {"resync", "update"} => msg[q].sid \in Session
    BY DEF TypeOK, SeenOK, RequestInv, Relay, Calls
  <2>6. QED
    BY <2>1, <2>2, <2>3, <2>4, <2>5 DEF SessionInv, locals, seen
<1>4. WorldInv'
  BY DEF WorldInv, seen
<1>5. ReplyInv'
  BY DEF ReplyInv, Earned, Genuine, seen
<1>6. QED
  BY <1>1, <1>2, <1>3, <1>4, <1>5

LEMMA ExpireReauthStep ==
    ASSUME IInv, NEW i \in ReauthId, ExpireReauth(i)
    PROVE  IInv'
<1> USE DEF IInv, ExpireReauth
<1>1. TypeOK'
  BY ConstantRecords DEF TypeOK, LocalsOK, StoresOK, SeenOK, locals, seen
<1>2. RequestInv'
  BY DEF RequestInv, locals, seen, Genuine
<1>3. SessionInv'
  BY DEF SessionInv, Owned, locals, seen
<1>4. WorldInv'
  BY DEF TypeOK, StoresOK, WorldInv, NoReauth, seen
<1>5. ReplyInv'
  BY DEF ReplyInv, Earned, Genuine, seen
<1>6. QED
  BY <1>1, <1>2, <1>3, <1>4, <1>5

LEMMA ExpireCacheStep ==
    ASSUME IInv, NEW e, ExpireCache(e)
    PROVE  IInv'
<1> USE DEF IInv, ExpireCache
<1>1. TypeOK'
  BY DEF TypeOK, LocalsOK, StoresOK, SeenOK, locals, seen
<1>2. RequestInv'
  BY DEF RequestInv, locals, seen, Genuine
<1>3. SessionInv'
  BY DEF SessionInv, Owned, locals, seen
<1>4. WorldInv'
  BY DEF WorldInv, seen
<1>5. ReplyInv'
  BY DEF ReplyInv, Earned, Genuine, seen
<1>6. QED
  BY <1>1, <1>2, <1>3, <1>4, <1>5

LEMMA CrashStep ==
    ASSUME IInv, Crash
    PROVE  IInv'
<1> USE DEF IInv, Crash
<1>1. TypeOK'
  BY ConstantRecords, ConstantsOK
     DEF TypeOK, LocalsOK, StoresOK, SeenOK, stores, seen, Calls
<1>2. RequestInv'
  BY DEF RequestInv, Relay, Accepted
<1>3. SessionInv'
  BY DEF SessionInv, Owned, NoSession, stores, seen
<1>4. WorldInv'
  BY DEF WorldInv, stores, seen
<1>5. ReplyInv'
  BY DEF ReplyInv, Earned, Genuine, stores, seen
<1>6. QED
  BY <1>1, <1>2, <1>3, <1>4, <1>5

-----------------------------------------------------------------------------
(* The invariant *)

LEMMA InitIInv == Init => IInv
<1> SUFFICES ASSUME Init PROVE IInv
  OBVIOUS
<1> USE DEF Init
<1>1. TypeOK
  BY ConstantRecords, ConstantsOK DEF TypeOK, LocalsOK, StoresOK, SeenOK, Calls
<1>2. RequestInv
  BY DEF RequestInv, Relay, Accepted
<1>3. SessionInv
  BY DEF SessionInv, Owned, NoSession
<1>4. WorldInv
  BY DEF WorldInv, NoReauth
<1>5. ReplyInv
  BY DEF ReplyInv
<1>6. QED
  BY <1>1, <1>2, <1>3, <1>4, <1>5 DEF IInv

LEMMA ServeStep ==
    ASSUME IInv, NEW r \in Req, Serve(r)
    PROVE  IInv'
<1>1. CASE FetchVectors(r)
  BY <1>1, FetchVectorsStep
<1>2. CASE FetchVectorsFails(r)
  BY <1>2, FinishStep DEF FetchVectorsFails
<1>3. CASE CreateSession(r)
  BY <1>3, CreateSessionStep
<1>4. CASE CreateSessionFails(r)
  BY <1>4, CreateSessionFailsStep
<1>5. CASE CacheHit(r)
  BY <1>5, CacheHitStep
<1>6. CASE CacheMiss(r)
  BY <1>6, GoStep DEF CacheMiss, Relay, Calls
<1>7. CASE SessionGet(r)
  BY <1>7, SessionGetStep
<1>8. CASE SessionGetFails(r)
  BY <1>8, FinishStep DEF SessionGetFails
<1>9. CASE Reject(r)
  BY <1>9, RejectStep
<1>10. CASE Resync(r)
  BY <1>10, ResyncStep
<1>11. CASE ResyncFails(r)
  BY <1>11, GoStep DEF ResyncFails, Relay, Calls
<1>12. CASE Update(r)
  BY <1>12, UpdateStep
<1>13. CASE Lookup(r)
  BY <1>13, LookupStep
<1>14. CASE Store(r)
  BY <1>14, StoreStep
<1>15. CASE StoreFails(r)
  BY <1>15, StoreFailsStep
<1>16. CASE DeleteSession(r)
  BY <1>16, DeleteSessionStep
<1>17. CASE Build(r)
  BY <1>17, BuildStep
<1>18. CASE BuildFails(r)
  BY <1>18, FinishStep DEF BuildFails
<1>19. CASE CachePut(r)
  BY <1>19, CachePutStep
<1>20. QED
  BY <1>1, <1>2, <1>3, <1>4, <1>5, <1>6, <1>7, <1>8, <1>9, <1>10, <1>11, <1>12,
     <1>13, <1>14, <1>15, <1>16, <1>17, <1>18, <1>19 DEF Serve

LEMMA NextIInv == IInv /\ [Next]_vars => IInv'
<1> SUFFICES ASSUME IInv, [Next]_vars PROVE IInv'
  OBVIOUS
<1>1. ASSUME NEW r \in Req, Initial(r) PROVE IInv'
  BY <1>1, InitialStep
<1>2. ASSUME NEW r \in Req, EapRelay(r) PROVE IInv'
  BY <1>2, EapRelayStep
<1>3. ASSUME NEW r \in Req, Serve(r) PROVE IInv'
  BY <1>3, ServeStep
<1>4. CASE Environment
  BY <1>4, ExpireSessionStep, ExpireReauthStep, ExpireCacheStep, CrashStep
     DEF Environment
<1>5. CASE UNCHANGED vars
  BY <1>5 DEF IInv, TypeOK, LocalsOK, StoresOK, SeenOK, RequestInv, SessionInv, Owned,
       WorldInv, ReplyInv, Earned, Genuine, vars, locals, stores, seen
<1>6. QED
  BY <1>1, <1>2, <1>3, <1>4, <1>5 DEF Next

\* The inductive invariant holds throughout, for every value of the constants.
THEOREM Invariance == Spec => []IInv
  BY InitIInv, NextIInv, PTL DEF Spec

\* Every variable keeps its type; in particular the identifier counter and every
\* identifier in a session or a challenge stay below the modulus, whatever Update,
\* a half-executed pipeline or a restart does (orchestrator.go nextIdentifier).
THEOREM TypeCorrect == Spec => []TypeOK
<1>1. IInv => TypeOK
  BY DEF IInv
<1>2. QED
  BY <1>1, Invariance, PTL

\* Every 200 reply is earned, for any number of concurrent requests, sessions and
\* subscribers, with any faults.
THEOREM GrantsEarned == Spec => []GrantsAreEarned
<1>1. IInv => GrantsAreEarned
  BY DEF IInv, ReplyInv, Earned, GrantsAreEarned
<1>2. QED
  BY <1>1, Invariance, PTL

\* Re-auth keys in Redis are shared with the owner's device, for every instance.
THEOREM KeysShared == Spec => []StoredKeysAreShared
<1>1. IInv => StoredKeysAreShared
  <2> SUFFICES ASSUME IInv, NEW i \in ReauthId, reauths[i].vec # None
               PROVE  /\ reauths[i].vec \in answered
                      /\ reauths[i].imsi = vectors[reauths[i].vec]
    BY DEF StoredKeysAreShared
  <2>1. /\ issued[i] # None
        /\ issued[i] = [imsi |-> reauths[i].imsi, vec |-> reauths[i].vec]
    BY DEF IInv, WorldInv
  <2>2. /\ issued[i].vec \in answered
        /\ issued[i].imsi = vectors[issued[i].vec]
    BY <2>1 DEF IInv, WorldInv
  <2>3. QED
    BY <2>1, <2>2
<1>2. QED
  BY <1>1, Invariance, PTL

-----------------------------------------------------------------------------
(* What can become of a session: a dead one stays dead, one that has led to a 200
   reply is dead, and the identifier it holds is that of a challenge sent for it. *)

\* Request r stores a session or sends a challenge.
Writes(r) == CreateSession(r) \/ CreateSessionFails(r) \/ Update(r)

\* The ways in which a step can touch a session's hash.
Untouched(s) == sessions'[s] = sessions[s]
Removed(s) == sessions'[s] = NoSession
Rewritten(s, r) ==
    sessions'[s] \in PipelineOutcomes(sessions[s], Updated(sessions[s], fresh[r]))

\* Every other step leaves a hash or removes it, and sends no challenge.
LEMMA QuietSteps ==
    ASSUME IInv, [Next]_vars, ~ \E r \in Req : Writes(r)
    PROVE  /\ UNCHANGED challenges
           /\ \A s \in Session : Untouched(s) \/ Removed(s)
<1> USE DEF IInv, TypeOK, StoresOK
<1>1. ASSUME NEW r \in Req, Initial(r) \/ EapRelay(r) \/ Serve(r)
      PROVE  /\ UNCHANGED challenges
             /\ \A s \in Session : Untouched(s) \/ Removed(s)
  <2>1. CASE Reject(r) \/ DeleteSession(r)
    <3>1. PICK h \in {sessions[msg[r].sid], NoSession} :
              sessions' = [sessions EXCEPT ![msg[r].sid] = h]
      BY <2>1 DEF Reject, DeleteSession, DelOutcomes
    <3>2. UNCHANGED challenges
      BY <2>1 DEF Reject, DeleteSession, seen
    <3>3. QED
      BY <3>1, <3>2 DEF Untouched, Removed
  <2>2. CASE \/ Initial(r) \/ EapRelay(r) \/ FetchVectors(r) \/ FetchVectorsFails(r)
             \/ CacheHit(r) \/ CacheMiss(r) \/ SessionGet(r) \/ SessionGetFails(r)
             \/ Resync(r) \/ ResyncFails(r) \/ Lookup(r) \/ Store(r) \/ StoreFails(r)
             \/ Build(r) \/ BuildFails(r) \/ CachePut(r)
    BY <2>2 DEF Untouched, Initial, EapRelay, FetchVectors, FetchVectorsFails, CacheHit,
         CacheMiss, SessionGet, SessionGetFails, Resync, ResyncFails, Lookup, Store,
         StoreFails, Build, BuildFails, CachePut, stores, seen
  <2>3. QED
    BY <1>1, <2>1, <2>2 DEF Serve, Writes
<1>2. CASE Environment
  BY <1>2 DEF Environment, ExpireSession, ExpireReauth, ExpireCache, Crash, stores,
       seen, Untouched, Removed
<1>3. CASE UNCHANGED vars
  BY <1>3 DEF vars, stores, seen, Untouched
<1>4. QED
  BY <1>1, <1>2, <1>3 DEF Next

\* Update rewrites the one hash it addresses.
LEMMA UpdateTouches ==
    ASSUME IInv, NEW r \in Req, Update(r)
    PROVE  /\ msg[r].sid \in Session /\ Rewritten(msg[r].sid, r)
           /\ \A s \in Session \ {msg[r].sid} : Untouched(s)
           /\ sessions'[msg[r].sid].state = sessions[msg[r].sid].state
<1>1. PICK h \in PipelineOutcomes(sessions[msg[r].sid],
                                  Updated(sessions[msg[r].sid], fresh[r])) :
          sessions' = [sessions EXCEPT ![msg[r].sid] = h]
  BY DEF Update, PipelineOutcomes
<1>2. pc[r] = "update"
  BY DEF Update
<1>3. msg[r].sid \in Session /\ h.state = sessions[msg[r].sid].state
  BY <1>2, UpdateKeeps
<1>4. QED
  BY <1>1, <1>3 DEF IInv, TypeOK, StoresOK, Untouched, Rewritten

LEMMA DeadStep ==
    ASSUME IInv, [Next]_vars, NEW s \in created, sessions[s].state # Sent
    PROVE  sessions'[s].state # Sent
<1>1. s \in Session
  BY DEF IInv, TypeOK, SeenOK
<1>2. CASE ~ \E r \in Req : Writes(r)
  BY <1>1, <1>2, QuietSteps DEF Untouched, Removed, NoSession
<1>3. ASSUME NEW r \in Req, CreateSession(r) \/ CreateSessionFails(r)
      PROVE  sessions'[s] = sessions[s]
  BY <1>1, <1>3 DEF CreateSession, CreateSessionFails, IInv, TypeOK, StoresOK
<1>4. ASSUME NEW r \in Req, Update(r)
      PROVE  sessions'[s].state = sessions[s].state
  BY <1>1, <1>4, UpdateTouches DEF Untouched
<1>5. QED
  BY <1>2, <1>3, <1>4 DEF Writes

\* No step makes a dead session answerable, although a resync in flight may write
\* to its key after the deletion or the expiry (session.go Update).
THEOREM DeadStay == Spec => DeadSessionsStayDead
<1>1. IInv /\ [Next]_vars =>
          [\A s \in created : sessions[s].state # Sent => sessions'[s].state # Sent]_vars
  BY DeadStep
<1>2. QED
  BY <1>1, Invariance, PTL DEF Spec, DeadSessionsStayDead

\* The two halves of KeysExpire.
SessionsExpire == \A s \in Session : sessions[s] # NoSession => sessions[s].ttl

IdentitiesExpire == \A i \in ReauthId : reauths[i] # NoReauth => reauths[i].ttl

LEMMA SessionsExpireStep ==
    ASSUME "redisWrite" \notin Faults, IInv, SessionsExpire, [Next]_vars
    PROVE  SessionsExpire'
<1>1. CASE ~ \E r \in Req : Writes(r)
  BY <1>1, QuietSteps DEF Untouched, Removed, SessionsExpire
<1>2. ASSUME NEW r \in Req, CreateSession(r)
      PROVE  SessionsExpire'
  BY <1>2 DEF CreateSession, NewSession, SessionsExpire, IInv, TypeOK, StoresOK
<1>3. ASSUME NEW r \in Req, CreateSessionFails(r)
      PROVE  SessionsExpire'
  BY <1>3 DEF CreateSessionFails, Faulty, SessionsExpire
<1>4. ASSUME NEW r \in Req, Update(r)
      PROVE  SessionsExpire'
  <2>1. sessions' = [sessions EXCEPT ![msg[r].sid] =
                         Updated(sessions[msg[r].sid], fresh[r])]
    BY <1>4 DEF Update, Faulty
  <2>2. msg[r].sid \in Session
    BY <1>4, UpdateTouches
  <2>3. sessions[msg[r].sid] \in EapSession
    BY <2>2 DEF IInv, TypeOK, StoresOK
  <2>4. Updated(sessions[msg[r].sid], fresh[r]).ttl
    BY <2>3 DEF Updated, EapSession
  <2>5. QED
    BY <2>1, <2>2, <2>4 DEF SessionsExpire, IInv, TypeOK, StoresOK
<1>5. QED
  BY <1>1, <1>2, <1>3, <1>4 DEF Writes

LEMMA IdentitiesExpireStep ==
    ASSUME "redisWrite" \notin Faults, IdentitiesExpire, IInv, [Next]_vars
    PROVE  IdentitiesExpire'
<1>1. ASSUME NEW r \in Req, Store(r)
      PROVE  IdentitiesExpire'
  BY <1>1 DEF Store, NewReauth, IdentitiesExpire, IInv, TypeOK, StoresOK
<1>2. ASSUME NEW i \in ReauthId, ExpireReauth(i)
      PROVE  IdentitiesExpire'
  BY <1>2 DEF ExpireReauth, IdentitiesExpire, IInv, TypeOK, StoresOK
<1>3. ASSUME NEW r \in Req, Initial(r) \/ EapRelay(r) \/ Serve(r), ~ Store(r)
      PROVE  reauths' = reauths
  BY <1>3
     DEF Serve, Initial, EapRelay, FetchVectors, FetchVectorsFails, CreateSession,
         CreateSessionFails, CacheHit, CacheMiss, SessionGet, SessionGetFails, Reject,
         Resync, ResyncFails, Update, Lookup, StoreFails, DeleteSession, Build, BuildFails,
         CachePut, Faulty, stores
<1>4. CASE \/ \E s \in Session : ExpireSession(s)
           \/ \E e \in cache : ExpireCache(e)
           \/ Crash
           \/ UNCHANGED vars
  BY <1>4 DEF ExpireSession, ExpireCache, Crash, vars, stores, IdentitiesExpire
<1>5. QED
  BY <1>1, <1>2, <1>3, <1>4 DEF Next, Environment, IdentitiesExpire

\* As long as Redis executes its writes no hash is ever without a TTL, however resyncs,
\* deletions and crashes interleave: what the server leaves behind, Redis removes.
THEOREM HashesExpire ==
    ASSUME "redisWrite" \notin Faults
    PROVE  Spec => []KeysExpire
<1> DEFINE Expire == SessionsExpire /\ IdentitiesExpire
<1>1. Init => Expire
  BY DEF Init, SessionsExpire, IdentitiesExpire
<1>2. IInv /\ Expire /\ [Next]_vars => Expire'
  BY SessionsExpireStep, IdentitiesExpireStep
<1>3. Expire <=> KeysExpire
  BY DEF SessionsExpire, IdentitiesExpire, KeysExpire
<1>4. QED
  BY <1>1, <1>2, <1>3, Invariance, PTL DEF Spec

-----------------------------------------------------------------------------
(* The requests' side *)

\* A request that carries a relay has just arrived or carried it before; one that
\* is accepted has just passed the checks or was accepted before.
LEMMA RequestSteps ==
    ASSUME IInv, [Next]_vars, NEW q \in Req
    PROVE  /\ \/ pc'[q] \notin Relay
              \/ EapRelay(q)
              \/ pc[q] \in Relay /\ msg'[q] = msg[q] /\ late'[q] = late[q]
           /\ \/ pc'[q] \notin Accepted
              \/ SessionGet(q)
              \/ pc[q] \in Accepted /\ msg'[q] = msg[q] /\ loaded'[q] = loaded[q]
           /\ \/ pc'[q] \notin {"build", "cachePut"}
              \/ DeleteSession(q)
              \/ pc[q] \in {"build", "cachePut"} /\ msg'[q] = msg[q]
<1> USE DEF IInv, TypeOK, LocalsOK
<1> DEFINE Same == /\ pc'[q] = pc[q] /\ msg'[q] = msg[q] /\ loaded'[q] = loaded[q]
                   /\ late'[q] = late[q]
<1>1. ASSUME NEW r \in Req, Initial(r) \/ EapRelay(r) \/ Serve(r), r # q
      PROVE  Same
  BY <1>1 DEF Serve, Initial, EapRelay, FetchVectors, FetchVectorsFails, CreateSession,
       CreateSessionFails, CacheHit, CacheMiss, SessionGet, SessionGetFails, Reject,
       Resync, ResyncFails, Update, Lookup, Store, StoreFails, DeleteSession, Build,
       BuildFails, CachePut, Finish, Goto, TakeVector, locals
<1>2. CASE Initial(q) \/ FetchVectors(q)
  BY <1>2 DEF Initial, FetchVectors, Goto, Relay, Accepted
<1>3. CASE \/ FetchVectorsFails(q) \/ CreateSession(q) \/ CreateSessionFails(q)
           \/ CacheHit(q) \/ SessionGetFails(q) \/ Reject(q) \/ Update(q)
           \/ StoreFails(q) \/ BuildFails(q) \/ CachePut(q)
  <2>1. Finish(q)
    BY <1>3 DEF FetchVectorsFails, CreateSession, CreateSessionFails, CacheHit,
         SessionGetFails, Reject, Update, StoreFails, BuildFails, CachePut
  <2>2. QED
    BY <2>1 DEF Finish, Goto, Relay, Accepted
<1>4. CASE CacheMiss(q) \/ Resync(q) \/ ResyncFails(q)
  BY <1>4 DEF CacheMiss, Resync, ResyncFails, TakeVector, Goto, Relay, Calls, Accepted,
       locals
<1>5. CASE Lookup(q) \/ Store(q) \/ DeleteSession(q) \/ Build(q)
  BY <1>5 DEF Lookup, Store, DeleteSession, Build, Goto, Relay, Calls, Accepted, locals
<1>6. CASE SessionGet(q)
  BY <1>6 DEF SessionGet, Verdict, Goto, Relay, Calls, Accepted
<1>7. CASE EapRelay(q)
  BY <1>7 DEF EapRelay, Goto, Accepted
<1>8. CASE Environment
  BY <1>8 DEF Environment, ExpireSession, ExpireReauth, ExpireCache, Crash, locals,
       Relay, Accepted
<1>9. CASE UNCHANGED vars
  BY <1>9 DEF vars, locals
<1>10. QED
  <2>1. CASE Same
    BY <2>1
  <2>2. QED
    BY <1>1, <1>2, <1>3, <1>4, <1>5, <1>6, <1>7, <1>8, <1>9, <2>1 DEF Next, Serve

\* A request whose checks succeed has loaded the session as Redis holds it, and its
\* AT_RES is that of the vector in it.
LEMMA AcceptedLoads ==
    ASSUME IInv, NEW q \in Req, SessionGet(q), pc'[q] \in Accepted
    PROVE  /\ pc[q] \in Relay /\ msg'[q] = msg[q]
           /\ loaded'[q] = sessions[msg[q].sid]
           /\ sessions[msg[q].sid].state = Sent
           /\ msg[q].res = sessions[msg[q].sid].vec
           /\ UNCHANGED challenges
  BY DEF SessionGet, Goto, Verdict, IInv, TypeOK, LocalsOK, Relay, Calls, Accepted, seen

-----------------------------------------------------------------------------
(* The identifier a session holds *)

\* Session s was challenged with this vector and this identifier, or with identifier 0.
ChallengedWith(s, vec, identifier) ==
    \E c \in challenges :
        /\ c.sid = s /\ c.vec = vec
        /\ identifier = c.identifier \/ c.identifier = 0

Challenged(s) == \E c \in challenges : c.sid = s

\* The strengthening: the hash itself holds the identifier of a challenge sent, as
\* soon as any challenge has been sent for its session.
IdentifierInv ==
    /\ \A s \in Session :
           sessions[s].state = Sent /\ Challenged(s) =>
               ChallengedWith(s, sessions[s].vec, sessions[s].identifier)
    /\ \A r \in Req : pc[r] \in Relay => Challenged(msg[r].sid)
    /\ \A r \in Req :
           pc[r] \in Accepted =>
               ChallengedWith(msg[r].sid, msg[r].res, loaded[r].identifier)

LEMMA ChallengesGrow == ASSUME IInv, [Next]_vars PROVE challenges \subseteq challenges'
<1>1. ASSUME NEW r \in Req, Writes(r) PROVE challenges \subseteq challenges'
  BY <1>1 DEF Writes, CreateSession, CreateSessionFails, Update, SendChallenge
<1>2. QED
  BY <1>1, QuietSteps

\* What Update writes is the vector and the identifier of the challenge it sends,
\* or the identifier there was when that of the challenge is 0.
LEMMA UpdateSends ==
    ASSUME IInv, IdentifierInv, NEW r \in Req, Update(r),
           NEW s \in Session, s = msg[r].sid, sessions'[s].state = Sent
    PROVE  ChallengedWith(s, sessions[s].vec, sessions[s].identifier)'
<1> DEFINE sent == [sid |-> s, vec |-> fresh[r].vec, identifier |-> fresh[r].identifier]
<1>1. pc[r] = "update" /\ challenges' = challenges \cup {sent}
  BY DEF Update, SendChallenge
<1>2. Challenged(s) /\ s \in Session
  BY <1>1, UpdateTouches DEF IdentifierInv, Relay, Calls
<1>3. sessions[s].state = Sent
  BY UpdateTouches
<1>4. sessions[s] \in EapSession
  BY <1>2 DEF IInv, TypeOK, StoresOK
<1> DEFINE old == sessions[s]
           new == Updated(old, fresh[r])
           half == [new EXCEPT !.ttl = old.ttl]
<1>5. sessions'[s] \in {old, half, new}
  BY UpdateTouches DEF Rewritten, PipelineOutcomes
<1>6. CASE sessions'[s] = old
  BY <1>1, <1>2, <1>3, <1>6 DEF IdentifierInv, ChallengedWith
<1>7. /\ new.vec = fresh[r].vec
      /\ new.identifier = fresh[r].identifier \/ fresh[r].identifier = 0
  BY <1>4 DEF Updated, EapSession
<1>8. half.vec = new.vec /\ half.identifier = new.identifier
  BY <1>4 DEF Updated, EapSession
<1>9. CASE sessions'[s].vec = new.vec /\ sessions'[s].identifier = new.identifier
  <2>1. sent.sid = s /\ sent.vec = fresh[r].vec /\ sent.identifier = fresh[r].identifier
    OBVIOUS
  <2> HIDE DEF sent, new, half, old
  <2>2. QED
    BY <1>1, <1>7, <1>9, <2>1 DEF ChallengedWith
<1>10. QED
  <2> HIDE DEF new, half, old
  <2>1. QED
    BY <1>5, <1>6, <1>8, <1>9

LEMMA IdentifierStep ==
    ASSUME IInv, IdentifierInv, [Next]_vars
    PROVE  IdentifierInv'
<1>1. challenges \subseteq challenges'
  BY ChallengesGrow
<1>2. ASSUME NEW s \in Session, sessions'[s].state = Sent, (Challenged(s))'
      PROVE  ChallengedWith(s, sessions[s].vec, sessions[s].identifier)'
  <2>1. CASE ~ \E r \in Req : Writes(r)
    <3>1. UNCHANGED challenges /\ sessions'[s] = sessions[s]
      BY <1>2, <2>1, QuietSteps DEF Untouched, Removed, NoSession
    <3>2. QED
      BY <1>2, <3>1 DEF IdentifierInv, Challenged, ChallengedWith
  <2>2. ASSUME NEW r \in Req, CreateSession(r)
        PROVE  ChallengedWith(s, sessions[s].vec, sessions[s].identifier)'
    <3> DEFINE new == NewSession(msg[r].imsi, fresh[r])
    <3>1. PICK t \in Session \ created :
              sessions' = [sessions EXCEPT ![t] = new] /\ SendChallenge(r, t)
      BY <2>2 DEF CreateSession
    <3>2. CASE s = t
      <4>1. sessions'[s] = new
        BY <3>1, <3>2 DEF IInv, TypeOK, StoresOK
      <4>2. new.vec = fresh[r].vec /\ new.identifier = fresh[r].identifier
        BY DEF NewSession
      <4> DEFINE sent == [sid |-> s, vec |-> fresh[r].vec,
                          identifier |-> fresh[r].identifier]
      <4>3. sent \in challenges'
        BY <3>1, <3>2 DEF SendChallenge
      <4> HIDE DEF new
      <4>4. QED
        BY <4>1, <4>2, <4>3 DEF ChallengedWith
    <3>3. CASE s # t
      <4>1. sessions'[s] = sessions[s] /\ Challenged(s)
        BY <1>2, <3>1, <3>3 DEF SendChallenge, Challenged, IInv, TypeOK, StoresOK
      <4>2. QED
        BY <1>1, <1>2, <4>1 DEF IdentifierInv, ChallengedWith
    <3>4. QED
      BY <3>2, <3>3
  <2>3. ASSUME NEW r \in Req, CreateSessionFails(r)
        PROVE  ChallengedWith(s, sessions[s].vec, sessions[s].identifier)'
    <3>1. UNCHANGED challenges
      BY <2>3 DEF CreateSessionFails
    <3>2. s \in created
      BY <1>2, <3>1 DEF Challenged, IInv, WorldInv
    <3>3. sessions'[s] = sessions[s]
      BY <2>3, <3>2 DEF CreateSessionFails, IInv, TypeOK, StoresOK
    <3>4. QED
      BY <1>2, <3>1, <3>3 DEF IdentifierInv, Challenged, ChallengedWith
  <2>4. ASSUME NEW r \in Req, Update(r)
        PROVE  ChallengedWith(s, sessions[s].vec, sessions[s].identifier)'
    <3>1. CASE s = msg[r].sid
      BY <1>2, <2>4, <3>1, UpdateSends
    <3>2. CASE s # msg[r].sid
      <4>1. sessions'[s] = sessions[s] /\ Challenged(s)
        BY <1>2, <2>4, <3>2, UpdateTouches
           DEF Update, SendChallenge, Challenged, Untouched
      <4>2. QED
        BY <1>1, <1>2, <4>1 DEF IdentifierInv, ChallengedWith
    <3>3. QED
      BY <3>1, <3>2
  <2>5. QED
    BY <2>1, <2>2, <2>3, <2>4 DEF Writes
<1>3. ASSUME NEW q \in Req, pc'[q] \in Relay
      PROVE  (Challenged(msg[q].sid))'
  <2>1. CASE EapRelay(q)
    <3>1. PICK c \in challenges :
              \E m \in Answers(c) : msg' = [msg EXCEPT ![q] = m]
      BY <2>1 DEF EapRelay
    <3>2. msg'[q].sid = c.sid
      BY <3>1 DEF Answers, Msg, IInv, TypeOK, LocalsOK
    <3>3. QED
      BY <1>1, <3>2 DEF Challenged
  <2>2. CASE pc[q] \in Relay /\ msg'[q] = msg[q]
    BY <1>1, <2>2 DEF IdentifierInv, Challenged
  <2>3. QED
    BY <1>3, <2>1, <2>2, RequestSteps
<1>4. ASSUME NEW q \in Req, pc'[q] \in Accepted
      PROVE  ChallengedWith(msg[q].sid, msg[q].res, loaded[q].identifier)'
  <2>1. CASE SessionGet(q)
    <3>1. msg[q].sid \in Session
      BY <1>4, <2>1, AcceptedLoads DEF IInv, TypeOK, SeenOK, RequestInv
    <3>2. QED
      BY <1>4, <2>1, <3>1, AcceptedLoads DEF IdentifierInv, ChallengedWith
  <2>2. CASE pc[q] \in Accepted /\ msg'[q] = msg[q] /\ loaded'[q] = loaded[q]
    BY <1>1, <2>2 DEF IdentifierInv, ChallengedWith
  <2>3. QED
    BY <1>4, <2>1, <2>2, RequestSteps
<1>5. QED
  BY <1>2, <1>3, <1>4 DEF IdentifierInv

\* The identifier in EAP-Success is that of the challenge the device answered, or
\* that challenge's is 0, for any interleaving of resyncs and responses.
THEOREM IdentifierFollows == Spec => []IdentifierFollowsChallenge
<1>1. Init => IdentifierInv
  BY DEF Init, IdentifierInv, NoSession, Relay, Accepted
<1>2. IdentifierInv => IdentifierFollowsChallenge
  BY DEF IdentifierInv, ChallengedWith, IdentifierFollowsChallenge
<1>3. QED
  BY <1>1, <1>2, IdentifierStep, Invariance, PTL DEF Spec

-----------------------------------------------------------------------------
(* No identity after a reply *)

Dead(s) == s \in created /\ sessions[s].state # Sent

\* The strengthening: the session of a request that is past its DEL, or whose reply
\* has gone out, is dead, and a request that came later has not loaded it alive.
LateInv ==
    /\ \A g \in granted \cup cache : Dead(g.msg.sid)
    /\ \A r \in Req : pc[r] \in {"build", "cachePut"} => Dead(msg[r].sid)
    /\ \A r \in Req :
           late[r] /\ pc[r] \in Relay =>
               Dead(msg[r].sid) /\ pc[r] \notin Accepted

\* A reply that is new to the cache or to the device answers a message whose reply
\* is cached, or that of a request past its DEL.
LEMMA NewReplies ==
    ASSUME [Next]_vars, NEW g \in (granted \cup cache)'
    PROVE  \/ g \in granted \cup cache
           \/ \E r \in Req :
                  /\ g.msg = msg[r]
                  /\ \/ pc[r] = "cachePut"
                     \/ \E e \in cache : e.msg = msg[r]
<1>1. ASSUME NEW r \in Req, CacheHit(r)
      PROVE  \/ g \in granted \cup cache
             \/ g.msg = msg[r] /\ (\E e \in cache : e.msg = msg[r])
  BY <1>1 DEF CacheHit, Cached, stores
<1>2. ASSUME NEW r \in Req, CachePut(r)
      PROVE  \/ g \in granted \cup cache
             \/ g.msg = msg[r] /\ pc[r] = "cachePut"
  BY <1>2 DEF CachePut, Cached
<1>3. CASE ~ \E r \in Req : CacheHit(r) \/ CachePut(r)
  BY <1>3 DEF Next, Initial, EapRelay, Serve, FetchVectors, FetchVectorsFails,
       CreateSession, CreateSessionFails, CacheMiss, SessionGet, SessionGetFails, Reject,
       Resync, ResyncFails, Update, Lookup, Store, StoreFails, DeleteSession, Build,
       BuildFails, Environment, ExpireSession, ExpireReauth, ExpireCache, Crash, vars,
       stores, seen
<1>4. QED
  BY <1>1, <1>2, <1>3

LEMMA DeadForever ==
    ASSUME IInv, [Next]_vars, NEW s, Dead(s)
    PROVE  (Dead(s))'
<1>1. created \subseteq created'
  BY DEF Next, Initial, EapRelay, Serve, FetchVectors, FetchVectorsFails,
       CreateSession, CreateSessionFails, CacheHit, CacheMiss, SessionGet,
       SessionGetFails, Reject, Resync, ResyncFails, Update, Lookup, Store, StoreFails,
       DeleteSession, Build, BuildFails, CachePut, Environment, ExpireSession,
       ExpireReauth, ExpireCache, Crash, vars, seen
<1>2. QED
  BY <1>1, DeadStep DEF Dead

LEMMA LateStep ==
    ASSUME "redisWrite" \notin Faults, IInv, LateInv, [Next]_vars
    PROVE  LateInv'
<1>1. ASSUME NEW g \in (granted \cup cache)'
      PROVE  (Dead(g.msg.sid))'
  <2>1. Dead(g.msg.sid)
    <3>1. CASE g \in granted \cup cache
      BY <3>1 DEF LateInv
    <3>2. ASSUME NEW r \in Req, g.msg = msg[r],
                 pc[r] = "cachePut" \/ \E e \in cache : e.msg = msg[r]
          PROVE  Dead(g.msg.sid)
      BY <3>2 DEF LateInv
    <3>3. QED
      BY <3>1, <3>2, NewReplies
  <2>2. QED
    BY <2>1, DeadForever
<1>2. ASSUME NEW q \in Req, pc'[q] \in {"build", "cachePut"}
      PROVE  (Dead(msg[q].sid))'
  <2>1. CASE DeleteSession(q)
    <3>1. msg[q].sid \in created /\ msg[q].sid \in Session
      BY <2>1 DEF DeleteSession, IInv, TypeOK, SeenOK, RequestInv, Relay, Calls
    <3>2. sessions'[msg[q].sid] = NoSession
      BY <2>1, <3>1 DEF DeleteSession, DelOutcomes, Faulty, IInv, TypeOK, StoresOK
    <3>3. UNCHANGED <<msg, created>>
      BY <2>1 DEF DeleteSession, locals, seen
    <3>4. QED
      BY <3>1, <3>2, <3>3 DEF Dead, NoSession
  <2>2. CASE pc[q] \in {"build", "cachePut"} /\ msg'[q] = msg[q]
    <3>1. Dead(msg[q].sid)
      BY <2>2 DEF LateInv
    <3>2. QED
      BY <2>2, <3>1, DeadForever DEF Dead
  <2>3. QED
    BY <1>2, <2>1, <2>2, RequestSteps
<1>3. ASSUME NEW q \in Req, late'[q], pc'[q] \in Relay
      PROVE  (Dead(msg[q].sid))' /\ pc'[q] \notin Accepted
  <2>1. CASE EapRelay(q)
    <3>1. PICK c \in challenges :
              /\ \E m \in Answers(c) : msg' = [msg EXCEPT ![q] = m]
              /\ late' = [late EXCEPT ![q] = \E g \in granted : g.msg.sid = c.sid]
      BY <2>1 DEF EapRelay
    <3>2. msg'[q].sid = c.sid
      BY <3>1 DEF Answers, Msg, IInv, TypeOK, LocalsOK
    <3>3. Dead(c.sid)
      BY <1>3, <3>1 DEF LateInv, IInv, TypeOK, LocalsOK
    <3>4. pc'[q] \notin Accepted
      BY <2>1 DEF EapRelay, Goto, Accepted, IInv, TypeOK, LocalsOK
    <3>5. QED
      BY <3>2, <3>3, <3>4, DeadForever DEF Dead
  <2>2. CASE pc[q] \in Relay /\ msg'[q] = msg[q] /\ late'[q] = late[q]
    <3>1. Dead(msg[q].sid) /\ pc[q] \notin Accepted
      BY <1>3, <2>2 DEF LateInv
    <3>2. (Dead(msg[q].sid))'
      BY <2>2, <3>1, DeadForever DEF Dead
    <3>3. ~ (SessionGet(q) /\ pc'[q] \in Accepted)
      BY <3>1, AcceptedLoads DEF Dead
    <3>4. QED
      BY <3>1, <3>2, <3>3, RequestSteps
  <2>3. QED
    BY <1>3, <2>1, <2>2, RequestSteps
<1>4. QED
  BY <1>1, <1>2, <1>3 DEF LateInv

\* While Redis executes every DEL, a request that arrives after a 200 reply for its
\* session is never accepted, for any number of retransmissions, other faults,
\* expiries and restarts.
THEOREM NoReissue ==
    ASSUME "redisWrite" \notin Faults
    PROVE  Spec => []NoReissueAfterReply
<1>1. Init => LateInv
  BY DEF Init, LateInv
<1>2. IInv /\ LateInv /\ [Next]_vars => LateInv'
  BY LateStep
<1>3. LateInv => NoReissueAfterReply
  BY DEF LateInv, NoReissueAfterReply, Relay, Calls, Accepted
<1>4. QED
  BY <1>1, <1>2, <1>3, Invariance, PTL DEF Spec

-----------------------------------------------------------------------------
(* One identity per vector, as long as the responses of a session do not overlap *)

Live(s) == sessions[s].state = Sent

\* Request r holds a vector that it is about to send a challenge with.
Pending(r) == pc[r] \in {"create", "update"}

\* Request r is about to turn its session's vector into an identity.
Issuing(r) == pc[r] \in {"lookup", "store"}

Spent(v) == \E i \in ReauthId : issued[i] # None /\ issued[i].vec = v

\* Live sessions have vectors of their own.
SessionsApart ==
    \A s, t \in Session :
        Live(s) /\ Live(t) /\ sessions[s].vec = sessions[t].vec => s = t

\* A vector that has not been sent is in no session, in no identity, in no other
\* request's hands, and in no session copy that leads to an identity.
PendingApart ==
    \A q \in Req : Pending(q) =>
        /\ \A s \in Session : Live(s) => sessions[s].vec # fresh[q].vec
        /\ ~ Spent(fresh[q].vec)
        /\ \A r \in Req : Issuing(r) => loaded[r].vec # fresh[q].vec
        /\ \A r \in Req : Pending(r) /\ fresh[r].vec = fresh[q].vec => r = q

\* A vector about to be turned into an identity is not spent, is no other session's,
\* and is in no other request's hands.
IssuingApart ==
    \A q \in Req : Issuing(q) =>
        /\ ~ Spent(loaded[q].vec)
        /\ \A s \in Session :
              Live(s) /\ sessions[s].vec = loaded[q].vec => s = msg[q].sid
        /\ \A r \in Req : Issuing(r) /\ loaded[r].vec = loaded[q].vec => r = q

\* A live session with a spent vector is about to be deleted.
SpentIsDeleted ==
    \A s \in Session :
        Live(s) /\ Spent(sessions[s].vec) =>
            \E r \in Req : pc[r] = "delete" /\ msg[r].sid = s

OnceInv ==
    /\ SessionsApart /\ PendingApart /\ IssuingApart /\ SpentIsDeleted
    /\ OneIdentityPerChallenge

\* A step after which there is less to keep apart than before.
Calm ==
    /\ UNCHANGED issued
    /\ \A s \in Session : Untouched(s) \/ Removed(s)
    /\ \A q \in Req :
          /\ Pending(q)' => Pending(q) /\ fresh'[q] = fresh[q]
          /\ Issuing(q)' => Issuing(q) /\ loaded'[q] = loaded[q] /\ msg'[q] = msg[q]
          /\ pc[q] = "delete" =>
                \/ pc'[q] = "delete" /\ msg'[q] = msg[q]
                \/ Removed(msg[q].sid)

LEMMA CalmStep == ASSUME OnceInv, Calm PROVE OnceInv'
<1>1. ASSUME NEW s \in Session, Live(s)'
      PROVE  Live(s) /\ sessions'[s] = sessions[s]
  BY <1>1 DEF Calm, Live, Untouched, Removed, NoSession
<1>2. \A v : Spent(v)' <=> Spent(v)
  BY DEF Calm, Spent
<1>3. SessionsApart'
  BY <1>1 DEF OnceInv, SessionsApart
<1>4. PendingApart'
  BY <1>1, <1>2 DEF OnceInv, PendingApart, Calm
<1>5. IssuingApart'
  BY <1>1, <1>2 DEF OnceInv, IssuingApart, Calm
<1>6. SpentIsDeleted'
  <2> SUFFICES ASSUME NEW s \in Session, Live(s)', Spent(sessions[s].vec)'
               PROVE  (\E r \in Req : pc[r] = "delete" /\ msg[r].sid = s)'
    BY DEF SpentIsDeleted
  <2>1. PICK r \in Req : pc[r] = "delete" /\ msg[r].sid = s
    BY <1>1 DEF OnceInv, SpentIsDeleted, Spent, Calm
  <2>2. ~ Removed(s)
    BY DEF Live, Removed, NoSession
  <2>3. QED
    BY <2>1, <2>2 DEF Calm
<1>7. OneIdentityPerChallenge'
  BY DEF OnceInv, OneIdentityPerChallenge, Calm
<1>8. QED
  BY <1>3, <1>4, <1>5, <1>6, <1>7 DEF OnceInv

\* The steps that bring a vector into a new place.
Moves(r) ==
    \/ FetchVectors(r) \/ Resync(r)
    \/ CreateSession(r) \/ Update(r)
    \/ SessionGet(r)
    \/ Store(r)

\* All others are calm.
LEMMA CalmSteps ==
    ASSUME "redisWrite" \notin Faults, "crash" \notin Faults, IInv, [Next]_vars,
           ~ \E r \in Req : Moves(r)
    PROVE  Calm
<1> USE DEF IInv, TypeOK, LocalsOK, StoresOK
<1>1. ASSUME NEW r \in Req, Initial(r) \/ EapRelay(r) \/ Serve(r)
      PROVE  Calm
  <2>1. CASE Initial(r) \/ EapRelay(r)
    BY <2>1 DEF Initial, EapRelay, Goto, Calm, Untouched, Pending, Issuing, stores, seen
  <2>2. CASE \/ FetchVectorsFails(r) \/ CreateSessionFails(r) \/ CacheHit(r)
             \/ SessionGetFails(r) \/ StoreFails(r) \/ BuildFails(r) \/ CachePut(r)
    <3>1. Finish(r) /\ UNCHANGED <<sessions, issued>> /\ pc[r] # "delete"
      BY <2>2 DEF FetchVectorsFails, CreateSessionFails, CacheHit, SessionGetFails,
           StoreFails, BuildFails, CachePut, Faulty, stores, seen
    <3>2. QED
      BY <3>1 DEF Finish, Goto, Calm, Untouched, Pending, Issuing
  <2>3. CASE CacheMiss(r) \/ ResyncFails(r) \/ Lookup(r) \/ Build(r)
    BY <2>3 DEF CacheMiss, ResyncFails, Lookup, Build, Goto, Calm, Untouched, Pending,
         Issuing, locals, stores, seen
  <2>4. CASE Reject(r) \/ DeleteSession(r)
    <3>1. sessions' = [sessions EXCEPT ![msg[r].sid] = NoSession] /\ UNCHANGED issued
      BY <2>4 DEF Reject, DeleteSession, DelOutcomes, Faulty, seen
    <3>2. msg[r].sid \in Session
      BY <2>4 DEF Reject, DeleteSession, RequestInv, SeenOK, Relay, Calls
    <3>3. CASE Reject(r)
      BY <3>1, <3>3 DEF Reject, Finish, Goto, Calm, Untouched, Removed, Pending, Issuing
    <3>4. CASE DeleteSession(r)
      BY <3>1, <3>2, <3>4
         DEF DeleteSession, Goto, Calm, Untouched, Removed, Pending, Issuing, locals
    <3>5. QED
      BY <2>4, <3>3, <3>4
  <2>5. QED
    BY <1>1, <2>1, <2>2, <2>3, <2>4 DEF Serve, Moves
<1>2. CASE Environment
  BY <1>2 DEF Environment, ExpireSession, ExpireReauth, ExpireCache, Crash, Faulty, locals,
       stores, seen, Calm, Untouched, Removed, Pending, Issuing
<1>3. CASE UNCHANGED vars
  BY <1>3 DEF vars, locals, stores, seen, Calm, Untouched, Pending, Issuing
<1>4. QED
  BY <1>1, <1>2, <1>3 DEF Next

\* A vector that the HSS has just generated is nowhere.
LEMMA FreshNowhere ==
    ASSUME IInv, NEW v \in Vec, FreshVector(v)
    PROVE  /\ \A s \in Session : Live(s) => sessions[s].vec # v
           /\ ~ Spent(v)
           /\ \A q \in Req : Issuing(q) => loaded[q].vec # v
           /\ \A q \in Req : Pending(q) => fresh[q].vec # v
<1> USE ConstantsOK DEF IInv, FreshVector
<1>1. \A s \in Session : Live(s) => sessions[s].vec # v
  BY DEF SessionInv, Owned, Live
<1>2. ~ Spent(v)
  BY DEF Spent, WorldInv, TypeOK, SeenOK, Identity
<1>3. ASSUME NEW q \in Req, Issuing(q) PROVE loaded[q].vec # v
  <2>1. loaded[q].state = Sent
    BY <1>3 DEF Issuing, RequestInv, Accepted
  <2>2. QED
    BY <2>1 DEF SessionInv, Owned
<1>4. ASSUME NEW q \in Req, Pending(q) PROVE fresh[q].vec # v
  <2>1. CASE pc[q] = "create"
    <3>1. msg[q].imsi \in Known /\ vectors[fresh[q].vec] = msg[q].imsi
      BY <2>1 DEF RequestInv
    <3>2. QED
      BY <3>1
  <2>2. CASE pc[q] = "update"
    <3>1. loaded[q].state = Sent /\ vectors[fresh[q].vec] = loaded[q].imsi
      BY <2>2 DEF RequestInv
    <3>2. QED
      BY <3>1 DEF SessionInv, Owned
  <2>3. QED
    BY <1>4, <2>1, <2>2 DEF Pending
<1>5. QED
  BY <1>1, <1>2, <1>3, <1>4

\* The vector of a challenge to be sent.
LEMMA TakeKeeps ==
    ASSUME IInv, OnceInv, NEW r \in Req, FetchVectors(r) \/ Resync(r)
    PROVE  OnceInv'
<1> USE DEF IInv, TypeOK, LocalsOK
<1>1. PICK v \in Vec : FreshVector(v) /\ fresh'[r].vec = v
  BY DEF FetchVectors, Resync, TakeVector
<1>2. /\ UNCHANGED <<sessions, issued, msg, loaded>>
      /\ ~ Issuing(r) /\ ~ Issuing(r)' /\ pc[r] # "delete"
      /\ \A q \in Req \ {r} : pc'[q] = pc[q] /\ fresh'[q] = fresh[q]
  BY DEF FetchVectors, Resync, TakeVector, Goto, Issuing, stores
<1>3. \A w : Spent(w)' <=> Spent(w)
  BY <1>2 DEF Spent
<1>4. SessionsApart'
  BY <1>2 DEF OnceInv, SessionsApart, Live
<1>5. PendingApart'
  <2>1. ASSUME NEW q \in Req, Pending(q)', q # r
        PROVE  Pending(q) /\ fresh'[q] = fresh[q] /\ fresh[q].vec # v
    BY <1>1, <1>2, <2>1, FreshNowhere DEF Pending
  <2>2. \A q \in Req : Issuing(q)' <=> Issuing(q)
    BY <1>2 DEF Issuing
  <2>3. QED
    BY <1>1, <1>2, <1>3, <2>1, <2>2, FreshNowhere DEF OnceInv, PendingApart, Live
<1>6. IssuingApart'
  <2>1. \A q \in Req : Issuing(q)' <=> Issuing(q)
    BY <1>2 DEF Issuing
  <2>2. QED
    BY <1>2, <1>3, <2>1 DEF OnceInv, IssuingApart, Live
<1>7. SpentIsDeleted'
  BY <1>2, <1>3 DEF OnceInv, SpentIsDeleted, Live
<1>8. OneIdentityPerChallenge'
  BY <1>2 DEF OnceInv, OneIdentityPerChallenge
<1>9. QED
  BY <1>4, <1>5, <1>6, <1>7, <1>8 DEF OnceInv

\* The challenge is sent: its vector is now in the session, if that is alive.
LEMMA SendKeeps ==
    ASSUME "redisWrite" \notin Faults, IInv, OnceInv,
           NEW r \in Req, CreateSession(r) \/ Update(r)
    PROVE  OnceInv'
<1> USE DEF IInv, TypeOK, LocalsOK, StoresOK
<1>1. PICK s \in Session :
        /\ \A t \in Session \ {s} : sessions'[t] = sessions[t]
        /\ sessions'[s].vec = fresh[r].vec
  <2>1. CASE CreateSession(r)
    BY <2>1 DEF CreateSession, NewSession
  <2>2. CASE Update(r)
    <3>1. msg[r].sid \in Session
      BY <2>2, UpdateTouches
    <3>2. sessions' = [sessions EXCEPT ![msg[r].sid] =
                          Updated(sessions[msg[r].sid], fresh[r])]
      BY <2>2 DEF Update, Faulty
    <3>3. Updated(sessions[msg[r].sid], fresh[r]).vec = fresh[r].vec
      BY <3>1 DEF Updated, EapSession
    <3>4. QED
      BY <3>1, <3>2, <3>3
  <2>3. QED
    BY <2>1, <2>2
<1>2. Pending(r) /\ Finish(r) /\ UNCHANGED issued
  BY DEF CreateSession, Update, Pending
<1>3. /\ pc'[r] = "idle" /\ pc[r] # "delete"
      /\ \A q \in Req \ {r} :
            /\ pc'[q] = pc[q] /\ msg'[q] = msg[q] /\ loaded'[q] = loaded[q]
            /\ fresh'[q] = fresh[q]
  BY <1>2, FinishLocals DEF Pending
<1>4. \A w : Spent(w)' <=> Spent(w)
  BY <1>2 DEF Spent
<1>5. ASSUME NEW q \in Req, Pending(q)'
      PROVE  q # r /\ Pending(q) /\ fresh'[q] = fresh[q] /\ fresh[q].vec # fresh[r].vec
  BY <1>2, <1>3, <1>5 DEF Pending, OnceInv, PendingApart
<1>6. ASSUME NEW q \in Req, Issuing(q)'
      PROVE  /\ q # r /\ Issuing(q) /\ msg'[q] = msg[q] /\ loaded'[q] = loaded[q]
             /\ loaded[q].vec # fresh[r].vec
  BY <1>2, <1>3, <1>6 DEF Issuing, OnceInv, PendingApart
<1>7. ASSUME NEW t \in Session, t # s
      PROVE  (Live(t)' <=> Live(t)) /\ sessions'[t] = sessions[t]
  BY <1>1, <1>7 DEF Live
<1>8. \A t \in Session : Live(t) => sessions[t].vec # fresh[r].vec
  BY <1>2 DEF OnceInv, PendingApart
<1>9. SessionsApart'
  BY <1>1, <1>7, <1>8 DEF OnceInv, SessionsApart
<1>10. PendingApart'
  BY <1>1, <1>4, <1>5, <1>6, <1>7 DEF OnceInv, PendingApart
<1>11. IssuingApart'
  BY <1>1, <1>4, <1>6, <1>7 DEF OnceInv, IssuingApart
<1>12. SpentIsDeleted'
  <2>1. ~ Spent(sessions'[s].vec)
    BY <1>1, <1>2 DEF OnceInv, PendingApart
  <2>2. ASSUME NEW t \in Session, Live(t)', Spent(sessions[t].vec)'
        PROVE  (\E q \in Req : pc[q] = "delete" /\ msg[q].sid = t)'
    <3>1. t # s
      BY <1>2, <2>1, <2>2 DEF Spent
    <3>2. Live(t) /\ Spent(sessions[t].vec)
      BY <1>2, <1>7, <2>2, <3>1 DEF Spent
    <3>3. QED
      BY <1>3, <3>2 DEF OnceInv, SpentIsDeleted
  <2>3. QED
    BY <2>2 DEF SpentIsDeleted
<1>13. OneIdentityPerChallenge'
  BY <1>2 DEF OnceInv, OneIdentityPerChallenge
<1>14. QED
  BY <1>9, <1>10, <1>11, <1>12, <1>13 DEF OnceInv

\* A session copy that passes the checks is about to lead to an identity.  Nobody else
\* handles the session, so its vector is not spent.
LEMMA LoadKeeps ==
    ASSUME IInv, OnceInv, NoOverlap, NEW r \in Req, SessionGet(r)
    PROVE  OnceInv'
<1> USE DEF IInv, TypeOK, LocalsOK
<1> DEFINE s == msg[r].sid
<1>1. /\ UNCHANGED <<sessions, issued, msg, fresh>>
      /\ pc[r] = "sessionGet" /\ ~ Pending(r)'
      /\ pc'[r] \in {"reject", "resync", "lookup"}
      /\ loaded'[r] = sessions[s]
      /\ Issuing(r)' => Live(s)
      /\ \A q \in Req \ {r} : pc'[q] = pc[q] /\ loaded'[q] = loaded[q]
  BY DEF SessionGet, Verdict, Goto, Pending, Issuing, Live, stores, seen
<1>2. s \in Session
  BY <1>1 DEF RequestInv, SeenOK, Relay, Calls
<1>3. ASSUME NEW q \in Req, q # r, pc[q] \in {"lookup", "store", "delete"}
      PROVE  msg[q].sid # s
  BY <1>1, <1>3 DEF NoOverlap, Relay, Calls
<1>4. \A w : Spent(w)' <=> Spent(w)
  BY <1>1 DEF Spent
<1>5. \A q \in Req : Pending(q)' <=> Pending(q) /\ q # r
  BY <1>1 DEF Pending
<1>6. \A q \in Req \ {r} :
          (Issuing(q)' <=> Issuing(q)) /\ loaded'[q] = loaded[q] /\ msg'[q] = msg[q]
  BY <1>1 DEF Issuing
<1>7. SessionsApart'
  BY <1>1 DEF OnceInv, SessionsApart, Live
<1>8. PendingApart'
  <2>1. ASSUME NEW q \in Req, NEW t \in Req, Pending(q)', Issuing(t)'
        PROVE  loaded'[t].vec # fresh[q].vec
    BY <1>1, <1>2, <1>5, <1>6, <2>1 DEF OnceInv, PendingApart
  <2>2. QED
    BY <1>1, <1>4, <1>5, <2>1 DEF OnceInv, PendingApart, Live
<1>9. IssuingApart'
  <2>1. ASSUME Issuing(r)'
        PROVE  /\ ~ Spent(sessions[s].vec)
               /\ \A t \in Session : Live(t) /\ sessions[t].vec = sessions[s].vec => t = s
               /\ \A q \in Req \ {r} : Issuing(q) => loaded[q].vec # sessions[s].vec
    <3>1. Live(s)
      BY <1>1, <2>1
    <3>2. ~ \E q \in Req : pc[q] = "delete" /\ msg[q].sid = s
      BY <1>1, <1>3
    <3>3. ~ Spent(sessions[s].vec)
      BY <1>2, <3>1, <3>2 DEF OnceInv, SpentIsDeleted
    <3>4. \A q \in Req \ {r} : Issuing(q) => loaded[q].vec # sessions[s].vec
      BY <1>2, <1>3, <3>1 DEF OnceInv, IssuingApart, Issuing
    <3>5. QED
      BY <1>2, <3>1, <3>3, <3>4 DEF OnceInv, SessionsApart
  <2>2. ASSUME NEW q \in Req, Issuing(q)'
        PROVE  /\ ~ Spent(loaded'[q].vec)
               /\ \A t \in Session :
                     Live(t) /\ sessions[t].vec = loaded'[q].vec => t = msg[q].sid
               /\ \A p \in Req : Issuing(p)' /\ loaded'[p].vec = loaded'[q].vec => p = q
    <3>1. CASE q = r
      BY <1>1, <1>6, <2>1, <2>2, <3>1
    <3>2. CASE q # r
      BY <1>1, <1>6, <2>1, <2>2, <3>2 DEF OnceInv, IssuingApart
    <3>3. QED
      BY <3>1, <3>2
  <2>3. QED
    BY <1>1, <2>2 DEF IssuingApart, Live, Spent
<1>10. SpentIsDeleted'
  BY <1>1, <1>4 DEF OnceInv, SpentIsDeleted, Live
<1>11. OneIdentityPerChallenge'
  BY <1>1 DEF OnceInv, OneIdentityPerChallenge
<1>12. QED
  BY <1>7, <1>8, <1>9, <1>10, <1>11 DEF OnceInv

\* The identity is stored: its vector is spent now, and was not before.
LEMMA StoreKeeps ==
    ASSUME IInv, OnceInv, NEW r \in Req, Store(r)
    PROVE  OnceInv'
<1> USE DEF IInv, TypeOK, LocalsOK
<1> DEFINE v == loaded[r].vec
<1>1. PICK i \in ReauthId :
          /\ issued[i] = None
          /\ issued' = [issued EXCEPT ![i] = [imsi |-> loaded[r].imsi, vec |-> v]]
  BY DEF Store
<1>2. /\ UNCHANGED <<sessions, msg, loaded, fresh>>
      /\ Issuing(r) /\ pc'[r] = "delete"
      /\ \A q \in Req \ {r} : pc'[q] = pc[q]
  BY DEF Store, Goto, Issuing
<1>3. ASSUME NEW w, Spent(w)' PROVE Spent(w) \/ w = v
  BY <1>1, <1>3 DEF Spent, SeenOK
<1>4. \A q \in Req : Pending(q)' => Pending(q)
  BY <1>2 DEF Pending
<1>5. \A q \in Req : Issuing(q)' => Issuing(q) /\ q # r
  BY <1>2 DEF Issuing
<1>6. SessionsApart'
  BY <1>2 DEF OnceInv, SessionsApart, Live
<1>7. PendingApart'
  BY <1>2, <1>3, <1>4, <1>5 DEF OnceInv, PendingApart, Live
<1>8. IssuingApart'
  BY <1>2, <1>3, <1>5 DEF OnceInv, IssuingApart, Live
<1>9. SpentIsDeleted'
  <2> SUFFICES ASSUME NEW s \in Session, Live(s), Spent(sessions[s].vec)'
               PROVE  \E q \in Req : pc'[q] = "delete" /\ msg[q].sid = s
    BY <1>2 DEF SpentIsDeleted, Live
  <2>1. CASE sessions[s].vec = v
    BY <1>2, <2>1 DEF OnceInv, IssuingApart
  <2>2. CASE Spent(sessions[s].vec)
    BY <1>2, <2>2 DEF OnceInv, SpentIsDeleted
  <2>3. QED
    BY <1>1, <1>2, <2>1, <2>2 DEF Spent, SeenOK
<1>10. OneIdentityPerChallenge'
  <2>1. \A j \in ReauthId : issued[j] # None => issued[j].vec # v
    BY <1>2 DEF OnceInv, IssuingApart, Spent
  <2>2. QED
    BY <1>1, <2>1 DEF OnceInv, OneIdentityPerChallenge, SeenOK
<1>11. QED
  BY <1>6, <1>7, <1>8, <1>9, <1>10 DEF OnceInv

\* No step breaks it while responses of one session do not overlap.
LEMMA OnceStep ==
    ASSUME "redisWrite" \notin Faults, "crash" \notin Faults
    PROVE  IInv /\ OnceInv /\ NoOverlap /\ [Next]_vars => OnceInv'
<1> SUFFICES ASSUME IInv, OnceInv, NoOverlap, [Next]_vars PROVE OnceInv'
  OBVIOUS
<1>1. CASE ~ \E r \in Req : Moves(r)
  BY <1>1, CalmSteps, CalmStep
<1>2. ASSUME NEW r \in Req, Moves(r) PROVE OnceInv'
  BY <1>2, TakeKeeps, SendKeeps, LoadKeeps, StoreKeeps DEF Moves
<1>3. QED
  BY <1>1, <1>2

\* A vector is turned into one identity at most, for any number of sessions handled at
\* the same time, any mix of resyncs, expiries and failing reads, provided no two
\* responses of one session overlap, every write is executed and the server does not die.
THEOREM OneIdentity ==
    ASSUME "redisWrite" \notin Faults, "crash" \notin Faults
    PROVE  Spec => OneIdentityWithoutOverlap
<1>1. Init => OnceInv
  BY DEF Init, OnceInv, SessionsApart, PendingApart, IssuingApart, SpentIsDeleted,
       OneIdentityPerChallenge, Live, Pending, Issuing, NoSession
<1>2. OnceInv => OneIdentityPerChallenge
  BY DEF OnceInv
<1>3. QED
  BY <1>1, <1>2, OnceStep, Invariance, PTL DEF Spec, OneIdentityWithoutOverlap
=============================================================================
