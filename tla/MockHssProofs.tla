--------------------------- MODULE MockHssProofs ---------------------------
(***************************************************************************)
(* Proofs about MockHss for every number of subscribers, requests and      *)
(* vectors, every starting sequence number and every mix of faults.        *)
(***************************************************************************)
EXTENDS MockHss, TLAPS

\* v was made for a subscriber, and if it answers an AUTS, then one of that very
\* subscriber's USIM, whose SQN_MS it exceeds modulo 2^48 by Advance.
Sound(v) ==
    /\ v.imsi \in Known
    /\ v.answers # NoAuts =>
         /\ v.answers \in auts
         /\ v.answers.imsi = v.imsi
         /\ v.sqn = SqnBytes(ResyncSqn(v.answers.sqn))

JobsSound == \A j \in Job : pc[j] = "write" => Sound(job[j].vector)

VectorsSound == \A r \in Rand : vectors[r] # NoVector => Sound(vectors[r])

\* A USIM makes an AUTS only for a vector it was sent and whose sequence number
\* does not exceed the one it reports.
AutsSound ==
    \A a \in auts :
        /\ a.imsi \in Known
        /\ vectors[a.rand] # NoVector
        /\ vectors[a.rand].imsi = a.imsi
        /\ vectors[a.rand].sqn <= a.sqn

\* The inductive invariant.
IInv == TypeOK /\ JobsSound /\ VectorsSound /\ AutsSound

-----------------------------------------------------------------------------
(* Facts about the operators *)

\* No vector of a subscriber is NoVector.
LEMMA KnownVector ==
    ASSUME NEW v, v.imsi \in Known
    PROVE  v # NoVector
BY ConstantsOK DEF NoVector

\* A remainder is one of the residues.
LEMMA Residues ==
    ASSUME NEW n \in Nat
    PROVE  SqnBytes(n) \in Sqn /\ VectorSqn(n) \in Sqn
BY ConstantsOK DEF SqnBytes, VectorSqn, Sqn

\* A number of 48 bits survives the cut.
LEMMA Uncut ==
    ASSUME NEW n \in Nat, n < SqnMod
    PROVE  SqnBytes(n) = n
BY ConstantsOK DEF SqnBytes

\* The absent vector and the absent job have their types.
LEMMA NothingTyped == NoVector \in Vector /\ NoJob \in [vector: Vector, next: Nat]
<1>1. 0 \in Sqn
  BY ConstantsOK DEF Sqn
<1> QED
  BY <1>1 DEF NoJob, NoVector, Vector

\* Whatever the key is, the table stays one of naturals.
LEMMA UpdatedRows ==
    ASSUME NEW t \in [RowId -> Nat], NEW key, NEW n \in Nat
    PROVE  UpdateSubscriberSQN(t, key, n) \in [RowId -> Nat]
BY DEF UpdateSubscriberSQN

-----------------------------------------------------------------------------
(* The invariant *)

\* Every row is 0, no vector is out and no AUTS is made.
LEMMA Initially == Init => IInv
<1> SUFFICES ASSUME Init PROVE IInv
  OBVIOUS
<1>1. usim \in [Known -> Sqn]
  BY ConstantsOK DEF Init, Sqn
<1>2. TypeOK
  BY <1>1, NothingTyped DEF Init, TypeOK
<1>3. JobsSound /\ VectorsSound /\ AutsSound
  BY DEF Init, JobsSound, VectorsSound, AutsSound
<1> QED
  BY <1>2, <1>3 DEF IInv

\* A vector stays sound while AUTS are only added.
LEMMA SoundStays ==
    ASSUME NEW v, Sound(v), auts \subseteq auts'
    PROVE  Sound(v)'
BY DEF Sound

\* Nothing outside auts and vectors matters to the AUTS, and those two may grow.
LEMMA AutsStay ==
    ASSUME AutsSound, auts' = auts,
           \A r \in Rand : vectors[r] # NoVector => vectors'[r] = vectors[r],
           auts \subseteq Auts
    PROVE  AutsSound'
BY DEF AutsSound, Auts

\* A /vectors job carries a vector that answers no AUTS.
LEMMA ReadForVectorsKeeps ==
    ASSUME IInv, NEW j \in Job, ReadForVectors(j)
    PROVE  IInv'
<1>1. PICK imsi \in Known :
        job' = [job EXCEPT ![j] =
                  [vector |-> [imsi    |-> imsi,
                               sqn     |-> VectorSqn(row[IdOf[imsi]]),
                               answers |-> NoAuts],
                   next   |-> row[IdOf[imsi]] + 1]]
  BY DEF ReadForVectors, Found
<1>2. row[IdOf[imsi]] \in Nat /\ imsi \in Imsi
  BY ConstantsOK DEF IInv, TypeOK
<1>3. VectorSqn(row[IdOf[imsi]]) \in Sqn
  BY <1>2, Residues
<1>4. TypeOK'
  BY <1>1, <1>2, <1>3 DEF IInv, TypeOK, ReadForVectors, Vector
<1>5. Sound(job'[j].vector)
  BY <1>1 DEF IInv, TypeOK, Sound
<1>6. JobsSound'
  BY <1>5, SoundStays DEF IInv, TypeOK, JobsSound, ReadForVectors, Sound
<1>7. VectorsSound' /\ AutsSound'
  BY SoundStays, AutsStay DEF IInv, TypeOK, VectorsSound, ReadForVectors
<1> QED
  BY <1>4, <1>6, <1>7 DEF IInv

\* A /resync job carries a vector that answers the AUTS it was sent.
LEMMA ReadForResyncKeeps ==
    ASSUME IInv, NEW j \in Job, ReadForResync(j)
    PROVE  IInv'
<1>1. PICK r \in Rand, a \in auts :
        /\ vectors[r].imsi \in Known
        /\ ValidAUTS(a, vectors[r].imsi, r)
        /\ job' = [job EXCEPT ![j] =
                     [vector |-> [imsi    |-> vectors[r].imsi,
                                  sqn     |-> SqnBytes(ResyncSqn(a.sqn)),
                                  answers |-> a],
                      next   |-> ResyncSqn(a.sqn)]]
  BY DEF ReadForResync, Found
<1>2. a \in Auts /\ ResyncSqn(a.sqn) \in Nat
  BY ConstantsOK DEF IInv, TypeOK, Auts, Sqn, ResyncSqn
<1>3. SqnBytes(ResyncSqn(a.sqn)) \in Sqn /\ vectors[r].imsi \in Imsi
  BY <1>1, <1>2, Residues, ConstantsOK
<1>4. TypeOK'
  BY <1>1, <1>2, <1>3 DEF IInv, TypeOK, ReadForResync, Vector
<1>5. Sound(job'[j].vector)
  BY <1>1 DEF IInv, TypeOK, Sound, ValidAUTS
<1>6. JobsSound'
  BY <1>5, SoundStays DEF IInv, TypeOK, JobsSound, ReadForResync, Sound
<1>7. VectorsSound' /\ AutsSound'
  BY SoundStays, AutsStay DEF IInv, TypeOK, VectorsSound, ReadForResync
<1> QED
  BY <1>4, <1>6, <1>7 DEF IInv

\* A 500 drops a job.
LEMMA ErrorsKeep ==
    ASSUME IInv, NEW j \in Job, Fails(j)
    PROVE  IInv'
<1>1. TypeOK'
  BY NothingTyped DEF IInv, TypeOK, Fails
<1>2. JobsSound'
  BY SoundStays DEF IInv, TypeOK, JobsSound, Fails
<1>3. VectorsSound' /\ AutsSound'
  BY SoundStays, AutsStay DEF IInv, TypeOK, VectorsSound, Fails
<1> QED
  BY <1>1, <1>2, <1>3 DEF IInv

\* The job's vector takes the place of NoVector at a RAND that no AUTS mentions.
LEMMA AnswerKeeps ==
    ASSUME IInv, NEW j \in Job, Answer(j)
    PROVE  IInv'
<1>1. Sound(job[j].vector) /\ job[j].vector \in Vector /\ job[j].next \in Nat
  BY DEF IInv, TypeOK, JobsSound, Answer
<1>2. \/ vectors' = vectors
      \/ \E r \in Rand :
           vectors[r] = NoVector /\ vectors' = [vectors EXCEPT ![r] = job[j].vector]
  BY DEF Answer
<1>3. row' \in [RowId -> Nat]
  BY <1>1, UpdatedRows DEF IInv, TypeOK, Answer
<1>4. vectors' \in [Rand -> Vector]
  BY <1>1, <1>2 DEF IInv, TypeOK
<1>5. TypeOK'
  BY <1>3, <1>4, NothingTyped DEF IInv, TypeOK, Answer
<1>6. JobsSound'
  BY SoundStays DEF IInv, TypeOK, JobsSound, Answer
<1>7. \A r \in Rand : vectors'[r] # NoVector => Sound(vectors'[r])
  BY <1>1, <1>2 DEF IInv, TypeOK, VectorsSound
<1>8. VectorsSound'
  BY <1>7 DEF VectorsSound, Sound, Answer
<1>9. AutsSound'
  BY <1>2, AutsStay DEF IInv, TypeOK, Answer
<1> QED
  BY <1>5, <1>6, <1>8, <1>9 DEF IInv

\* A USIM that moves on leaves every AUTS and every vector as it is.
LEMMA AcceptKeeps ==
    ASSUME IInv, NEW r \in Rand, Accept(r)
    PROVE  IInv'
<1>1. vectors[r] \in Vector /\ vectors[r].sqn \in Sqn
  BY DEF IInv, TypeOK, Vector
<1>2. TypeOK'
  BY <1>1 DEF IInv, TypeOK, Accept
<1>3. JobsSound' /\ VectorsSound'
  BY SoundStays DEF IInv, TypeOK, JobsSound, VectorsSound, Accept
<1>4. AutsSound'
  BY AutsStay DEF IInv, TypeOK, Accept
<1> QED
  BY <1>2, <1>3, <1>4 DEF IInv

\* The new AUTS is made for a vector of the same USIM that it found too low.
LEMMA SyncFailureKeeps ==
    ASSUME IInv, NEW r \in Rand, SyncFailure(r)
    PROVE  IInv'
<1> DEFINE b == [imsi |-> vectors[r].imsi, rand |-> r, sqn |-> usim[vectors[r].imsi]]
<1>1. vectors[r] # NoVector /\ vectors[r].imsi \in Known /\ vectors[r] \in Vector
  BY DEF SyncFailure, IInv, TypeOK, VectorsSound, Sound
<1>2. auts' = auts \cup {b} /\ vectors[r].sqn <= b.sqn
  BY DEF SyncFailure
<1>3. b \in Auts
  BY <1>1, ConstantsOK DEF IInv, TypeOK, Auts
<1>4. TypeOK'
  BY <1>2, <1>3 DEF IInv, TypeOK, SyncFailure
<1>5. JobsSound' /\ VectorsSound'
  BY SoundStays DEF IInv, TypeOK, JobsSound, VectorsSound, SyncFailure
<1>6. AutsSound'
  BY <1>1, <1>2 DEF IInv, TypeOK, AutsSound, SyncFailure
<1> QED
  BY <1>4, <1>5, <1>6 DEF IInv

\* IInv is inductive.
LEMMA Inductive == IInv /\ [Next]_vars => IInv'
<1> SUFFICES ASSUME IInv, [Next]_vars PROVE IInv'
  OBVIOUS
<1>1. CASE Next
  BY <1>1, ReadForVectorsKeeps, ReadForResyncKeeps, ErrorsKeep, AnswerKeeps,
     AcceptKeeps, SyncFailureKeeps DEF Next
<1>2. CASE UNCHANGED vars
  BY <1>2 DEF vars, IInv, TypeOK, JobsSound, VectorsSound, AutsSound, Sound
<1> QED
  BY <1>1, <1>2

\* IInv holds in every reachable state of the HSS and its USIMs.
THEOREM Invariance == Spec => []IInv
BY Initially, Inductive, PTL DEF Spec

\* Every variable keeps its type: no sequence number in a vector or a USIM leaves
\* its 48 bits, whatever the row and the AUTS hold.
THEOREM TypeCorrect == Spec => []TypeOK
<1>1. IInv => TypeOK
  BY DEF IInv
<1> QED
  BY <1>1, Invariance, PTL

-----------------------------------------------------------------------------
(* The properties *)

\* What a vector of /resync answers comes from the USIM it is made for.
THEOREM OwnUsim == Spec => []ResyncAnswersOwnUsim
<1>1. IInv => ResyncAnswersOwnUsim
  <2> SUFFICES ASSUME IInv, NEW r \in Rand, vectors[r].answers # NoAuts
               PROVE  /\ vectors[r].answers \in auts
                      /\ vectors[r].answers.imsi = vectors[r].imsi
                      /\ vectors[vectors[r].answers.rand].imsi = vectors[r].imsi
    BY DEF ResyncAnswersOwnUsim
  <2>1. Sound(vectors[r])
    BY DEF IInv, VectorsSound, NoVector
  <2> QED
    BY <2>1 DEF IInv, AutsSound, Sound
<1> QED
  BY <1>1, Invariance, PTL

\* A USIM that refuses the vector of its resynchronisation has moved on since, or
\* is within Advance of the highest sequence number.
THEOREM OneResync == Spec => []OneResyncIsEnough
<1>1. IInv => OneResyncIsEnough
  <2> SUFFICES ASSUME IInv, NEW b \in auts, vectors[b.rand].answers # NoAuts,
                      ~ (vectors[b.rand].answers.sqn + Advance >= SqnMod)
               PROVE  b.sqn > vectors[b.rand].answers.sqn
    BY DEF OneResyncIsEnough
  <2> DEFINE v == vectors[b.rand]
             a == vectors[b.rand].answers
  <2>1. b.rand \in Rand /\ b.sqn \in Nat /\ v # NoVector /\ v.sqn <= b.sqn
    BY DEF IInv, TypeOK, AutsSound, Auts, Sqn
  <2>2. a \in auts /\ v.sqn = SqnBytes(ResyncSqn(a.sqn))
    BY <2>1 DEF IInv, VectorsSound, Sound
  <2>3. a.sqn \in Nat
    BY <2>2 DEF IInv, TypeOK, Auts, Sqn
  <2>4. SqnBytes(ResyncSqn(a.sqn)) = a.sqn + Advance
    BY <2>3, Uncut, ConstantsOK DEF ResyncSqn
  <2> QED
    BY <2>1, <2>2, <2>3, <2>4, ConstantsOK
<1> QED
  BY <1>1, Invariance, PTL

-----------------------------------------------------------------------------
(* The row that is never written *)

\* Every row is as it was seeded, and so is every sequence number that comes from one.
SeededInv ==
    /\ row = [id \in RowId |-> 0]
    /\ \A j \in Job : job[j].vector.answers = NoAuts => job[j].vector.sqn = 0
    /\ \A r \in Rand : vectors[r].answers = NoAuts => vectors[r].sqn = 0

\* An IMSI is no id: the update changes nothing.
LEMMA RowsStay ==
    ASSUME NEW imsi \in Imsi, NEW t, NEW n
    PROVE  UpdateSubscriberSQN(t, imsi, n) = t
BY ConstantsOK DEF UpdateSubscriberSQN

LEMMA SeededStep ==
    ASSUME IInv, SeededInv, [Next]_vars
    PROVE  SeededInv'
<1>1. ASSUME NEW j \in Job, ReadForVectors(j)
      PROVE  SeededInv'
  <2>1. PICK imsi \in Known :
          job' = [job EXCEPT ![j] =
                    [vector |-> [imsi    |-> imsi,
                                 sqn     |-> VectorSqn(row[IdOf[imsi]]),
                                 answers |-> NoAuts],
                     next   |-> row[IdOf[imsi]] + 1]]
    BY <1>1 DEF ReadForVectors, Found
  <2>2. VectorSqn(row[IdOf[imsi]]) = 0
    BY ConstantsOK DEF SeededInv, VectorSqn
  <2>3. UNCHANGED <<row, vectors>>
    BY <1>1 DEF ReadForVectors
  <2>4. QED
    BY <2>1, <2>2, <2>3 DEF SeededInv, IInv, TypeOK
<1>2. ASSUME NEW j \in Job, ReadForResync(j)
      PROVE  SeededInv'
  <2>1. PICK a \in auts :
          \E v : /\ job' = [job EXCEPT ![j] = [vector |-> v, next |-> ResyncSqn(a.sqn)]]
                /\ v.answers = a
    BY <1>2 DEF ReadForResync
  <2>2. PICK v :
          /\ job' = [job EXCEPT ![j] = [vector |-> v, next |-> ResyncSqn(a.sqn)]]
          /\ v.answers = a
    BY <2>1
  <2>3. a # NoAuts
    <3>1. a.imsi \in Imsi
      BY DEF IInv, TypeOK, Auts
    <3>2. QED
      BY <3>1, ConstantsOK DEF NoAuts
  <2>4. UNCHANGED <<row, vectors>>
    BY <1>2 DEF ReadForResync
  <2>5. QED
    BY <2>2, <2>3, <2>4 DEF SeededInv, IInv, TypeOK
<1>3. ASSUME NEW j \in Job, Fails(j)
      PROVE  SeededInv'
  BY <1>3 DEF Fails, SeededInv, NoJob, NoVector, IInv, TypeOK
<1>4. ASSUME NEW j \in Job, Answer(j)
      PROVE  SeededInv'
  <2>1. job[j].vector.imsi \in Imsi
    BY <1>4, ConstantsOK DEF Answer, IInv, JobsSound, Sound
  <2>2. row' = row
    BY <1>4, <2>1, RowsStay DEF Answer
  <2>3. job' = [job EXCEPT ![j] = NoJob]
    BY <1>4 DEF Answer
  <2>4. \/ vectors' = vectors
        \/ \E r \in Rand : vectors' = [vectors EXCEPT ![r] = job[j].vector]
    BY <1>4 DEF Answer
  <2>5. \A q \in Job : job'[q].vector.answers = NoAuts => job'[q].vector.sqn = 0
    BY <2>3 DEF SeededInv, NoJob, NoVector, IInv, TypeOK
  <2>6. \A r \in Rand : vectors'[r].answers = NoAuts => vectors'[r].sqn = 0
    BY <2>4 DEF SeededInv, IInv, TypeOK
  <2>7. QED
    BY <2>2, <2>5, <2>6 DEF SeededInv
<1>5. CASE (\E r \in Rand : Accept(r) \/ SyncFailure(r)) \/ UNCHANGED vars
  BY <1>5 DEF Accept, SyncFailure, vars, SeededInv
<1>6. QED
  BY <1>1, <1>2, <1>3, <1>4, <1>5 DEF Next

LEMMA MoveStep ==
    ASSUME IInv, SeededInv, [Next]_vars, NEW i \in Known, usim'[i] # usim[i]
    PROVE  \E r \in Rand :
               /\ vectors[r].imsi = i /\ usim'[i] = vectors[r].sqn
               /\ vectors[r].answers \in auts /\ vectors[r].answers.imsi = i
<1>1. PICK r \in Rand : Accept(r)
  BY DEF Next, ReadForVectors, ReadForResync, Fails, Answer, SyncFailure, vars
<1>2. vectors[r].imsi = i /\ usim'[i] = vectors[r].sqn /\ vectors[r].sqn > usim[i]
  BY <1>1 DEF Accept, IInv, TypeOK
<1>3. vectors[r].answers # NoAuts
  BY <1>2 DEF SeededInv, IInv, TypeOK, Sqn
<1>4. Sound(vectors[r])
  BY <1>1 DEF Accept, IInv, VectorsSound
<1>5. QED
  BY <1>2, <1>3, <1>4 DEF Sound

\* Only a resynchronisation moves a USIM, for any number of subscribers and requests: the
\* increment that /vectors intends never takes place.
THEOREM OnlyResyncsMove == Spec => UsimsMoveByResync
<1>1. Init => SeededInv
  BY DEF Init, SeededInv, NoJob, NoVector
<1>2. IInv /\ SeededInv /\ [Next]_vars =>
          [\A i \in Known : usim'[i] # usim[i] =>
              \E r \in Rand :
                  /\ vectors[r].imsi = i /\ usim'[i] = vectors[r].sqn
                  /\ vectors[r].answers \in auts /\ vectors[r].answers.imsi = i]_vars
  BY MoveStep
<1>3. QED
  BY <1>1, <1>2, SeededStep, Invariance, PTL DEF Spec, UsimsMoveByResync
=============================================================================
