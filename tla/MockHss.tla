------------------------------ MODULE MockHss ------------------------------
(***************************************************************************)
(* The HSS of the deployment, cmd/mock-hss/main.go: POST /vectors and POST *)
(* /resync over the subscribers table, with the USIMs that check the       *)
(* sequence number of every challenge and report theirs in an AUTS.        *)
(*                                                                         *)
(* Both handlers read the subscriber's row, compute a vector locally, write*)
(* the row back and reply.  Requests run concurrently, so the read is one  *)
(* action and the write with the reply another.  What MILENAGE computes is *)
(* abstracted to what it is computed from: a vector carries its SQN under  *)
(* the Ki of one IMSI and a RAND, and an AUTS carries SQN_MS likewise.     *)
(***************************************************************************)
EXTENDS Naturals

CONSTANTS
    Imsi,      \* IMSIs that may be asked for
    Known,     \* those with a row in the subscribers table
    RowId,     \* the UUIDs subscribers.id may hold
    IdOf,      \* IdOf[i]: the id of i's row
    Rand,      \* RANDs: GenerateVectors draws a fresh one for each vector
    Job,       \* HTTP requests that may be handled at the same time
    None,      \* no value
    SqnMod,    \* sequence numbers have 48 bits: 2^48 in the code
    WordMod,   \* /vectors keeps 32 of them: 2^32 in the code
    Advance,   \* what /resync adds to SQN_MS: 32 in the code
    UsimSqn,   \* sequence numbers a USIM may start with
    Faults     \* which of FaultKinds an instance admits

\* A failing query; a failing key manager; a reply nobody receives.
FaultKinds == {"db", "kms", "lost"}

ASSUME ConstantsOK ==
    /\ Known \subseteq Imsi
    /\ IdOf \in [Known -> RowId]
    /\ RowId \cap Imsi = {}    \* no IMSI has the form of a UUID
    /\ None \notin Imsi \cup Rand
    /\ SqnMod \in Nat \ {0}
    /\ WordMod \in Nat \ {0}
    /\ WordMod <= SqnMod
    /\ Advance \in Nat \ {0}
    /\ UsimSqn \subseteq 0 .. SqnMod - 1
    /\ Faults \subseteq FaultKinds

VARIABLES
    pc,        \* pc[j]: "idle", or "write" once job j has computed its vector
    job,       \* job[j]: what job j is about to write and to reply
    row,       \* row[id]: subscribers.sqn
    vectors,   \* vectors[r]: the vector with RAND r that was handed out, or NoVector
    usim,      \* usim[i]: SQN_MS, the highest sequence number i's USIM has accepted
    auts       \* the AUTS that USIMs have made

vars == <<pc, job, row, vectors, usim, auts>>

Sqn == 0 .. SqnMod - 1

Auts == [imsi: Imsi, rand: Rand, sqn: Sqn]

NoAuts == [imsi |-> None, rand |-> None, sqn |-> 0]

\* A vector and the AUTS it answers, if any.  The XRES, CK and IK that go with it
\* are functions of the RAND and the subscriber's Ki.
Vector == [imsi: Imsi \cup {None}, sqn: Sqn, answers: Auts \cup {NoAuts}]

NoVector == [imsi |-> None, sqn |-> 0, answers |-> NoAuts]

\* next is the value for subscribers.sqn.
NoJob == [vector |-> NoVector, next |-> 0]

TypeOK ==
    /\ pc \in [Job -> {"idle", "write"}]
    /\ job \in [Job -> [vector: Vector, next: Nat]]
    /\ row \in [RowId -> Nat]
    /\ vectors \in [Rand -> Vector]
    /\ usim \in [Known -> Sqn]
    /\ auts \subseteq Auts

-----------------------------------------------------------------------------
(* The queries and MILENAGE *)

\* FindSubscriberByIMSI finds the row.  When there is none, or the query fails, which
\* the handlers do not tell apart, the reply is 404 and leaves nothing behind.
Found(imsi) == imsi \in Known

\* UpdateSubscriberSQN compares its argument with the id column.  An argument that
\* is not a UUID makes Postgres reject the statement, and no row changes.
UpdateSubscriberSQN(table, key, sqn) ==
    IF key \in RowId THEN [table EXCEPT ![key] = sqn] ELSE table

\* Mutant: the row's number is incremented before it is used.
MutVectorSqnIncremented(sqn) == (sqn + 1) % WordMod

\* The sequence number of /vectors: the two high bytes are 0, the rest a uint32.
VectorSqn(sqn) == sqn % WordMod

\* Mutant: /resync reuses SQN_MS.
MutResyncSqnNotAdvanced(sqnMs) == sqnMs

\* The sequence number /resync moves to, before it is cut to 48 bits.
ResyncSqn(sqnMs) == sqnMs + Advance

\* Mutant: the high bytes are not cut.
MutSqnBytesUncut(sqn) == sqn

\* The six bytes a sequence number is put into for /resync.
SqnBytes(sqn) == sqn % SqnMod

\* Mutant: MAC-S is not compared.
MutValidAUTSUnchecked(a, imsi, rand) == TRUE

\* ValidateAUTS: MAC-S is right when the AUTS was made with the subscriber's Ki for
\* the RAND of the request, and only then is SQN_MS recovered from it.
ValidAUTS(a, imsi, rand) == a.imsi = imsi /\ a.rand = rand

-----------------------------------------------------------------------------
(* POST /vectors *)

\* The row is read, its keys are decrypted and the vector is generated.
ReadForVectors(j) ==
    /\ pc[j] = "idle"
    /\ \E imsi \in Imsi :
         LET sqn == row[IdOf[imsi]] IN
         /\ Found(imsi)
         /\ job' = [job EXCEPT ![j] =
                      [vector |-> [imsi |-> imsi, sqn |-> VectorSqn(sqn),
                                   answers |-> NoAuts],
                       next   |-> sqn + 1]]
    /\ pc' = [pc EXCEPT ![j] = "write"]
    /\ UNCHANGED <<row, vectors, usim, auts>>

-----------------------------------------------------------------------------
(* POST /resync *)

\* The server passes on the AUTS of a device with the RAND of its session, which is
\* one the HSS has handed out for the session's IMSI.  An AUTS that is not valid
\* for the two is answered with 400 and leaves nothing behind.
ReadForResync(j) ==
    /\ pc[j] = "idle"
    /\ \E r \in Rand, a \in auts :
         LET imsi == vectors[r].imsi
             next == ResyncSqn(a.sqn) IN
         /\ Found(imsi)
         /\ ValidAUTS(a, imsi, r)
         /\ job' = [job EXCEPT ![j] =
                      [vector |-> [imsi |-> imsi, sqn |-> SqnBytes(next), answers |-> a],
                       next   |-> next]]
    /\ pc' = [pc EXCEPT ![j] = "write"]
    /\ UNCHANGED <<row, vectors, usim, auts>>

-----------------------------------------------------------------------------
(* Both *)

\* An error of the key manager or of the ciphers, before the row is written, is answered
\* with 500.  POST /resync can also fail to generate the vector after it has written the
\* row; that is Answer with a reply that nobody receives.
Fails(j) ==
    /\ pc[j] = "write"
    /\ "kms" \in Faults
    /\ pc' = [pc EXCEPT ![j] = "idle"]
    /\ job' = [job EXCEPT ![j] = NoJob]
    /\ UNCHANGED <<row, vectors, usim, auts>>

\* The row is written, under the IMSI, the error is dropped, and the vector goes
\* out with a RAND that was not used before.
Answer(j) ==
    /\ pc[j] = "write"
    /\ \/ row' = UpdateSubscriberSQN(row, job[j].vector.imsi, job[j].next)
       \/ "db" \in Faults /\ UNCHANGED row
    /\ \/ \E r \in Rand :
            /\ vectors[r] = NoVector
            /\ vectors' = [vectors EXCEPT ![r] = job[j].vector]
       \/ "lost" \in Faults /\ UNCHANGED vectors
    /\ pc' = [pc EXCEPT ![j] = "idle"]
    /\ job' = [job EXCEPT ![j] = NoJob]
    /\ UNCHANGED <<usim, auts>>

-----------------------------------------------------------------------------
(* The USIMs.  A challenge may be presented to its USIM more than once. *)

\* A sequence number above SQN_MS is accepted and becomes SQN_MS.
Accept(r) ==
    LET v == vectors[r] IN
    /\ v # NoVector
    /\ v.sqn > usim[v.imsi]
    /\ usim' = [usim EXCEPT ![v.imsi] = v.sqn]
    /\ UNCHANGED <<pc, job, row, vectors, auts>>

\* Any other is answered with an AUTS (AKA-Synchronization-Failure).
SyncFailure(r) ==
    LET v == vectors[r] IN
    /\ v # NoVector
    /\ v.sqn <= usim[v.imsi]
    /\ auts' = auts \cup {[imsi |-> v.imsi, rand |-> r, sqn |-> usim[v.imsi]]}
    /\ UNCHANGED <<pc, job, row, vectors, usim>>

-----------------------------------------------------------------------------
\* Seeding leaves 0 in every row; USIMs come from elsewhere.
Init ==
    /\ pc = [j \in Job |-> "idle"]
    /\ job = [j \in Job |-> NoJob]
    /\ row = [id \in RowId |-> 0]
    /\ vectors = [r \in Rand |-> NoVector]
    /\ usim \in [Known -> UsimSqn]
    /\ auts = {}

Next ==
    \/ \E j \in Job :
         \/ ReadForVectors(j) \/ ReadForResync(j) \/ Fails(j) \/ Answer(j)
    \/ \E r \in Rand : Accept(r) \/ SyncFailure(r)

Spec == Init /\ [][Next]_vars

-----------------------------------------------------------------------------
(* Properties *)

\* A vector of /resync answers an AUTS that the USIM of its own subscriber made for
\* a RAND handed out for that subscriber, whatever the server paired: the sequence
\* number of one USIM never decides what another is sent (main.go POST /resync,
\* milenage.go ValidateAUTS).
ResyncAnswersOwnUsim ==
    \A r \in Rand :
        LET v == vectors[r]
            a == v.answers IN
        a # NoAuts =>
            /\ a \in auts
            /\ a.imsi = v.imsi
            /\ vectors[a.rand].imsi = v.imsi

\* One resynchronisation is enough: a USIM refuses the vector of a /resync only if
\* it has accepted another vector since the AUTS that the /resync answered, or if
\* SQN_MS was so high that the sum left the 48 bits.  Else the device would go
\* from one SYNC_FAILURE to the next for ever (main.go "Extract SQN_MS and advance").
OneResyncIsEnough ==
    \A b \in auts :
        LET a == vectors[b.rand].answers IN
        a # NoAuts => b.sqn > a.sqn \/ a.sqn + Advance >= SqnMod

\* The sequence number of a USIM moves only by a vector that answers an AUTS of its own.
\* What /vectors hands out, first or later, every USIM refuses: the row its number comes
\* from stays as it was seeded, and each subscriber needs a resynchronisation for each
\* authentication (main.go UpdateSubscriberSQN, called with an IMSI for an id).
UsimsMoveByResync ==
    [][\A i \in Known : usim'[i] # usim[i] =>
          \E r \in Rand :
              /\ vectors[r].imsi = i /\ usim'[i] = vectors[r].sqn
              /\ vectors[r].answers \in auts /\ vectors[r].answers.imsi = i]_vars

\* main.go says of the update in /vectors: "Increment SQN".  Refuted, one request
\* after the other: the row is never written, and the second vector of a
\* subscriber carries the sequence number of the first.
SqnIncreases ==
    \A r, s \in Rand :
        LET v == vectors[r]
            w == vectors[s] IN
        r # s /\ v # NoVector /\ v.answers = NoAuts /\ w.answers = NoAuts
            /\ v.imsi = w.imsi => v.sqn # w.sqn
=============================================================================
