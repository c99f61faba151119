----------------------------- MODULE AkaPromise -----------------------------
(***************************************************************************)
(* What full EAP-AKA authentication promises, without sessions, requests,  *)
(* retransmissions or faults: a re-auth identity is issued only against a  *)
(* vector of the HSS that the subscriber's device has answered, it belongs *)
(* to that subscriber and carries that vector's keys, and it is handed out *)
(* only in reply to an answer to that vector.  How often an answered       *)
(* vector is turned into an identity is not promised: module EapAka shows  *)
(* the code does it more than once.                                        *)
(***************************************************************************)
CONSTANTS Imsi, Vec, ReauthId, None

VARIABLES
    vectors,     \* vectors[v]: the IMSI the HSS generated v for, or None
    answered,    \* the vectors a device has answered with AT_RES
    identities,  \* identities[rid]: owner and key material of an identity
    delivered    \* which identity was handed out for an answer to which vector

vars == <<vectors, answered, identities, delivered>>

Identity == [imsi: Imsi, vec: Vec]

Init ==
    /\ vectors = [v \in Vec |-> None]
    /\ answered = {}
    /\ identities = [rid \in ReauthId |-> None]
    /\ delivered = {}

\* The HSS generates a vector for a subscriber.
Generate(v, imsi) ==
    /\ vectors[v] = None
    /\ vectors' = [vectors EXCEPT ![v] = imsi]
    /\ UNCHANGED <<answered, identities, delivered>>

\* The subscriber's device answers the challenge built from a vector.
Answer(v) ==
    /\ vectors[v] # None
    /\ answered' = answered \cup {v}
    /\ UNCHANGED <<vectors, identities, delivered>>

\* The server issues a fresh identity to the owner of an answered vector.
Issue(rid, v) ==
    /\ identities[rid] = None
    /\ v \in answered
    /\ identities' = [identities EXCEPT ![rid] = [imsi |-> vectors[v], vec |-> v]]
    /\ UNCHANGED <<vectors, answered, delivered>>

\* The server replies to an answer with an identity issued for that answer.
Deliver(rid) ==
    /\ identities[rid] # None
    /\ delivered' = delivered \cup {[vec |-> identities[rid].vec, rid |-> rid]}
    /\ UNCHANGED <<vectors, answered, identities>>

Next ==
    \/ \E v \in Vec, imsi \in Imsi : Generate(v, imsi)
    \/ \E v \in Vec : Answer(v)
    \/ \E rid \in ReauthId, v \in Vec : Issue(rid, v)
    \/ \E rid \in ReauthId : Deliver(rid)

Spec == Init /\ [][Next]_vars
=============================================================================
