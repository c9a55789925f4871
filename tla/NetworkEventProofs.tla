------------------------ MODULE NetworkEventProofs ------------------------
(***************************************************************************)
(* Proofs about NetworkEvent for every number of queries, every set of     *)
(* answers and every bound on the changes of the p2p state.               *)
(***************************************************************************)
EXTENDS NetworkEvent, FiniteSetTheorems, TLAPS

(* The inductive invariant behind BroadcastOnlyChanges: without            *)
(* always_send, previously_sent is exactly the last event broadcast, and  *)
(* none was a repeat.                                                      *)
SentInv == ~alwaysSend => ~repeated /\ previous = lastSent

IInv == TypeOK /\ SentInv

-----------------------------------------------------------------------------
(* The first query of a round is a query of the set.                       *)
LEMMA FirstPart == 1 \in Parts
<1>1. PICK x \in Parts : TRUE
  BY NetworkAssumption
<1>2. x \in 1..Cardinality(Parts)
  BY <1>1, NetworkAssumption
<1>3. Cardinality(Parts) \in Nat
  BY NetworkAssumption, FS_CardinalityType
<1> QED
  BY <1>2, <1>3, NetworkAssumption

(* The streamer starts well typed and with nothing sent.                   *)
LEMMA InitInv == Init => IInv
<1> SUFFICES ASSUME Init PROVE IInv
  OBVIOUS
<1>1. NoAnswers \in Snapshot
  BY DEF NoAnswers, Snapshot
<1>2. changes \in 0..MaxChanges
  BY NetworkAssumption DEF Init
<1> QED
  BY <1>1, <1>2, FirstPart DEF Init, IInv, TypeOK, SentInv

(* Each step of the swarm and of the handler keeps the invariant.          *)
LEMMA StepInv == IInv /\ [Next]_vars => IInv'
<1> SUFFICES ASSUME IInv, [Next]_vars PROVE IInv'
  OBVIOUS
<1>0. TypeOK /\ SentInv
  BY DEF IInv
<1>1. ASSUME NEW p \in Parts, NEW v \in Values, NetworkChanged(p, v) PROVE IInv'
  BY <1>0, <1>1, NetworkAssumption DEF NetworkChanged, IInv, TypeOK, SentInv
<1>2. ASSUME NEW p \in Parts, Query(p) PROVE IInv'
  <2>1. p \in Nat
    BY NetworkAssumption, FS_CardinalityType
  <2> QED
    BY <1>0, <1>2, <2>1 DEF Query, IInv, TypeOK, SentInv, Snapshot
<1>3. CASE Decide
  (* Without always_send an event goes out only when it differs from      *)
  (* previously_sent, which is the last one sent; it then becomes both.    *)
  <2>1. TypeOK'
    BY <1>0, <1>3 DEF Decide, EndOfRound, TypeOK
  <2>2. SentInv'
    BY <1>0, <1>3 DEF Decide, EndOfRound, TypeOK, SentInv
  <2> QED
    BY <2>1, <2>2 DEF IInv
<1>4. CASE SleepDone
  BY <1>0, <1>4, FirstPart DEF SleepDone, IInv, TypeOK, SentInv, Snapshot, NoAnswers
<1>5. CASE UNCHANGED vars
  BY <1>0, <1>5 DEF vars, IInv, TypeOK, SentInv
<1> QED
  BY <1>1, <1>2, <1>3, <1>4, <1>5 DEF Next, HandlerStep

(* Without always_send, the streamer never broadcasts the same network     *)
(* info twice in a row (NetworkEvent::handle compares with                 *)
(* previously_sent and then remembers what it sent), for every instance.  *)
THEOREM OnlyChanges == Spec => []BroadcastOnlyChanges
<1>1. IInv => BroadcastOnlyChanges
  BY DEF IInv, SentInv, BroadcastOnlyChanges
<1> QED
  BY InitInv, StepInv, <1>1, PTL DEF Spec

=============================================================================
