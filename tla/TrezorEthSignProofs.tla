------------------------ MODULE TrezorEthSignProofs ------------------------
(***************************************************************************)
(* Proofs about TrezorEthSign for every array width, every set of amounts, *)
(* data lengths, chain ids and recovery values.                            *)
(***************************************************************************)
EXTENDS TrezorEthSign, SequenceTheorems, TLAPS

(* While the data is acked, the host and the device agree on what is left *)
(* and the device's last request asks for the next chunk of it.            *)
AgreeInv ==
    pc = "chunks" => devLeft = left /\ request = TrezorMin(ChunkSize, devLeft)

(* TypeOK but for the trimmed nonce: that it is a byte string rests on     *)
(* 256^k being a positive integer for every k, a fact about exponentiation *)
(* the provers only get by induction.                                      *)
ChunkTypeOK ==
    /\ pc \in {"start", "chunks", "done", "failed"}
    /\ tx \in [nonce : Amounts, data : DataLengths, chain : ChainIds]
    /\ left \in Nat
    /\ devLeft \in Nat
    /\ request \in Nat
    /\ acks \in Seq([asked : Nat, sent : Nat])
    /\ sigV \in (0..255) \cup {-1}

IInv == ChunkTypeOK /\ AgreeInv /\ ChunksMatchRequests

-----------------------------------------------------------------------------
(* Data lengths, chain ids and recovery values are naturals.              *)
LEMMA ConstantsNat ==
    DataLengths \subseteq Nat /\ ChainIds \subseteq Nat /\ RecoveryVs \subseteq Nat
<1>1. DataLengths \subseteq Nat
  BY TrezorAssumption
<1>2. ChainIds \subseteq 0..(2^30 - 1) /\ RecoveryVs \subseteq 0..(2^30 - 1)
  BY TrezorAssumption
<1>3. \A b : 0..b \subseteq Nat
  OBVIOUS
<1> QED
  BY <1>1, <1>2, <1>3

(* The host starts with the whole call data and nothing acked.             *)
LEMMA InitInv == Init => IInv
<1> SUFFICES ASSUME Init PROVE IInv
  OBVIOUS
<1>1. left \in Nat /\ acks \in Seq([asked : Nat, sent : Nat]) /\ DOMAIN acks = {}
  BY ConstantsNat, EmptySeq DEF Init
<1> QED
  BY <1>1 DEF Init, IInv, ChunkTypeOK, AgreeInv, ChunksMatchRequests

(* Every message of the host and every answer of the device keeps the      *)
(* invariant.                                                               *)
LEMMA StepInv == IInv /\ [Next]_vars => IInv'
<1> SUFFICES ASSUME IInv, [Next]_vars PROVE IInv'
  OBVIOUS
<1>0. ChunkTypeOK /\ AgreeInv /\ ChunksMatchRequests
  BY DEF IInv
<1>1. CASE SendSignTx
  (* The device is told exactly what the host keeps after the first chunk. *)
  BY <1>0, <1>1 DEF SendSignTx, IInv, ChunkTypeOK, AgreeInv, ChunksMatchRequests,
       TrezorMin, ChunkSize
<1>2. CASE SendTxAck
  (* The chunk sent is the chunk asked for, and both sides take it off.    *)
  <2> DEFINE sent == TrezorMin(ChunkSize, left)
  <2>1. pc = "chunks" /\ devLeft = left /\ request = sent /\ sent \in Nat
    BY <1>0, <1>2 DEF SendTxAck, AgreeInv, ChunkTypeOK, TrezorMin, ChunkSize
  <2>2. acks' = Append(acks, [asked |-> request, sent |-> sent])
        /\ [asked |-> request, sent |-> sent] \in [asked : Nat, sent : Nat]
    BY <1>2, <2>1 DEF SendTxAck
  <2>3. acks' \in Seq([asked : Nat, sent : Nat])
        /\ \A k \in DOMAIN acks' : acks'[k].sent = acks'[k].asked
    <3>1. acks \in Seq([asked : Nat, sent : Nat])
      BY <1>0 DEF ChunkTypeOK
    <3>2. /\ acks' \in Seq([asked : Nat, sent : Nat])
          /\ Len(acks') = Len(acks) + 1
          /\ \A k \in 1..Len(acks) : acks'[k] = acks[k]
          /\ acks'[Len(acks) + 1] = [asked |-> request, sent |-> sent]
      BY <2>2, <3>1, AppendProperties
    <3>3. DOMAIN acks' = 1..(Len(acks) + 1) /\ DOMAIN acks = 1..Len(acks)
      BY <3>1, <3>2, LenProperties
    <3> QED
      BY <1>0, <2>1, <3>2, <3>3 DEF ChunksMatchRequests
  <2> QED
    BY <1>0, <1>2, <2>1, <2>3 DEF SendTxAck, IInv, ChunkTypeOK, AgreeInv, ChunksMatchRequests,
       TrezorMin, ChunkSize
<1>3. CASE TxAckFailed
  BY <1>0, <1>3 DEF TxAckFailed, IInv, ChunkTypeOK, AgreeInv, ChunksMatchRequests
<1>4. CASE ExtractSignature
  (* The device signs only when it wants no more data: none is left.       *)
  <2>1. devLeft = 0 /\ left = 0
    BY <1>0, <1>4 DEF ExtractSignature, AgreeInv, ChunkTypeOK, TrezorMin, ChunkSize
  <2>2. sigV' \in (0..255) \cup {-1}
    <3>1. CASE \E v \in RecoveryVs : sigV' = VFixed(v, tx.chain)
      <4>1. PICK v \in RecoveryVs : sigV' = VFixed(v, tx.chain)
        BY <3>1
      <4>2. v \in Nat /\ tx.chain \in Nat
        BY <1>0, ConstantsNat DEF ChunkTypeOK
      <4>3. VFixed(v, tx.chain) \in 0..255
        <5>1. (IF v <= 1 THEN v + 2 * tx.chain + 35 ELSE v) \in Int
          BY <4>2
        <5>2. \A x \in Int : x % 256 \in 0..255
          OBVIOUS
        <5> QED
          BY <5>1, <5>2, Zenon DEF VFixed
      <4> QED
        BY <4>1, <4>3
    <3>2. CASE UNCHANGED sigV
      BY <1>0, <3>2 DEF ChunkTypeOK
    <3> QED
      BY <1>4, <3>1, <3>2 DEF ExtractSignature
  <2> QED
    BY <1>0, <1>4, <2>1, <2>2 DEF ExtractSignature, IInv, ChunkTypeOK, AgreeInv,
       ChunksMatchRequests
<1>5. CASE UNCHANGED vars
  BY <1>0, <1>5 DEF vars, IInv, ChunkTypeOK, AgreeInv, ChunksMatchRequests
<1> QED
  BY <1>1, <1>2, <1>3, <1>4, <1>5 DEF Next

(* The ack loop of TrezorSession::sign_eth_tx sends every chunk the        *)
(* device asks for in full and reaches the signature with no byte left on *)
(* either side, for every call data length.                                *)
THEOREM ChunksCorrect == Spec => []ChunksMatchRequests
<1>1. IInv => ChunksMatchRequests
  BY DEF IInv
<1> QED
  BY InitInv, StepInv, <1>1, PTL DEF Spec

=============================================================================
