---------------------------- MODULE TrezorEthSign ----------------------------
(***************************************************************************)
(* TrezorSession::sign_eth_tx of trezor/src/eth/eth_command.rs.           *)
(*                                                                         *)
(* to_sign_eth_message writes nonce, gas price, gas limit and value as    *)
(* 32-byte big-endian arrays trimmed by my_trim_u8, moves the first        *)
(* min(1024, len) bytes of the call data into data_initial_chunk and sets *)
(* data_length to what is left (None when nothing is).  The host then      *)
(* sends EthereumSignTx and, while the device's EthereumTxRequest carries *)
(* data_length > 0, sends an EthereumTxAck with the next min(1024, left)  *)
(* bytes.  The last request must carry r, s and v; v <= 1 is turned into *)
(* v + 2 * chain_id + 35 and truncated to u8.  Every call may fail.         *)
(*                                                                         *)
(* The device is the environment: it asks for the data it was told is     *)
(* still to come, 1024 bytes at a time, then signs or answers without a   *)
(* signature.  Call data is abstracted to its length.                      *)
(***************************************************************************)
EXTENDS Naturals, Sequences, SequencesExt, FiniteSets

CONSTANTS
    Width,        \* bytes of the big-endian arrays (32 in the code)
    Amounts,      \* values of the nonce, gas and value fields
    DataLengths,  \* lengths of unsigned_tx.data
    ChainIds,     \* chain_id arguments
    RecoveryVs    \* signature_v values a device may answer with

ASSUME TrezorAssumption ==
    /\ Width \in Nat \ {0}
    /\ Amounts \subseteq 0..(256^Width - 1)
    /\ DataLengths \subseteq Nat
    /\ ChainIds \subseteq 0..(2^30 - 1)
    /\ RecoveryVs \subseteq 0..(2^30 - 1)

ChunkSize == 1024

TrezorMin(a, b) == IF a <= b THEN a ELSE b

(* U256::to_big_endian into a Width-byte array.                             *)
ToBigEndian(n) == [k \in 1..Width |-> (n \div 256^(Width - k)) % 256]

(* The integer a big-endian byte string stands for.                        *)
FromBigEndian(arr) == FoldLeft(LAMBDA acc, b : acc * 256 + b, 0, arr)

(* my_trim_u8: z counts every zero byte of arr, and arr[z..] is returned.  *)
MyTrimU8(arr) ==
    LET z == Cardinality({k \in DOMAIN arr : arr[k] = 0}) IN SubSeq(arr, z + 1, Len(arr))

(* let v_fixed = if v <= 1 { v + 2 * (chain_id as u32) + 35 } else { v };  *)
(* then v_fixed as u8.  The chain ids are below 2^30, where neither the   *)
(* cast to u32 nor the u32 sum wraps; the cast to u8 does.                 *)
VFixed(v, chainId) ==
    (IF v <= 1 THEN v + 2 * chainId + 35 ELSE v) % 256

VARIABLES
    pc,        \* "start", "chunks", "done" or "failed"
    tx,        \* the unsigned transaction's fields that are encoded
    left,      \* data.len() on the host after each splice
    devLeft,   \* bytes the device still expects
    request,   \* data_length of the last EthereumTxRequest, 0 for None
    acks,      \* EthereumTxAck messages: [asked, sent] (history)
    encoded,   \* the trimmed nonce sent in EthereumSignTx
    sigV       \* the v handed to Signature::from_rsv, or -1

vars == <<pc, tx, left, devLeft, request, acks, encoded, sigV>>

TypeOK ==
    /\ pc \in {"start", "chunks", "done", "failed"}
    /\ tx \in [nonce : Amounts, data : DataLengths, chain : ChainIds]
    /\ left \in Nat
    /\ devLeft \in Nat
    /\ request \in Nat
    /\ acks \in Seq([asked : Nat, sent : Nat])
    /\ encoded \in Seq(0..255)
    /\ sigV \in (0..255) \cup {-1}

Init ==
    /\ pc = "start"
    /\ tx \in [nonce : Amounts, data : DataLengths, chain : ChainIds]
    /\ left = tx.data
    /\ devLeft = 0
    /\ request = 0
    /\ acks = <<>>
    /\ encoded = <<>>
    /\ sigV = -1

-----------------------------------------------------------------------------
(* to_sign_eth_message and send_sign_eth_tx(req).await?.ack_all().await?:  *)
(* the device takes the initial chunk, is told data_length and answers     *)
(* with its first request, or the call fails.                              *)
SendSignTx ==
    /\ pc = "start"
    /\ LET rest == left - TrezorMin(ChunkSize, left) IN
         /\ left' = rest
         /\ encoded' = MyTrimU8(ToBigEndian(tx.nonce))
         /\ \/ /\ devLeft' = rest
               /\ request' = TrezorMin(ChunkSize, rest)
               /\ pc' = "chunks"
            \/ /\ pc' = "failed"
               /\ UNCHANGED <<devLeft, request>>
    /\ UNCHANGED <<tx, acks, sigV>>

(* Mutant: the ack's chunk is cut at 1023 bytes.                           *)
SendTxAckShort ==
    /\ pc = "chunks"
    /\ request > 0
    /\ LET sent == TrezorMin(ChunkSize - 1, left) IN
         /\ left' = left - sent
         /\ acks' = Append(acks, [asked |-> request, sent |-> sent])
         /\ devLeft' = devLeft - TrezorMin(sent, devLeft)
         /\ request' = TrezorMin(ChunkSize, devLeft')
    /\ UNCHANGED <<pc, tx, encoded, sigV>>

(* while let Some(data_length) with data_length > 0: send the next chunk  *)
(* of min(1024, data.len()) bytes; the device answers with what it still  *)
(* wants.                                                                  *)
SendTxAck ==
    /\ pc = "chunks"
    /\ request > 0
    /\ LET sent == TrezorMin(ChunkSize, left) IN
         /\ left' = left - sent
         /\ acks' = Append(acks, [asked |-> request, sent |-> sent])
         /\ devLeft' = devLeft - TrezorMin(sent, devLeft)
         /\ request' = TrezorMin(ChunkSize, devLeft')
    /\ UNCHANGED <<pc, tx, encoded, sigV>>

(* send_eth_tx_ack(req).await? failed.                                     *)
TxAckFailed ==
    /\ pc = "chunks"
    /\ request > 0
    /\ pc' = "failed"
    /\ UNCHANGED <<tx, left, devLeft, request, acks, encoded, sigV>>

(* No data wanted: extract_eth_signature.  With r, s and v the signature  *)
(* is built from v_fixed; without them the result is InvalidSignature.   *)
ExtractSignature ==
    /\ pc = "chunks"
    /\ request = 0
    /\ \/ \E v \in RecoveryVs :
            /\ sigV' = VFixed(v, tx.chain)
            /\ pc' = "done"
       \/ /\ pc' = "failed"
          /\ UNCHANGED sigV
    /\ UNCHANGED <<tx, left, devLeft, request, acks, encoded>>

Next ==
    \/ SendSignTx
    \/ SendTxAck
    \/ TxAckFailed
    \/ ExtractSignature

Spec == Init /\ [][Next]_vars

-----------------------------------------------------------------------------
(* Properties.                                                             *)

(* The chunked transfer hands the device the whole call data and nothing  *)
(* else: every ack carries exactly the bytes the device asked for, and    *)
(* when signing starts no byte is left on either side.                     *)
ChunksMatchRequests ==
    /\ \A k \in DOMAIN acks : acks[k].sent = acks[k].asked
    /\ pc = "done" => left = 0 /\ devLeft = 0

(* The nonce is sent as its minimal big-endian encoding: the trimmed      *)
(* bytes still stand for the nonce of the transaction.                    *)
TrimPreservesValue ==
    pc # "start" => FromBigEndian(encoded) = tx.nonce

=============================================================================
