------------------------- MODULE MC_TrezorEthSign -------------------------
(* TrezorEthSign for TLC: 2-byte arrays stand for the 32-byte ones; the    *)
(* amounts cover zero, one byte, a zero low byte and a full two bytes;    *)
(* the data lengths cover none, under one chunk, exactly one, one over,  *)
(* and several chunks.                                                     *)
EXTENDS TrezorEthSign, TLC

MCAmounts == {0, 1, 255, 256, 258, 65535}
MCDataLengths == {0, 1, 1024, 1025, 2048, 2500}
MCChainIds == {1, 56, 137}
MCRecoveryVs == {0, 1, 37}
=============================================================================
