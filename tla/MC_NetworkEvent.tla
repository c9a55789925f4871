-------------------------- MODULE MC_NetworkEvent --------------------------
(* NetworkEvent for TLC: two queries stand for the five, the second one    *)
(* being the first of the four whose change the first does not show.      *)
EXTENDS NetworkEvent, TLC

CONSTANTS v1, v2, none

MCParts == 1..2
MCValues == {v1, v2}
=============================================================================
