---------------------------- MODULE NetworkEvent ----------------------------
(***************************************************************************)
(* The network streamer of mm2_net/src/network_event.rs                    *)
(* (NetworkEvent::handle).                                                 *)
(*                                                                         *)
(* Each round reads the p2p state with five separate queries, one await   *)
(* each (peers info, gossip mesh, gossip peer topics, gossip topic peers, *)
(* relay mesh), puts the answers together, broadcasts them if they differ *)
(* from previously_sent or always_send is set, remembers what it sent and *)
(* sleeps stream_interval_seconds.  The p2p state changes between the     *)
(* queries as peers come and go.                                           *)
(*                                                                         *)
(* A query's answer is abstracted to a member of Values.                   *)
(***************************************************************************)
EXTENDS Naturals, FiniteSets

CONSTANTS
    Parts,       \* the queries, 1..N in the order handle awaits them
    Values,      \* what one query may answer
    MaxChanges,  \* bound: changes of the p2p state
    None

ASSUME NetworkAssumption ==
    /\ Parts # {} /\ IsFiniteSet(Parts) /\ Parts = 1..Cardinality(Parts)
    /\ Values # {}
    /\ None \notin Values
    /\ MaxChanges \in Nat

VARIABLES
    net,         \* the p2p state each query reads
    changes,     \* changes of the p2p state so far
    alwaysSend,  \* config.always_send
    pc,          \* "query", "decide" or "sleep"
    k,           \* the query awaited next
    snap,        \* the answers of this round (None for a query not yet made)
    previous,    \* previously_sent; all None stands for the initial json!({})
    lastSent,    \* the last event broadcast, NoAnswers before any (history)
    repeated     \* an event equal to the one before it was broadcast (history)

vars == <<net, changes, alwaysSend, pc, k, snap, previous, lastSent, repeated>>

Snapshot == [Parts -> Values \cup {None}]

TypeOK ==
    /\ net \in [Parts -> Values]
    /\ changes \in 0..MaxChanges
    /\ alwaysSend \in BOOLEAN
    /\ pc \in {"query", "decide", "sleep"}
    /\ k \in Parts
    /\ snap \in Snapshot
    /\ previous \in Snapshot
    /\ lastSent \in Snapshot
    /\ repeated \in BOOLEAN

NoAnswers == [p \in Parts |-> None]

Init ==
    /\ net \in [Parts -> Values]
    /\ changes = 0
    /\ alwaysSend \in BOOLEAN
    /\ pc = "query"
    /\ k = 1
    /\ snap = NoAnswers
    /\ previous = NoAnswers
    /\ lastSent = NoAnswers
    /\ repeated = FALSE

(* The swarm: one part of the p2p state changes.                           *)
NetworkChanged(p, v) ==
    /\ changes < MaxChanges
    /\ net[p] # v
    /\ net' = [net EXCEPT ![p] = v]
    /\ changes' = changes + 1
    /\ UNCHANGED <<alwaysSend, pc, k, snap, previous, lastSent, repeated>>

(* One of the five get_* queries answers with the state as it is now.      *)
Query(p) ==
    /\ pc = "query"
    /\ k = p
    /\ snap' = [snap EXCEPT ![p] = net[p]]
    /\ IF p + 1 \in Parts THEN k' = p + 1 /\ UNCHANGED pc
                          ELSE pc' = "decide" /\ UNCHANGED k
    /\ UNCHANGED <<net, changes, alwaysSend, previous, lastSent, repeated>>

(* The end of a round: when differs holds (or always_send), the event is  *)
(* broadcast and, when remember holds, kept as previously_sent.            *)
EndOfRound(differs, remember) ==
    /\ pc = "decide"
    /\ IF differs \/ alwaysSend
         THEN /\ repeated' = (repeated \/ lastSent = snap)
              /\ lastSent' = snap
              /\ previous' = IF remember THEN snap ELSE previous
         ELSE UNCHANGED <<previous, lastSent, repeated>>
    /\ pc' = "sleep"
    /\ UNCHANGED <<net, changes, alwaysSend, k, snap>>

(* Mutant: only the first query's answer is compared with what was sent.   *)
DecideFirstPartOnly == EndOfRound(previous[1] # snap[1], TRUE)

(* Mutant: previously_sent is not updated after a broadcast.              *)
DecideForgets == EndOfRound(previous # snap, FALSE)

(* if previously_sent != event_data || always_send: broadcast and remember. *)
Decide == EndOfRound(previous # snap, TRUE)

(* Timer::sleep(stream_interval_seconds): the next round.                  *)
SleepDone ==
    /\ pc = "sleep"
    /\ pc' = "query"
    /\ k' = 1
    /\ snap' = NoAnswers
    /\ UNCHANGED <<net, changes, alwaysSend, previous, lastSent, repeated>>

HandlerStep == (\E p \in Parts : Query(p)) \/ Decide \/ SleepDone

Next ==
    \/ \E p \in Parts, v \in Values : NetworkChanged(p, v)
    \/ HandlerStep

Spec == Init /\ [][Next]_vars

(* The p2p command loop answers every query and the timer fires: the      *)
(* streamer's own steps are weakly fair; the swarm is not.                *)
FairSpec == Spec /\ WF_vars(HandlerStep)

-----------------------------------------------------------------------------
(* Properties.                                                             *)

(* Without always_send, subscribers never get the same network info twice *)
(* in a row: previously_sent is what was last broadcast.                  *)
BroadcastOnlyChanges == ~alwaysSend => ~repeated

(* Once the p2p state stops changing, the last broadcast is that state     *)
(* from then on: a change of any of the five parts reaches subscribers.   *)
FinalStateBroadcast == <>[](lastSent = net)

=============================================================================
