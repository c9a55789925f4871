------------------------------ MODULE Web3Pool ------------------------------
(***************************************************************************)
(* build_web3_instances of coins/eth/v2_activation.rs: the connection     *)
(* pool of an ETH platform coin.                                           *)
(*                                                                         *)
(* The configured nodes are shuffled, then handled one at a time in the   *)
(* shuffled order: the url is parsed and its scheme picks the transport   *)
(* (ws/wss spawns a temporary connection loop with a 20 s deadline,        *)
(* http/https builds an HttpTransport); an unparsable url or another       *)
(* scheme ends the whole build with InvalidPayload.  The transport is then *)
(* probed with client_version: a failure is logged and the node skipped,  *)
(* an answer keeps the node, tagged parity when the version contains       *)
(* "Parity" or "parity".  No kept node at the end is UnreachableNodes.     *)
(*                                                                         *)
(* A url is abstracted to its scheme and a version string to the vendor   *)
(* token the parity test looks for.                                       *)
(***************************************************************************)
EXTENDS Naturals, Sequences, FiniteSets, Functions

CONSTANTS
    Nodes,      \* configured EthNode entries
    Scheme,     \* node -> uri.scheme_str(), or "unparsable" when parse() fails
    Version,    \* node -> the vendor token in its client_version answer
    NodeLists   \* the req.nodes lists an activation request may carry

ASSUME NodeListsAssumption ==
    NodeLists \subseteq Seq(Nodes) /\ \A l \in NodeLists : IsInjective(l)

VARIABLES
    input,      \* req.nodes as given
    order,      \* eth_nodes after shuffle
    i,          \* index of the node the for loop is at
    pc,         \* "init", "parse", "probe" or "done"
    pool,       \* web3_instances: <<[node, parity]>> in push order
    connLoops,  \* nodes whose temporary ws connection loop was spawned
    answered,   \* nodes whose client_version probe answered (history)
    result      \* "none" while building, then Ok or the error

vars == <<input, order, i, pc, pool, connLoops, answered, result>>

Results == {"none", "Ok", "AtLeastOneNodeRequired", "InvalidPayload",
            "UnreachableNodes"}

(* The permutations shuffle may produce.                                   *)
Shuffles(l) == {[k \in 1..Len(l) |-> l[p[k]]] : p \in Bijection(1..Len(l), 1..Len(l))}

(* version.contains("Parity") || version.contains("parity")              *)
IsParity(v) == v \in {"Parity", "parity"}

Instance == [node : Nodes, parity : BOOLEAN]

TypeOK ==
    /\ input \in NodeLists
    /\ order \in Seq(Nodes)
    /\ i \in 1..(Len(order) + 1)
    /\ pc \in {"init", "parse", "probe", "done"}
    /\ pool \in Seq(Instance)
    /\ connLoops \subseteq Nodes
    /\ answered \subseteq Nodes
    /\ result \in Results

Init ==
    /\ input \in NodeLists
    /\ order = <<>>
    /\ i = 1
    /\ pc = "init"
    /\ pool = <<>>
    /\ connLoops = {}
    /\ answered = {}
    /\ result = "none"

-----------------------------------------------------------------------------
(* eth_nodes.is_empty() check, then shuffle(&mut rng).                     *)
StartBuild ==
    /\ pc = "init"
    /\ IF input = <<>>
         THEN /\ pc' = "done" /\ result' = "AtLeastOneNodeRequired"
              /\ UNCHANGED order
         ELSE /\ order' \in Shuffles(input)
              /\ pc' = "parse"
              /\ UNCHANGED result
    /\ UNCHANGED <<input, i, pool, connLoops, answered>>

(* Mutant: every scheme that is not ws/wss is taken for http.              *)
ResolveTransportAnyScheme ==
    /\ pc = "parse"
    /\ i <= Len(order)
    /\ LET n == order[i] IN
         /\ connLoops' = IF Scheme[n] \in {"ws", "wss"} THEN connLoops \cup {n} ELSE connLoops
         /\ pc' = "probe"
         /\ UNCHANGED result
    /\ UNCHANGED <<input, order, i, pool, answered>>

(* One iteration's uri parse and scheme match.                             *)
ResolveTransport ==
    /\ pc = "parse"
    /\ i <= Len(order)
    /\ LET n == order[i] IN
         CASE Scheme[n] \in {"ws", "wss"} ->
                /\ connLoops' = connLoops \cup {n}
                /\ pc' = "probe"
                /\ UNCHANGED result
           [] Scheme[n] \in {"http", "https"} ->
                /\ pc' = "probe"
                /\ UNCHANGED <<connLoops, result>>
           [] OTHER ->
                /\ pc' = "done"
                /\ result' = "InvalidPayload"
                /\ UNCHANGED connLoops
    /\ UNCHANGED <<input, order, i, pool, answered>>

(* Mutant: a failed probe does not skip the node (no continue).          *)
ProbeFailedKeepsNode ==
    /\ pc = "probe"
    /\ pool' = Append(pool, [node |-> order[i], parity |-> FALSE])
    /\ i' = i + 1
    /\ pc' = "parse"
    /\ UNCHANGED <<input, order, connLoops, answered, result>>

(* client_version() failed: error! and continue.                           *)
ProbeFailed ==
    /\ pc = "probe"
    /\ i' = i + 1
    /\ pc' = "parse"
    /\ UNCHANGED <<input, order, pool, connLoops, answered, result>>

(* client_version() answered: push the instance with its parity tag.       *)
ProbeAnswered ==
    /\ pc = "probe"
    /\ pool' = Append(pool, [node |-> order[i], parity |-> IsParity(Version[order[i]])])
    /\ answered' = answered \cup {order[i]}
    /\ i' = i + 1
    /\ pc' = "parse"
    /\ UNCHANGED <<input, order, connLoops, result>>

(* After the loop: web3_instances.is_empty() is UnreachableNodes.          *)
FinishBuild ==
    /\ pc = "parse"
    /\ i > Len(order)
    /\ pc' = "done"
    /\ result' = IF pool = <<>> THEN "UnreachableNodes" ELSE "Ok"
    /\ UNCHANGED <<input, order, i, pool, connLoops, answered>>

Next ==
    \/ StartBuild
    \/ ResolveTransport
    \/ ProbeFailed
    \/ ProbeAnswered
    \/ FinishBuild

Spec == Init /\ [][Next]_vars

(* The build is a sequence of awaits the caller drives to its end.         *)
FairSpec == Spec /\ WF_vars(Next)

-----------------------------------------------------------------------------
(* Properties.                                                             *)

(* What spec 4.1 and 8 say the build returns for the input and the probe  *)
(* outcomes: the first error of the contract, else the probe-passing      *)
(* nodes in shuffled order.                                                *)
ExpectedResult ==
    IF input = <<>> THEN "AtLeastOneNodeRequired"
    ELSE IF \E k \in 1..Len(input) :
                Scheme[input[k]] \notin {"http", "https", "ws", "wss"}
         THEN "InvalidPayload"
    ELSE IF answered = {} THEN "UnreachableNodes"
    ELSE "Ok"

(* build_web3_instances ends with the reference outcome whatever the      *)
(* shuffle and the probe outcomes: an error exactly when the contract     *)
(* says, and on success after a loop over a permutation of the input.     *)
OutcomeAsSpecified ==
    pc = "done" =>
        /\ result = ExpectedResult
        /\ result = "Ok" => Range(order) = Range(input)

(* The positions of the shuffled order whose node answered its probe.     *)
AnsweredAt == {k \in 1..Len(order) : order[k] \in answered}

(* At every point of the build the pool holds each node whose probe       *)
(* answered once, in the shuffled order, and nothing else: pool entry j   *)
(* is the node at position idx[j] of the order, idx increases, and it     *)
(* hits every answered position (this is SelectSeq(order, answered),      *)
(* written out).  On success it is exactly the probe-passing input nodes  *)
(* in that order.                                                         *)
PoolInShuffledOrder ==
    \E idx \in [1..Len(pool) -> 1..Len(order)] :
        /\ \A j, k \in 1..Len(pool) : j < k => idx[j] < idx[k]
        /\ \A j \in 1..Len(pool) : pool[j].node = order[idx[j]]
        /\ {idx[j] : j \in 1..Len(pool)} = AnsweredAt

=============================================================================
