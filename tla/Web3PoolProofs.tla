--------------------------- MODULE Web3PoolProofs ---------------------------
(***************************************************************************)
(* Proofs about Web3Pool for every set of nodes, schemes and versions and  *)
(* every set of node lists.                                                *)
(***************************************************************************)
EXTENDS Web3Pool, SequenceTheorems, TLAPS

(* The schemes build_web3_instances has a transport for.                   *)
KnownSchemes == {"http", "https", "ws", "wss"}

(* While the loop runs it goes over a permutation of the non-empty input, *)
(* every node it passed has a known scheme, a node waiting for its probe   *)
(* has one too, and the pool is empty exactly when no probe answered.      *)
LoopInv ==
    /\ pc = "init" => order = <<>> /\ pool = <<>> /\ answered = {} /\ result = "none"
    /\ pc \in {"parse", "probe"} =>
          /\ input # <<>>
          /\ Range(order) = Range(input)
          /\ result = "none"
          /\ \A k \in 1..(i - 1) : Scheme[order[k]] \in KnownSchemes
          /\ (pool = <<>> <=> answered = {})
    /\ pc = "probe" => i <= Len(order) /\ Scheme[order[i]] \in KnownSchemes

OInv == TypeOK /\ LoopInv /\ OutcomeAsSpecified

(* The shuffled order has no node twice, and every answered position is   *)
(* one the loop has passed.                                                *)
OrderInv == IsInjective(order) /\ \A k \in AnsweredAt : k < i

IInv == OInv /\ OrderInv /\ PoolInShuffledOrder

-----------------------------------------------------------------------------
(* The lists an activation request may carry are sequences of nodes.       *)
LEMMA InputSeq == NodeLists \subseteq Seq(Nodes)
BY NodeListsAssumption

(* shuffle permutes the list: the same length and the same nodes.          *)
LEMMA ShuffleRange ==
    ASSUME NEW l \in Seq(Nodes), NEW o \in Shuffles(l)
    PROVE  /\ o \in Seq(Nodes)
           /\ Len(o) = Len(l)
           /\ Range(o) = Range(l)
           /\ IsInjective(l) => IsInjective(o)
<1> DEFINE n == Len(l)
<1>1. n \in Nat /\ DOMAIN l = 1..n
  BY LenProperties
<1>2. PICK p \in Bijection(1..n, 1..n) : o = [k \in 1..n |-> l[p[k]]]
  BY DEF Shuffles
<1>3. p \in [1..n -> 1..n] /\ \A j \in 1..n : \E k \in 1..n : p[k] = j
  BY <1>2 DEF Bijection, Injection, Surjection
<1>4. o \in [1..n -> Nodes]
  BY <1>1, <1>2, <1>3
<1>5. o \in Seq(Nodes) /\ Len(o) = n
  BY <1>1, <1>4, SeqDef, LenProperties
<1>6. Range(o) = Range(l)
  <2>1. Range(o) \subseteq Range(l)
    BY <1>1, <1>2, <1>3 DEF Range
  <2>2. Range(l) \subseteq Range(o)
    <3> SUFFICES ASSUME NEW j \in 1..n PROVE l[j] \in Range(o)
      BY <1>1 DEF Range
    <3>1. PICK k \in 1..n : p[k] = j
      BY <1>3
    <3> QED
      BY <1>2, <3>1 DEF Range
  <2> QED
    BY <2>1, <2>2
<1>7. IsInjective(l) => IsInjective(o)
  <2> SUFFICES ASSUME IsInjective(l), NEW a \in 1..n, NEW b \in 1..n, o[a] = o[b]
               PROVE  a = b
    BY <1>4 DEF IsInjective
  <2>1. IsInjective(p)
    BY <1>2 DEF Bijection, Injection
  <2>2. l[p[a]] = l[p[b]] /\ p[a] \in DOMAIN l /\ p[b] \in DOMAIN l
    BY <1>1, <1>2, <1>3
  <2>3. p[a] = p[b]
    BY <2>2 DEF IsInjective
  <2> QED
    BY <1>3, <2>1, <2>3 DEF IsInjective
<1> QED
  BY <1>5, <1>6, <1>7

(* The build starts with no order, no pool and no probe made.              *)
LEMMA OutcomeInit == Init => OInv
<1> SUFFICES ASSUME Init PROVE OInv
  OBVIOUS
<1>1. input \in NodeLists /\ <<>> \in Seq(Nodes) /\ <<>> \in Seq(Instance) /\ Len(<<>>) = 0
  BY EmptySeq DEF Init
<1> QED
  BY <1>1 DEF Init, OInv, TypeOK, Results, LoopInv, OutcomeAsSpecified

(* Every step of the build keeps the invariant.                            *)
LEMMA OutcomeStep == OInv /\ [Next]_vars => OInv'
<1> SUFFICES ASSUME OInv, [Next]_vars PROVE OInv'
  OBVIOUS
<1>0. /\ TypeOK /\ LoopInv /\ OutcomeAsSpecified
      /\ input \in Seq(Nodes) /\ DOMAIN input = 1..Len(input)
      /\ order \in Seq(Nodes) /\ DOMAIN order = 1..Len(order)
  <2>1. TypeOK /\ LoopInv /\ OutcomeAsSpecified
    BY DEF OInv
  <2>2. input \in Seq(Nodes) /\ order \in Seq(Nodes)
    BY <2>1, InputSeq DEF TypeOK
  <2> QED
    BY <2>1, <2>2, LenProperties
<1>1. CASE StartBuild
  <2>1. CASE input = <<>>
    (* An empty req.nodes is AtLeastOneNodeRequired.                        *)
    BY <1>0, <1>1, <2>1 DEF StartBuild, OInv, TypeOK, Results, LoopInv,
       OutcomeAsSpecified, ExpectedResult
  <2>2. CASE input # <<>>
    (* The loop starts over a permutation of the input.                    *)
    <3>1. /\ order' \in Seq(Nodes) /\ Len(order') = Len(input)
          /\ Range(order') = Range(input)
      BY <1>0, <1>1, <2>2, ShuffleRange DEF StartBuild
    <3>2. i = 1 /\ pool = <<>> /\ answered = {} /\ result = "none"
      BY <1>0, <1>1 DEF StartBuild, LoopInv, TypeOK
    <3> QED
      BY <1>0, <1>1, <2>2, <3>1, <3>2, LenProperties DEF StartBuild, OInv, TypeOK,
         LoopInv, OutcomeAsSpecified
  <2> QED
    BY <2>1, <2>2
<1>2. CASE ResolveTransport
  <2> DEFINE n == order[i]
  <2>0. pc = "parse" /\ i \in 1..Len(order) /\ n \in Nodes
    BY <1>0, <1>2 DEF ResolveTransport, TypeOK
  <2>1. CASE Scheme[n] \in KnownSchemes
    (* A known scheme moves on to the probe.                               *)
    <3>1. pc' = "probe" /\ UNCHANGED <<result, input, order, i, pool, answered>>
          /\ connLoops' \subseteq Nodes
      BY <1>0, <1>2, <2>0, <2>1 DEF ResolveTransport, KnownSchemes, TypeOK
    <3> QED
      BY <1>0, <2>0, <2>1, <3>1 DEF OInv, TypeOK, LoopInv, OutcomeAsSpecified
  <2>2. CASE Scheme[n] \notin KnownSchemes
    (* An unknown scheme is a node of the input with one: InvalidPayload.  *)
    <3>1. pc' = "done" /\ result' = "InvalidPayload"
          /\ UNCHANGED <<input, order, i, pool, connLoops, answered>>
      BY <1>2, <2>2 DEF ResolveTransport, KnownSchemes
    <3>2. \E k \in 1..Len(input) : Scheme[input[k]] \notin KnownSchemes
      <4>1. n \in Range(input)
        BY <1>0, <2>0 DEF LoopInv, Range
      <4> QED
        BY <1>0, <2>2, <4>1 DEF Range
    <3>3. input # <<>>
      BY <1>0, <2>0 DEF LoopInv
    <3>4. ExpectedResult' = "InvalidPayload"
      BY <3>1, <3>2, <3>3 DEF ExpectedResult, KnownSchemes
    <3> QED
      BY <1>0, <3>1, <3>4 DEF OInv, TypeOK, Results, LoopInv, OutcomeAsSpecified
  <2> QED
    BY <2>1, <2>2
<1>3. CASE ProbeFailed
  (* A skipped node was one with a known scheme.                           *)
  <2>1. pc = "probe" /\ i \in 1..Len(order) /\ Scheme[order[i]] \in KnownSchemes
    BY <1>0, <1>3 DEF ProbeFailed, LoopInv, TypeOK
  <2> QED
    BY <1>0, <1>3, <2>1 DEF ProbeFailed, OInv, TypeOK, LoopInv, OutcomeAsSpecified
<1>4. CASE ProbeAnswered
  (* The pushed node is answered, so pool and answered are both non-empty. *)
  <2> DEFINE inst == [node |-> order[i], parity |-> IsParity(Version[order[i]])]
  <2>1. pc = "probe" /\ i \in 1..Len(order) /\ Scheme[order[i]] \in KnownSchemes
        /\ order[i] \in Nodes
    BY <1>0, <1>4 DEF ProbeAnswered, LoopInv, TypeOK
  <2>2. inst \in Instance
    BY <2>1 DEF Instance, IsParity
  <2>3. pool' \in Seq(Instance) /\ pool' # <<>> /\ answered' # {}
    <3>1. pool' = Append(pool, inst) /\ answered' = answered \cup {order[i]}
      BY <1>4 DEF ProbeAnswered
    <3>2. pool \in Seq(Instance)
      BY <1>0 DEF TypeOK
    <3> QED
      BY <2>2, <3>1, <3>2, AppendProperties
  <2> QED
    BY <1>0, <1>4, <2>1, <2>3 DEF ProbeAnswered, OInv, TypeOK, LoopInv,
       OutcomeAsSpecified
<1>5. CASE FinishBuild
  (* The loop passed every node: none has an unknown scheme.               *)
  <2>1. pc = "parse" /\ i = Len(order) + 1
    BY <1>0, <1>5 DEF FinishBuild, TypeOK
  <2>2. \A k \in 1..Len(input) : Scheme[input[k]] \in KnownSchemes
    <3>1. \A x \in Range(order) : Scheme[x] \in KnownSchemes
      BY <1>0, <2>1 DEF LoopInv, Range
    <3> QED
      BY <1>0, <2>1, <3>1 DEF LoopInv, Range
  <2>3. input # <<>> /\ (pool = <<>> <=> answered = {})
        /\ Range(order) = Range(input)
    BY <1>0, <2>1 DEF LoopInv
  <2>4. result' = ExpectedResult'
    BY <1>5, <2>2, <2>3 DEF FinishBuild, ExpectedResult, KnownSchemes
  <2> QED
    BY <1>0, <1>5, <2>3, <2>4 DEF FinishBuild, OInv, TypeOK, Results, LoopInv,
       OutcomeAsSpecified
<1>6. CASE UNCHANGED vars
  BY <1>0, <1>6 DEF vars, OInv, TypeOK, LoopInv, OutcomeAsSpecified, ExpectedResult
<1> QED
  BY <1>1, <1>2, <1>3, <1>4, <1>5, <1>6 DEF Next

(* build_web3_instances returns AtLeastOneNodeRequired, InvalidPayload,    *)
(* UnreachableNodes or Ok exactly as the contract says, and succeeds only *)
(* after a loop over a permutation of req.nodes, for every node list,     *)
(* scheme, shuffle and probe outcome.                                      *)
THEOREM OutcomeCorrect == Spec => []OutcomeAsSpecified
<1>1. OInv => OutcomeAsSpecified
  BY DEF OInv
<1> QED
  BY OutcomeInit, OutcomeStep, <1>1, PTL DEF Spec

-----------------------------------------------------------------------------
(* A step that leaves the pool, the order and the answered nodes alone     *)
(* keeps the pool in shuffled order.                                       *)
LEMMA PoolFrame ==
    ASSUME PoolInShuffledOrder, UNCHANGED <<pool, order, answered>>
    PROVE  PoolInShuffledOrder'
BY DEF PoolInShuffledOrder, AnsweredAt

(* Before the shuffle nothing is ordered, pooled or answered.              *)
LEMMA PoolInit == Init => IInv
<1> SUFFICES ASSUME Init PROVE IInv
  OBVIOUS
<1>1. AnsweredAt = {} /\ Len(pool) = 0 /\ IsInjective(order)
  BY EmptySeq DEF Init, AnsweredAt, IsInjective
<1>2. PoolInShuffledOrder
  <2> DEFINE idx == [j \in 1..0 |-> 1]
  <2>1. 1..Len(pool) = {}
    BY <1>1
  <2>2. /\ idx \in [1..Len(pool) -> 1..Len(order)]
        /\ \A j, k \in 1..Len(pool) : j < k => idx[j] < idx[k]
        /\ \A j \in 1..Len(pool) : pool[j].node = order[idx[j]]
        /\ {idx[j] : j \in 1..Len(pool)} = AnsweredAt
    BY <1>1, <2>1
  <2> QED
    BY <2>2 DEF PoolInShuffledOrder
<1> QED
  BY <1>1, <1>2, OutcomeInit DEF IInv, OrderInv

(* Every step of the build keeps the pool in shuffled order.              *)
LEMMA PoolStep == IInv /\ [Next]_vars => IInv'
<1> SUFFICES ASSUME IInv, [Next]_vars PROVE IInv'
  OBVIOUS
<1>0. /\ OInv /\ OrderInv /\ PoolInShuffledOrder /\ OInv'
      /\ order \in Seq(Nodes) /\ DOMAIN order = 1..Len(order)
      /\ pool \in Seq(Instance) /\ i \in 1..(Len(order) + 1)
  <2>1. OInv /\ OrderInv /\ PoolInShuffledOrder
    BY DEF IInv
  <2>2. OInv'
    BY <2>1, OutcomeStep
  <2> QED
    BY <2>1, <2>2, LenProperties DEF OInv, TypeOK
<1>1. CASE StartBuild
  (* The shuffle happens before any probe: nothing answered yet.           *)
  <2>1. UNCHANGED <<pool, answered, i>> /\ pool = <<>> /\ answered = {}
    BY <1>0, <1>1 DEF StartBuild, OInv, LoopInv, TypeOK
  <2>2. IsInjective(order')
    <3>1. CASE input = <<>>
      BY <1>0, <1>1, <3>1 DEF StartBuild, OrderInv
    <3>2. CASE input # <<>>
      <4>1. input \in Seq(Nodes) /\ IsInjective(input) /\ order' \in Shuffles(input)
        BY <1>0, <1>1, <3>2, NodeListsAssumption DEF StartBuild, OInv, TypeOK
      <4> QED
        BY <4>1, ShuffleRange
    <3> QED
      BY <3>1, <3>2
  <2>3. AnsweredAt' = {} /\ Len(pool') = 0
    BY <2>1, EmptySeq DEF AnsweredAt
  <2>4. PoolInShuffledOrder'
    <3> DEFINE idx == [j \in 1..0 |-> 1]
    <3>1. 1..Len(pool') = {}
      BY <2>3
    <3>2. /\ idx \in [1..Len(pool') -> 1..Len(order')]
          /\ \A j, k \in 1..Len(pool') : j < k => idx[j] < idx[k]
          /\ \A j \in 1..Len(pool') : pool'[j].node = order'[idx[j]]
          /\ {idx[j] : j \in 1..Len(pool')} = AnsweredAt'
      BY <2>3, <3>1
    <3> QED
      BY <3>2 DEF PoolInShuffledOrder
  <2> QED
    BY <1>0, <2>1, <2>2, <2>3, <2>4 DEF IInv, OrderInv
<1>2. CASE ResolveTransport \/ FinishBuild \/ UNCHANGED vars
  <2>1. UNCHANGED <<pool, order, answered, i>>
    BY <1>2 DEF ResolveTransport, FinishBuild, vars
  <2> QED
    BY <1>0, <2>1, PoolFrame DEF IInv, OrderInv, AnsweredAt
<1>3. CASE ProbeFailed
  (* The skipped node was not answered; the loop moves past it.            *)
  <2>1. UNCHANGED <<pool, order, answered>> /\ i' = i + 1
    BY <1>3 DEF ProbeFailed
  <2> QED
    BY <1>0, <2>1, PoolFrame DEF IInv, OrderInv, AnsweredAt
<1>4. CASE ProbeAnswered
  (* The answered node is new, at position i, after every earlier one.     *)
  <2> DEFINE n == Len(pool)
             x == order[i]
             inst == [node |-> x, parity |-> IsParity(Version[x])]
  <2>0. /\ pc = "probe" /\ i \in 1..Len(order) /\ x \in Nodes /\ n \in Nat
        /\ pool' = Append(pool, inst) /\ answered' = answered \cup {x}
        /\ UNCHANGED order /\ i' = i + 1
    BY <1>0, <1>4, LenProperties DEF ProbeAnswered, OInv, LoopInv
  <2>1. x \notin answered
    BY <1>0, <2>0 DEF OrderInv, AnsweredAt
  <2>2. AnsweredAt' = AnsweredAt \cup {i}
    BY <1>0, <2>0 DEF AnsweredAt, OrderInv, IsInjective
  <2>3. inst \in Instance
    BY <2>0 DEF Instance, IsParity
  <2>4. /\ Len(pool') = n + 1
        /\ \A j \in 1..n : pool'[j] = pool[j]
        /\ pool'[n + 1] = inst
    BY <1>0, <2>0, <2>3, AppendProperties
  <2>5. PICK idx \in [1..n -> 1..Len(order)] :
            /\ \A j, k \in 1..n : j < k => idx[j] < idx[k]
            /\ \A j \in 1..n : pool[j].node = order[idx[j]]
            /\ {idx[j] : j \in 1..n} = AnsweredAt
    BY <1>0 DEF PoolInShuffledOrder
  <2>6. \A j \in 1..n : idx[j] < i
    BY <1>0, <2>5 DEF OrderInv
  <2> DEFINE idx2 == [j \in 1..(n + 1) |-> IF j <= n THEN idx[j] ELSE i]
  <2>7. /\ idx2 \in [1..Len(pool') -> 1..Len(order')]
        /\ \A j, k \in 1..Len(pool') : j < k => idx2[j] < idx2[k]
        /\ \A j \in 1..Len(pool') : pool'[j].node = order'[idx2[j]]
        /\ {idx2[j] : j \in 1..Len(pool')} = AnsweredAt'
    <3>1. idx2 \in [1..(n + 1) -> 1..Len(order)]
      BY <2>0, <2>5
    <3>2. \A j, k \in 1..(n + 1) : j < k => idx2[j] < idx2[k]
      BY <2>0, <2>5, <2>6
    <3>3. \A j \in 1..(n + 1) : pool'[j].node = order[idx2[j]]
      BY <2>0, <2>4, <2>5
    <3>4. {idx2[j] : j \in 1..(n + 1)} = AnsweredAt \cup {i}
      BY <2>0, <2>5
    <3> QED
      BY <2>0, <2>2, <2>4, <3>1, <3>2, <3>3, <3>4
  <2>8. PoolInShuffledOrder'
    BY <2>7 DEF PoolInShuffledOrder
  <2>9. OrderInv'
    <3>1. \A k \in AnsweredAt : k < i
      BY <1>0 DEF OrderInv
    <3>2. IsInjective(order)'
      BY <1>0, <2>0 DEF OrderInv
    <3>3. \A k \in AnsweredAt' : k < i'
      <4>1. i \in Nat /\ AnsweredAt \subseteq Nat
        BY <1>0, <2>0 DEF AnsweredAt
      <4>2. \A k \in AnsweredAt \cup {i} : k < i + 1
        BY <3>1, <4>1
      <4> QED
        BY <2>0, <2>2, <4>2
    <3> QED
      BY <3>2, <3>3 DEF OrderInv
  <2> QED
    BY <1>0, <2>8, <2>9 DEF IInv
<1> QED
  BY <1>1, <1>2, <1>3, <1>4 DEF Next

(* build_web3_instances pushes each node whose client_version answered     *)
(* exactly once, in the shuffled order, and no other node: at every point *)
(* of the loop and so in the pool it returns, for every node list, scheme,*)
(* shuffle and probe outcome.                                              *)
THEOREM PoolCorrect == Spec => []PoolInShuffledOrder
<1>1. IInv => PoolInShuffledOrder
  BY DEF IInv
<1> QED
  BY PoolInit, PoolStep, <1>1, PTL DEF Spec

=============================================================================
