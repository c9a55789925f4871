--------------------- MODULE TendermintBalanceProofs ---------------------
(***************************************************************************)
(* Proofs about TendermintBalance for every set of tickers, denoms and    *)
(* balances and every bound on the transfers.                              *)
(***************************************************************************)
EXTENDS TendermintBalance, SequenceTheorems, TLAPS

(* No two consecutive entries of a sequence are equal.                     *)
NoRepeat(s) == \A k \in 1..(Len(s) - 1) : s[k] # s[k + 1]

(* current_balances[t] is what subscribers were last told about t.          *)
Told(t) ==
    IF current[t] = None THEN sent[t] = <<>>
                         ELSE sent[t] # <<>> /\ Last(sent[t]) = current[t]

(* While a message's denoms are handled, a ticker with a queued update has *)
(* it as its cached balance, it differs from the last one broadcast, and   *)
(* no denom left to handle names the ticker again; any other ticker is as  *)
(* it was between messages.                                                *)
CacheAt(t) ==
    IF pc = "denoms" /\ updates[t] # None
      THEN /\ current[t] = updates[t]
           /\ sent[t] = <<>> \/ Last(sent[t]) # updates[t]
           /\ \A d \in todo : TickerOf[d] # t
      ELSE Told(t)

IInv == TypeOK /\ (\A t \in Tickers : NoRepeat(sent[t]) /\ CacheAt(t))

-----------------------------------------------------------------------------
(* Appending a value other than the last keeps a sequence free of repeats. *)
LEMMA AppendNoRepeat ==
    ASSUME NEW S, NEW s \in Seq(S), NEW x \in S, NoRepeat(s),
           s = <<>> \/ Last(s) # x
    PROVE  /\ NoRepeat(Append(s, x))
           /\ Append(s, x) # <<>>
           /\ Last(Append(s, x)) = x
<1>1. /\ Append(s, x) # <<>> /\ Len(Append(s, x)) = Len(s) + 1
      /\ \A i \in 1..Len(s) : Append(s, x)[i] = s[i]
      /\ Append(s, x)[Len(s) + 1] = x
  BY AppendProperties
<1>2. NoRepeat(Append(s, x))
  BY <1>1 DEF NoRepeat, Last
<1> QED
  BY <1>1, <1>2 DEF Last

(* The streamer starts well typed, with nothing cached and nothing sent.   *)
LEMMA InitInv == Init => IInv
<1> SUFFICES ASSUME Init PROVE IInv
  OBVIOUS
<1>1. /\ inbox \in Seq(SUBSET Denoms)
      /\ sent \in [Tickers -> Seq(Balances)]
      /\ changes \in 0..MaxChanges
  BY TendermintAssumption DEF Init
<1>2. TypeOK
  BY <1>1 DEF Init, TypeOK, Pcs
<1>3. \A t \in Tickers : NoRepeat(sent[t]) /\ CacheAt(t)
  BY DEF Init, NoRepeat, CacheAt, Told
<1> QED
  BY <1>2, <1>3 DEF IInv

(* A step that leaves pc out of the denom loop and touches neither the     *)
(* cache nor what was sent keeps the invariant's second part.             *)
LEMMA QuietStep ==
    ASSUME NEW t \in Tickers, NoRepeat(sent[t]), CacheAt(t),
           pc # "denoms", pc' # "denoms", UNCHANGED <<current, sent>>
    PROVE  NoRepeat(sent[t])' /\ CacheAt(t)'
BY DEF CacheAt, Told, NoRepeat

(* Each step of the chain and of the handler keeps the invariant.          *)
LEMMA StepInv == IInv /\ [Next]_vars => IInv'
<1> SUFFICES ASSUME IInv, [Next]_vars PROVE IInv'
  OBVIOUS
<1>0. TypeOK /\ \A t \in Tickers : NoRepeat(sent[t]) /\ CacheAt(t)
  BY DEF IInv
<1>1. ASSUME NEW ds \in SUBSET Denoms \ {{}}, NEW b \in Balances, Transfer(ds, b)
      PROVE  IInv'
  <2>1. TypeOK'
    BY <1>0, <1>1, TendermintAssumption DEF Transfer, TypeOK
  <2>2. \A t \in Tickers : NoRepeat(sent[t])' /\ CacheAt(t)'
    BY <1>0, <1>1 DEF Transfer, CacheAt, Told, NoRepeat
  <2> QED
    BY <2>1, <2>2 DEF IInv
<1>2. CASE RpcClient \/ Connect \/ SendReceiverQuery \/ SendSpenderQuery \/ SocketClosed
  <2>1. pc # "denoms" /\ pc' # "denoms" /\ UNCHANGED <<current, sent>>
    BY <1>2 DEF RpcClient, Connect, SendReceiverQuery, SendSpenderQuery, SocketClosed,
       SetupStep
  <2>2. pc' \in Pcs /\ UNCHANGED <<todo, updates, chain, changes, errors>>
         /\ (inbox' = inbox \/ inbox' = <<>>)
    BY <1>2 DEF RpcClient, Connect, SendReceiverQuery, SendSpenderQuery,
       SocketClosed, SetupStep, Pcs
  <2>3. TypeOK'
    BY <1>0, <2>1, <2>2, EmptySeq DEF TypeOK
  <2> QED
    BY <1>0, <2>1, <2>3, QuietStep DEF IInv
<1>3. CASE ReadMessage
  (* A new message starts with no update queued: every ticker is as it    *)
  (* was between messages.                                                 *)
  <2>1. TypeOK'
    <3>1. Head(inbox) \in SUBSET Denoms /\ Tail(inbox) \in Seq(SUBSET Denoms)
      BY <1>0, <1>3, HeadTailProperties DEF ReadMessage, TypeOK
    <3> QED
      BY <1>0, <1>3, <3>1 DEF ReadMessage, TypeOK, Pcs
  <2>2. \A t \in Tickers : NoRepeat(sent[t])' /\ CacheAt(t)'
    BY <1>0, <1>3 DEF ReadMessage, CacheAt, Told, NoRepeat
  <2> QED
    BY <2>1, <2>2 DEF IInv
<1>4. ASSUME NEW d \in Denoms, SkipDenom(d) \/ BalanceFetchFailed(d) PROVE IInv'
  <2>1. TypeOK'
    BY <1>0, <1>4 DEF SkipDenom, BalanceFetchFailed, TypeOK
  <2>2. \A t \in Tickers : NoRepeat(sent[t])' /\ CacheAt(t)'
    BY <1>0, <1>4 DEF SkipDenom, BalanceFetchFailed, CacheAt, Told, NoRepeat
  <2> QED
    BY <2>1, <2>2 DEF IInv
<1>5. ASSUME NEW d \in Denoms, BalanceFetched(d) PROVE IInv'
  <2> DEFINE t0 == TickerOf[d]
  <2>0. t0 \in Tickers /\ pc = "denoms" /\ d \in todo
    BY <1>5, TendermintAssumption DEF BalanceFetched
  (* The ticker of d had no update queued yet: d is its only denom.        *)
  <2>1. updates[t0] = None /\ Told(t0)
    BY <1>0, <2>0 DEF CacheAt
  <2>2. \A d2 \in todo \ {d} : TickerOf[d2] # t0
    BY <1>0, <2>0, DenomAssumption, TendermintAssumption DEF TypeOK
  <2>3. TypeOK'
    BY <1>0, <1>5, <2>0 DEF BalanceFetched, TypeOK
  <2>4. CacheAt(t0)'
    <3>1. CASE current[t0] # chain[t0]
      <4>1. current'[t0] = chain[t0] /\ updates'[t0] = chain[t0] /\ chain[t0] \in Balances
        BY <1>0, <1>5, <2>0, <3>1 DEF BalanceFetched, TypeOK
      <4>2. sent[t0] = <<>> \/ Last(sent[t0]) # chain[t0]
        BY <2>1, <3>1 DEF Told
      <4> QED
        BY <1>5, <2>2, <4>1, <4>2, TendermintAssumption DEF BalanceFetched, CacheAt
    <3>2. CASE current[t0] = chain[t0]
      BY <1>5, <2>1, <3>2 DEF BalanceFetched, CacheAt, Told
    <3> QED
      BY <3>1, <3>2
  <2>5. ASSUME NEW t \in Tickers, t # t0 PROVE CacheAt(t)'
    <3>1. current'[t] = current[t] /\ updates'[t] = updates[t]
      BY <1>0, <1>5, <2>5 DEF BalanceFetched, TypeOK
    <3> QED
      BY <1>0, <1>5, <2>0, <3>1 DEF BalanceFetched, CacheAt, Told
  <2>6. \A t \in Tickers : NoRepeat(sent[t])'
    BY <1>0, <1>5 DEF BalanceFetched
  <2> QED
    BY <2>3, <2>4, <2>5, <2>6 DEF IInv
<1>6. CASE BroadcastUpdates
  <2>1. ASSUME NEW t \in Tickers PROVE NoRepeat(sent[t])' /\ CacheAt(t)' /\ sent'[t] \in Seq(Balances)
    <3>1. CASE updates[t] # None /\ HasUpdates
      <4>2. /\ current[t] = updates[t] /\ updates[t] \in Balances
            /\ sent[t] = <<>> \/ Last(sent[t]) # updates[t]
        BY <1>0, <1>6, <3>1 DEF BroadcastUpdates, CacheAt, TypeOK
      <4>3. sent'[t] = Append(sent[t], updates[t])
        BY <1>0, <1>6, <3>1 DEF BroadcastUpdates, TypeOK
      <4>4. /\ NoRepeat(sent'[t]) /\ sent'[t] # <<>> /\ Last(sent'[t]) = current[t]
            /\ sent'[t] \in Seq(Balances)
        BY <1>0, <4>2, <4>3, AppendNoRepeat, AppendProperties DEF TypeOK
      <4> QED
        BY <1>6, <4>2, <4>4, TendermintAssumption DEF BroadcastUpdates, CacheAt, Told
    <3>5. CASE ~(updates[t] # None /\ HasUpdates)
      <4>6. sent'[t] = sent[t] /\ Told(t)
        BY <1>0, <1>6, <3>5 DEF BroadcastUpdates, HasUpdates, CacheAt, TypeOK
      <4> QED
        BY <1>0, <1>6, <4>6 DEF BroadcastUpdates, CacheAt, Told, NoRepeat, TypeOK
    <3> QED
      BY <3>1, <3>5
  <2>2. TypeOK'
    BY <1>0, <1>6, <2>1 DEF BroadcastUpdates, TypeOK, Pcs
  <2> QED
    BY <2>1, <2>2 DEF IInv
<1>7. CASE UNCHANGED vars
  BY <1>0, <1>7 DEF vars, IInv, TypeOK, CacheAt, Told, NoRepeat
<1> QED
  BY <1>1, <1>2, <1>3, <1>4, <1>5, <1>6, <1>7 DEF Next

(* Two consecutive balance events of a ticker never carry the same        *)
(* balance ("Only broadcast when balance is changed", EventBehaviour::     *)
(* handle), across reconnects and failed fetches, for every instance.      *)
THEOREM OnlyChanges == Spec => []BroadcastOnlyChanges
<1>1. IInv => BroadcastOnlyChanges
  BY DEF IInv, NoRepeat, BroadcastOnlyChanges
<1> QED
  BY InitInv, StepInv, <1>1, PTL DEF Spec

(* Between messages current_balances is what subscribers were last told,   *)
(* for every instance.                                                     *)
THEOREM CacheMatches == Spec => []CacheMatchesLastBroadcast
<1>1. IInv => CacheMatchesLastBroadcast
  BY DEF IInv, CacheAt, Told, CacheMatchesLastBroadcast
<1> QED
  BY InitInv, StepInv, <1>1, PTL DEF Spec

=============================================================================
