----------------------- MODULE NonceRegistryProofs -----------------------
(***************************************************************************)
(* Proofs about NonceRegistry for every set of platforms, tokens, coin     *)
(* instances and operations.                                               *)
(***************************************************************************)
EXTENDS NonceRegistry, SequenceTheorems, TLAPS

Built(s) == coins[s].state # "unbuilt"

(* A built coin instance keeps the lock NONCE_LOCK holds for the platform  *)
(* whose account it spends from.                                           *)
CoinsInv ==
    \A s \in Slots : Built(s) =>
        /\ coins[s].identity \in Platforms
        /\ coins[s].lock \in LockIds
        /\ coins[s].lock = registry[coins[s].identity]

(* An operation in progress runs on a built instance (its Arc keeps it).  *)
SignersInv ==
    \A g \in Signers :
        /\ signers[g].pc = "idle" <=> signers[g].slot = None
        /\ signers[g].slot # None => Built(signers[g].slot)

(* The guard an operation holds and the lock's holder agree.               *)
HolderInv ==
    \A g \in Signers : signers[g].pc \in {"holding", "read"} => holder[LockOf(g)] = g

HeldInv ==
    \A l \in LockIds : holder[l] # None =>
        /\ signers[holder[l]].pc \in {"holding", "read"}
        /\ LockOf(holder[l]) = l

(* The nonce an operation read is still the account's next nonce.          *)
ReadInv ==
    \A g \in Signers : signers[g].pc = "read" => signers[g].nonce = chainNonce[IdentityOf(g)]

(* Every nonce submitted from an account is below its next nonce, and the  *)
(* submitted nonces increase.                                              *)
SubmittedInv ==
    \A p \in Platforms :
        /\ \A a \in 1..Len(submitted[p]) : submitted[p][a] < chainNonce[p]
        /\ \A a, b \in 1..Len(submitted[p]) : a < b => submitted[p][a] < submitted[p][b]

Inv == TypeOK /\ CoinsInv /\ SignersInv /\ HolderInv /\ HeldInv /\ ReadInv /\ SubmittedInv

-----------------------------------------------------------------------------
(* The registry invariant holds before any coin is activated.           *)
LEMMA InitInv == Init => Inv
BY RegistryAssumption
   DEF Init, Inv, TypeOK, CoinState, SignerState, LockIds, NoLock, CoinsInv, Built,
       SignersInv, HolderInv, HeldInv, ReadInv, SubmittedInv

(* The parts of the invariant that mention only the signers, the locks and *)
(* the nonces carry over a step that leaves those and the built coins of  *)
(* the operations in progress alone.                                       *)
LEMMA CoinFrame ==
    ASSUME Inv, TypeOK', CoinsInv',
           UNCHANGED <<holder, signers, chainNonce, submitted>>,
           \A g \in Signers : signers[g].slot # None =>
               /\ Built(signers[g].slot)'
               /\ coins'[signers[g].slot].lock = coins[signers[g].slot].lock
               /\ coins'[signers[g].slot].identity = coins[signers[g].slot].identity
    PROVE  Inv'
<1>0. holder' = holder /\ signers' = signers /\ chainNonce' = chainNonce
      /\ submitted' = submitted
  OBVIOUS
<1>1. \A g \in Signers : signers[g].pc \in {"holding", "read"} =>
          LockOf(g)' = LockOf(g) /\ IdentityOf(g)' = IdentityOf(g)
  BY <1>0 DEF Inv, SignersInv, LockOf, IdentityOf
<1>2. SignersInv'
  BY <1>0 DEF Inv, SignersInv
<1>3. HolderInv'
  BY <1>0, <1>1 DEF Inv, HolderInv
<1>4. HeldInv'
  <2> SUFFICES ASSUME NEW l \in LockIds, holder[l] # None
               PROVE  /\ signers[holder[l]].pc \in {"holding", "read"}
                      /\ LockOf(holder[l])' = l
    BY <1>0 DEF HeldInv
  <2>1. holder[l] \in Signers
    BY DEF Inv, TypeOK
  <2> QED
    BY <1>0, <1>1, <2>1 DEF Inv, HeldInv
<1>5. ReadInv'
  BY <1>0, <1>1 DEF Inv, ReadInv
<1>6. SubmittedInv'
  BY <1>0 DEF Inv, SubmittedInv
<1> QED
  BY <1>2, <1>3, <1>4, <1>5, <1>6 DEF Inv

(* Two operations inside the critical section never share a lock, nor an   *)
(* account: the built coins of both keep NONCE_LOCK's lock of their        *)
(* account, and the lock has one holder.                                   *)
LEMMA Exclusive ==
    ASSUME Inv, NEW g \in Signers, NEW h \in Signers,
           signers[g].pc \in {"holding", "read"}, signers[h].pc \in {"holding", "read"},
           LockOf(g) = LockOf(h) \/ IdentityOf(g) = IdentityOf(h)
    PROVE  g = h
<1>1. /\ signers[g].slot \in Slots /\ Built(signers[g].slot)
      /\ signers[h].slot \in Slots /\ Built(signers[h].slot)
  BY DEF Inv, SignersInv, TypeOK, SignerState
<1>2. LockOf(g) = registry[IdentityOf(g)] /\ LockOf(h) = registry[IdentityOf(h)]
  BY <1>1 DEF Inv, CoinsInv, LockOf, IdentityOf
<1>3. LockOf(g) = LockOf(h)
  BY <1>2
<1> QED
  BY <1>3 DEF Inv, HolderInv

(* A signer inside the critical section runs on a built coin whose lock   *)
(* and account are in range.                                              *)
LEMMA InSection ==
    ASSUME Inv, NEW g \in Signers, signers[g].pc # "idle"
    PROVE  /\ signers[g].slot \in Slots
           /\ Built(signers[g].slot)
           /\ LockOf(g) \in LockIds
           /\ IdentityOf(g) \in Platforms
BY DEF Inv, SignersInv, TypeOK, SignerState, CoinsInv, LockOf, IdentityOf

(* Every activation, disable, drop and signing step keeps the invariant. *)
LEMMA StepInv == Inv /\ [Next]_vars => Inv'
<1> SUFFICES ASSUME Inv, [Next]_vars PROVE Inv'
  OBVIOUS
<1>0. TypeOK /\ CoinsInv /\ SignersInv
  BY DEF Inv
<1>1. ASSUME NEW s \in Slots, NEW p \in Platforms, ActivatePlatform(s, p) PROVE Inv'
  <2>0. /\ coins[s].state = "unbuilt"
        /\ \A g \in Signers : signers[g].slot # s
        /\ UNCHANGED <<holder, signers, chainNonce, submitted>>
    BY <1>0, <1>1, RegistryAssumption DEF ActivatePlatform, SignersInv, Built
  <2>1. CASE UNCHANGED <<registry, nextLock, coins>>
    <3>1. TypeOK' /\ CoinsInv'
      BY <1>0, <2>0, <2>1 DEF TypeOK, CoinsInv, Built
    <3>2. \A g \in Signers : signers[g].slot # None =>
               /\ Built(signers[g].slot)'
               /\ coins'[signers[g].slot].lock = coins[signers[g].slot].lock
               /\ coins'[signers[g].slot].identity = coins[signers[g].slot].identity
      BY <1>0, <2>0, <2>1 DEF SignersInv, Built
    <3> QED
      BY <2>0, <3>1, <3>2, CoinFrame
  <2>2. CASE RegisterNonceLock(p)
    <3>a. registry'[p] \in LockIds /\ nextLock' \in 1..(MaxLocks + 1)
      BY <1>0, <2>2, RegistryAssumption DEF RegisterNonceLock, NonceLockFor, TypeOK, LockIds, NoLock
    <3>b. registry' \in [Platforms -> LockIds \cup {NoLock}]
      BY <1>0, <2>2, <3>a DEF RegisterNonceLock, TypeOK
    <3>c. \A r \in Platforms : registry[r] # NoLock => registry'[r] = registry[r]
      BY <1>0, <2>2 DEF RegisterNonceLock, NonceLockFor, TypeOK
    <3>d. \A r \in Platforms : registry[r] \in LockIds => registry'[r] = registry[r]
      BY <3>c DEF NoLock, LockIds
    <3> DEFINE new == [state |-> "active", ticker |-> p, identity |-> p, lock |-> registry'[p]]
    <3>e. coins' = coins \/ coins' = [coins EXCEPT ![s] = new]
      BY <1>1, <2>2 DEF ActivatePlatform
    <3>f. TypeOK'
      <4>1. new \in CoinState
        BY <3>a DEF CoinState
      <4>2. coins' \in [Slots -> CoinState]
        BY <1>0, <3>e, <4>1 DEF TypeOK
      <4> QED
        BY <1>0, <2>0, <3>a, <3>b, <4>2 DEF TypeOK
    <3>g. CoinsInv'
      <4> SUFFICES ASSUME NEW r \in Slots, Built(r)'
                   PROVE  /\ coins'[r].identity \in Platforms
                          /\ coins'[r].lock \in LockIds
                          /\ coins'[r].lock = registry'[coins'[r].identity]
        BY DEF CoinsInv
      <4>1. CASE coins' = coins
        BY <1>0, <3>d, <4>1 DEF CoinsInv, Built
      <4>2. CASE coins' = [coins EXCEPT ![s] = new] /\ r = s
        BY <3>a, <4>2, <1>0 DEF TypeOK
      <4>3. CASE coins' = [coins EXCEPT ![s] = new] /\ r # s
        BY <1>0, <3>d, <4>3 DEF CoinsInv, Built
      <4> QED
        BY <3>e, <4>1, <4>2, <4>3
    <3>h. \A g \in Signers : signers[g].slot # None =>
               /\ Built(signers[g].slot)'
               /\ coins'[signers[g].slot].lock = coins[signers[g].slot].lock
               /\ coins'[signers[g].slot].identity = coins[signers[g].slot].identity
      BY <1>0, <2>0, <3>e DEF SignersInv, Built, TypeOK, SignerState
    <3> QED
      BY <2>0, <3>f, <3>g, <3>h, CoinFrame
  <2> QED
    BY <1>1, <2>1, <2>2 DEF ActivatePlatform
<1>2. ASSUME NEW s \in Slots, NEW t \in Tokens, NEW q \in Slots, ActivateToken(s, t, q)
      PROVE Inv'
  <2>0. /\ coins[s].state = "unbuilt"
        /\ \A g \in Signers : signers[g].slot # s
        /\ UNCHANGED <<holder, signers, chainNonce, submitted>>
        /\ UNCHANGED <<registry, nextLock>>
    BY <1>0, <1>2, RegistryAssumption DEF ActivateToken, SignersInv, Built
  <2> DEFINE new == [state |-> "active", ticker |-> t, identity |-> coins[q].identity,
                     lock |-> coins[q].lock]
  <2>1. coins' = [coins EXCEPT ![s] = new]
    BY <1>2 DEF ActivateToken
  <2>2. Built(q) /\ q # s
    BY <1>2 DEF ActivateToken, Built
  <2>3. new \in CoinState /\ new.identity \in Platforms /\ new.lock \in LockIds
        /\ new.lock = registry[new.identity]
    BY <1>0, <2>2, RegistryAssumption DEF CoinsInv, CoinState, TypeOK
  <2>4. TypeOK'
    BY <1>0, <2>0, <2>1, <2>3 DEF TypeOK
  <2>5. CoinsInv'
    BY <1>0, <2>0, <2>1, <2>3 DEF CoinsInv, Built, TypeOK
  <2>6. \A g \in Signers : signers[g].slot # None =>
             /\ Built(signers[g].slot)'
             /\ coins'[signers[g].slot].lock = coins[signers[g].slot].lock
             /\ coins'[signers[g].slot].identity = coins[signers[g].slot].identity
    BY <1>0, <2>0, <2>1 DEF SignersInv, Built, TypeOK, SignerState
  <2> QED
    BY <2>0, <2>4, <2>5, <2>6, CoinFrame
<1>3. ASSUME NEW s \in Slots, DisableCoin(s) PROVE Inv'
  <2>0. UNCHANGED <<holder, signers, chainNonce, submitted, registry, nextLock>>
        /\ coins' = [coins EXCEPT ![s].state = "disabled"] /\ Built(s)
    BY <1>3 DEF DisableCoin, Built
  <2>a. \A r \in Slots : /\ coins'[r].lock = coins[r].lock
                        /\ coins'[r].identity = coins[r].identity
                        /\ coins'[r].ticker = coins[r].ticker
                        /\ coins'[r].state = IF r = s THEN "disabled" ELSE coins[r].state
    BY <1>0, <2>0 DEF TypeOK, CoinState
  <2>b. coins' \in [Slots -> CoinState]
    <3> SUFFICES ASSUME NEW r \in Slots PROVE coins'[r] \in CoinState
      BY <2>0, <1>0 DEF TypeOK
    <3>1. coins[r] \in CoinState
      BY <1>0 DEF TypeOK
    <3>2. coins'[r] = [state |-> coins'[r].state, ticker |-> coins'[r].ticker,
                       identity |-> coins'[r].identity, lock |-> coins'[r].lock]
      BY <2>0, <3>1 DEF CoinState
    <3> QED
      BY <2>a, <3>1, <3>2 DEF CoinState
  <2>1. TypeOK' /\ CoinsInv'
    BY <1>0, <2>0, <2>a, <2>b DEF TypeOK, CoinsInv, Built
  <2>2. \A g \in Signers : signers[g].slot # None =>
             /\ Built(signers[g].slot)'
             /\ coins'[signers[g].slot].lock = coins[signers[g].slot].lock
             /\ coins'[signers[g].slot].identity = coins[signers[g].slot].identity
    BY <1>0, <2>0, <2>a DEF SignersInv, Built, TypeOK, SignerState
  <2> QED
    BY <2>0, <2>1, <2>2, CoinFrame
<1>4. ASSUME NEW s \in Slots, DropInstance(s) PROVE Inv'
  <2>0. UNCHANGED <<holder, signers, chainNonce, submitted, registry, nextLock>>
        /\ coins' = [coins EXCEPT ![s] = [state |-> "unbuilt", ticker |-> None,
                                          identity |-> None, lock |-> NoLock]]
        /\ \A g \in Signers : signers[g].slot # s
    BY <1>4 DEF DropInstance
  <2>1. TypeOK' /\ CoinsInv'
    BY <1>0, <2>0 DEF TypeOK, CoinState, CoinsInv, Built
  <2>2. \A g \in Signers : signers[g].slot # None =>
             /\ Built(signers[g].slot)'
             /\ coins'[signers[g].slot].lock = coins[signers[g].slot].lock
             /\ coins'[signers[g].slot].identity = coins[signers[g].slot].identity
    BY <1>0, <2>0 DEF SignersInv, Built, TypeOK, SignerState
  <2> QED
    BY <2>0, <2>1, <2>2, CoinFrame
<1>5. ASSUME NEW g \in Signers, NEW s \in Slots, BeginSigning(g, s) PROVE Inv'
  <2>0. /\ signers' = [signers EXCEPT ![g] = [pc |-> "waiting", slot |-> s, nonce |-> 0]]
        /\ UNCHANGED <<registry, nextLock, coins, holder, chainNonce, submitted>>
        /\ signers[g].pc = "idle" /\ Built(s) /\ s # None
    BY <1>5, RegistryAssumption DEF BeginSigning, Built
  <2>1. \A h \in Signers : h # g => signers'[h] = signers[h] /\ LockOf(h)' = LockOf(h)
                                    /\ IdentityOf(h)' = IdentityOf(h)
    BY <1>0, <2>0 DEF TypeOK, LockOf, IdentityOf
  <2>2. \A l \in LockIds : holder[l] # g
    BY <2>0, RegistryAssumption DEF Inv, HeldInv
  <2>3. TypeOK'
    BY <1>0, <2>0, RegistryAssumption DEF TypeOK, SignerState
  <2>4. SignersInv'
    BY <1>0, <2>0, <2>1 DEF SignersInv, TypeOK, Built
  <2>5. HolderInv' /\ HeldInv' /\ ReadInv'
    BY <1>0, <2>0, <2>1, <2>2 DEF Inv, HolderInv, HeldInv, ReadInv, TypeOK
  <2> QED
    BY <2>0, <2>3, <2>4, <2>5 DEF Inv, CoinsInv, Built, SubmittedInv
<1>6. ASSUME NEW g \in Signers, AcquireNonceLock(g) PROVE Inv'
  <2>0. /\ signers' = [signers EXCEPT ![g].pc = "holding"]
        /\ holder' = [holder EXCEPT ![LockOf(g)] = g]
        /\ UNCHANGED <<registry, nextLock, coins, chainNonce, submitted>>
        /\ signers[g].pc = "waiting" /\ holder[LockOf(g)] = None
    BY <1>6 DEF AcquireNonceLock
  <2>1. LockOf(g) \in LockIds /\ IdentityOf(g) \in Platforms
    BY <2>0, InSection
  <2>2. \A h \in Signers : /\ signers'[h].slot = signers[h].slot
                           /\ LockOf(h)' = LockOf(h) /\ IdentityOf(h)' = IdentityOf(h)
                           /\ signers'[h].nonce = signers[h].nonce
                           /\ h # g => signers'[h] = signers[h]
    BY <1>0, <2>0 DEF TypeOK, LockOf, IdentityOf
  <2>3. TypeOK'
    BY <1>0, <2>0, <2>1 DEF TypeOK, SignerState
  <2>4. HolderInv'
    BY <2>0, <2>1, <2>2, RegistryAssumption DEF Inv, HolderInv, TypeOK
  <2>5. HeldInv'
    BY <2>0, <2>1, <2>2, RegistryAssumption DEF Inv, HeldInv, TypeOK
  <2> QED
    BY <2>0, <2>2, <2>3, <2>4, <2>5
       DEF Inv, CoinsInv, Built, SignersInv, ReadInv, SubmittedInv, TypeOK
<1>7. ASSUME NEW g \in Signers, ReadNonce(g) PROVE Inv'
  <2>0. /\ signers' = [signers EXCEPT ![g].pc = "read",
                                      ![g].nonce = chainNonce[IdentityOf(g)]]
        /\ UNCHANGED <<registry, nextLock, coins, holder, chainNonce, submitted>>
        /\ signers[g].pc = "holding"
    BY <1>7 DEF ReadNonce
  <2>1. IdentityOf(g) \in Platforms
    BY <2>0, InSection
  <2>2. \A h \in Signers : /\ signers'[h].slot = signers[h].slot
                           /\ LockOf(h)' = LockOf(h) /\ IdentityOf(h)' = IdentityOf(h)
                           /\ h # g => signers'[h] = signers[h]
    BY <1>0, <2>0 DEF TypeOK, LockOf, IdentityOf
  <2>3. TypeOK'
    BY <1>0, <2>0, <2>1 DEF TypeOK, SignerState
  <2>4. HolderInv' /\ HeldInv' /\ ReadInv'
    BY <1>0, <2>0, <2>2 DEF Inv, HolderInv, HeldInv, ReadInv, TypeOK
  <2> QED
    BY <2>0, <2>2, <2>3, <2>4 DEF Inv, CoinsInv, Built, SignersInv, SubmittedInv, TypeOK
<1>8. ASSUME NEW g \in Signers, SubmitAndRelease(g) PROVE Inv'
  <2> DEFINE p == IdentityOf(g)
  <2>0. /\ signers' = [signers EXCEPT ![g] = [pc |-> "idle", slot |-> None, nonce |-> 0]]
        /\ holder' = [holder EXCEPT ![LockOf(g)] = None]
        /\ chainNonce' = [chainNonce EXCEPT ![p] = IF signers[g].nonce = @ THEN @ + 1 ELSE @]
        /\ submitted' = [submitted EXCEPT ![p] = Append(@, signers[g].nonce)]
        /\ UNCHANGED <<registry, nextLock, coins>>
        /\ signers[g].pc = "read" /\ signers[g].nonce < MaxNonce
    BY <1>8 DEF SubmitAndRelease
  <2>1. LockOf(g) \in LockIds /\ p \in Platforms /\ holder[LockOf(g)] = g
        /\ signers[g].nonce = chainNonce[p]
    BY <2>0, InSection DEF Inv, HolderInv, ReadInv
  <2>2. \A h \in Signers : h # g /\ signers[h].pc \in {"holding", "read"} =>
            LockOf(h) # LockOf(g) /\ IdentityOf(h) # p
    BY <2>0, Exclusive
  <2>3. \A h \in Signers : h # g => /\ signers'[h] = signers[h]
                                    /\ LockOf(h)' = LockOf(h) /\ IdentityOf(h)' = IdentityOf(h)
    BY <1>0, <2>0 DEF TypeOK, LockOf, IdentityOf
  <2>4. chainNonce'[p] = chainNonce[p] + 1
        /\ \A r \in Platforms : r # p => chainNonce'[r] = chainNonce[r]
    BY <1>0, <2>0, <2>1 DEF TypeOK
  <2>5. TypeOK'
    BY <1>0, <2>0, <2>1, <2>4, RegistryAssumption DEF TypeOK, SignerState
  <2>6. SignersInv'
    BY <1>0, <2>0, <2>3 DEF Inv, SignersInv, TypeOK, Built
  <2>7. HolderInv'
    BY <2>0, <2>1, <2>2, <2>3 DEF Inv, HolderInv, TypeOK
  <2>8. HeldInv'
    <3> SUFFICES ASSUME NEW l \in LockIds, holder'[l] # None
                 PROVE  /\ signers'[holder'[l]].pc \in {"holding", "read"}
                        /\ LockOf(holder[l])' = l
      BY DEF HeldInv
    <3>1. l # LockOf(g) /\ holder'[l] = holder[l]
      BY <2>0, <1>0 DEF TypeOK
    <3>2. holder[l] # g /\ holder[l] \in Signers
      BY <3>1 DEF Inv, HeldInv, TypeOK
    <3> QED
      BY <3>1, <3>2, <2>3 DEF Inv, HeldInv
  <2>9. ReadInv'
    <3> SUFFICES ASSUME NEW h \in Signers, signers'[h].pc = "read"
                 PROVE  (signers[h].nonce = chainNonce[IdentityOf(h)])'
      BY DEF ReadInv
    <3>1. h # g /\ signers'[h] = signers[h] /\ IdentityOf(h)' = IdentityOf(h)
      BY <2>0, <2>3, <1>0 DEF TypeOK
    <3>2. IdentityOf(h) \in Platforms /\ IdentityOf(h) # p
      BY <3>1, <2>2, InSection
    <3>3. signers[h].nonce = chainNonce[IdentityOf(h)]
      BY <3>1 DEF Inv, ReadInv
    <3> QED
      BY <3>1, <3>2, <3>3, <2>4
  <2>10. SubmittedInv'
    <3> SUFFICES ASSUME NEW r \in Platforms
                 PROVE  /\ \A a \in 1..Len(submitted'[r]) : submitted'[r][a] < chainNonce'[r]
                        /\ \A a, b \in 1..Len(submitted'[r]) :
                              a < b => submitted'[r][a] < submitted'[r][b]
      BY DEF SubmittedInv
    <3>1. CASE r = p
      <4>1. submitted'[r] = Append(submitted[r], chainNonce[r])
        BY <3>1, <2>0, <2>1, <1>0 DEF TypeOK
      <4>2. submitted[r] \in Seq(0..MaxNonce) /\ chainNonce[r] \in 0..MaxNonce
        BY <1>0 DEF TypeOK
      <4>3. /\ Len(submitted'[r]) = Len(submitted[r]) + 1
            /\ \A a \in 1..Len(submitted[r]) : submitted'[r][a] = submitted[r][a]
            /\ submitted'[r][Len(submitted[r]) + 1] = chainNonce[r]
        BY <4>1, <4>2
      <4>4. \A a \in 1..Len(submitted[r]) : submitted[r][a] < chainNonce[r]
        BY DEF Inv, SubmittedInv
      <4>5. \A a, b \in 1..Len(submitted[r]) : a < b => submitted[r][a] < submitted[r][b]
        BY DEF Inv, SubmittedInv
      <4>6. chainNonce'[r] = chainNonce[r] + 1
        BY <3>1, <2>4
      <4>7. ASSUME NEW a \in 1..Len(submitted'[r]) PROVE submitted'[r][a] < chainNonce'[r]
        <5>1. CASE a <= Len(submitted[r])
          <6>1. a \in 1..Len(submitted[r])
            BY <5>1, <4>3
          <6>2. submitted'[r][a] = submitted[r][a] /\ submitted[r][a] < chainNonce[r]
            BY <6>1, <4>3, <4>4
          <6>3. submitted[r][a] \in 0..MaxNonce
            BY <6>1, <4>2, ElementOfSeq
          <6> QED
            BY <6>2, <6>3, <4>2, <4>6
        <5>2. CASE a = Len(submitted[r]) + 1
          BY <5>2, <4>2, <4>3, <4>6
        <5> QED
          BY <5>1, <5>2, <4>3, <4>2
      <4>8. ASSUME NEW a \in 1..Len(submitted'[r]), NEW b \in 1..Len(submitted'[r]), a < b
            PROVE  submitted'[r][a] < submitted'[r][b]
        <5>1. CASE b <= Len(submitted[r])
          BY <5>1, <4>8, <4>3, <4>5
        <5>2. CASE b = Len(submitted[r]) + 1
          BY <5>2, <4>8, <4>3, <4>4
        <5> QED
          BY <5>1, <5>2, <4>3, <4>8
      <4> QED
        BY <4>7, <4>8
    <3>2. CASE r # p
      BY <3>2, <2>0, <2>4, <1>0 DEF Inv, SubmittedInv, TypeOK
    <3> QED
      BY <3>1, <3>2
  <2> QED
    BY <2>0, <2>5, <2>6, <2>7, <2>8, <2>9, <2>10 DEF Inv, CoinsInv, Built
<1>9. ASSUME NEW g \in Signers, AbortSigning(g) PROVE Inv'
  <2>0. /\ signers' = [signers EXCEPT ![g] = [pc |-> "idle", slot |-> None, nonce |-> 0]]
        /\ holder' = [holder EXCEPT ![LockOf(g)] = None]
        /\ UNCHANGED <<registry, nextLock, coins, chainNonce, submitted>>
        /\ signers[g].pc \in {"holding", "read"}
    BY <1>9 DEF AbortSigning
  <2>1. LockOf(g) \in LockIds /\ holder[LockOf(g)] = g
    BY <2>0, InSection DEF Inv, HolderInv
  <2>2. \A h \in Signers : h # g /\ signers[h].pc \in {"holding", "read"} =>
            LockOf(h) # LockOf(g)
    BY <2>0, Exclusive
  <2>3. \A h \in Signers : h # g => /\ signers'[h] = signers[h]
                                    /\ LockOf(h)' = LockOf(h) /\ IdentityOf(h)' = IdentityOf(h)
    BY <1>0, <2>0 DEF TypeOK, LockOf, IdentityOf
  <2>4. TypeOK'
    BY <1>0, <2>0, <2>1, RegistryAssumption DEF TypeOK, SignerState
  <2>5. SignersInv'
    BY <1>0, <2>0, <2>3 DEF Inv, SignersInv, TypeOK, Built
  <2>6. HolderInv'
    BY <2>0, <2>1, <2>2, <2>3 DEF Inv, HolderInv, TypeOK
  <2>7. HeldInv'
    <3> SUFFICES ASSUME NEW l \in LockIds, holder'[l] # None
                 PROVE  /\ signers'[holder'[l]].pc \in {"holding", "read"}
                        /\ LockOf(holder[l])' = l
      BY DEF HeldInv
    <3>1. l # LockOf(g) /\ holder'[l] = holder[l]
      BY <2>0, <1>0 DEF TypeOK
    <3>2. holder[l] # g /\ holder[l] \in Signers
      BY <3>1 DEF Inv, HeldInv, TypeOK
    <3> QED
      BY <3>1, <3>2, <2>3 DEF Inv, HeldInv
  <2>8. ReadInv'
    <3> SUFFICES ASSUME NEW h \in Signers, signers'[h].pc = "read"
                 PROVE  (signers[h].nonce = chainNonce[IdentityOf(h)])'
      BY DEF ReadInv
    <3>1. h # g
      BY <2>0, <1>0 DEF TypeOK
    <3>2. signers'[h] = signers[h] /\ IdentityOf(h)' = IdentityOf(h)
      BY <3>1, <2>3
    <3>3. signers[h].nonce = chainNonce[IdentityOf(h)]
      BY <3>2 DEF Inv, ReadInv
    <3> QED
      BY <3>2, <3>3, <2>0
  <2>9. CoinsInv'
    BY <2>0 DEF Inv, CoinsInv, Built
  <2>10. SubmittedInv'
    BY <2>0 DEF Inv, SubmittedInv
  <2> QED
    BY <2>4, <2>5, <2>6, <2>7, <2>8, <2>9, <2>10 DEF Inv
<1>10. CASE UNCHANGED vars
  BY <1>10 DEF vars, Inv, TypeOK, CoinsInv, Built, SignersInv, HolderInv, HeldInv,
             ReadInv, SubmittedInv, LockOf, IdentityOf
<1> QED
  BY <1>1, <1>2, <1>3, <1>4, <1>5, <1>6, <1>7, <1>8, <1>9, <1>10 DEF Next

-----------------------------------------------------------------------------
(* A signer that holds the lock of its coin is in its critical section.    *)
LEMMA HolderInSection ==
    ASSUME Inv, NEW g \in Signers, HoldsNonceLock(g)
    PROVE  signers[g].pc \in {"holding", "read"}
<1>1. signers[g].slot \in Slots /\ Built(signers[g].slot)
  BY DEF Inv, TypeOK, SignerState, SignersInv, HoldsNonceLock
<1>2. LockOf(g) \in LockIds /\ holder[LockOf(g)] = g
  BY <1>1 DEF Inv, CoinsInv, LockOf, HoldsNonceLock
<1> QED
  BY <1>2, RegistryAssumption DEF Inv, HeldInv

(* The registry invariant gives lock exclusion and increasing nonces.   *)
LEMMA InvImplies == Inv => NonceMutualExclusion /\ NoncesStrictlyIncrease
<1> SUFFICES ASSUME Inv PROVE NonceMutualExclusion /\ NoncesStrictlyIncrease
  OBVIOUS
<1>1. NonceMutualExclusion
  BY HolderInSection, Exclusive DEF NonceMutualExclusion
<1>2. NoncesStrictlyIncrease
  BY DEF Inv, SubmittedInv, NoncesStrictlyIncrease
<1> QED
  BY <1>1, <1>2

(* Spec 4.3 for every number of platforms, tokens, coin instances and     *)
(* signing operations: two operations that hold nonce locks at the same   *)
(* time sign for different accounts, because every coin of an account,    *)
(* re-activated or not, shares the one lock NONCE_LOCK keeps for it.      *)
THEOREM MutualExclusion == Spec => []NonceMutualExclusion
<1>1. Inv => NonceMutualExclusion
  BY InvImplies
<1> QED
  BY InitInv, StepInv, <1>1, PTL DEF Spec

(* Spec 8 for every instance: the nonces a signing operation submits from *)
(* one account, read under its nonce lock, strictly increase.             *)
THEOREM NoncesIncrease == Spec => []NoncesStrictlyIncrease
<1>1. Inv => NoncesStrictlyIncrease
  BY InvImplies
<1> QED
  BY InitInv, StepInv, <1>1, PTL DEF Spec

====
