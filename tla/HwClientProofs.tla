-------------------------- MODULE HwClientProofs --------------------------
(***************************************************************************)
(* Proofs about HwClient for every set of timeouts and every bound on the *)
(* devices plugged.                                                        *)
(***************************************************************************)
EXTENDS HwClient, SequenceTheorems, TLAPS

(* The callbacks made and the result so far, at each point of              *)
(* HwClient::trezor.                                                       *)
CallbackInv ==
    /\ pc = "on_connect" => callbacks = <<>> /\ result = "none"
    /\ pc \in {"try", "sleep"} => callbacks = <<"on_connect">> /\ result = "none"
    /\ pc = "connected" => callbacks = <<"on_connect">> /\ result = "Ok"
    /\ pc = "failed" => callbacks = <<"on_connect">> /\ result \notin {"none", "Ok"}
    /\ CallbacksMatchOutcome

(* Each scan but the first follows a whole second of sleep, and the clock *)
(* stops at the deadline; before a scan, the scans made fit the seconds    *)
(* slept.                                                                  *)
ScanInv ==
    /\ ScansWithinTimeout
    /\ pc = "on_connect" => clock = 0 /\ attempts = 0
    /\ pc = "try" => attempts <= clock

IInv == TypeOK /\ CallbackInv /\ ScanInv

-----------------------------------------------------------------------------
(* The callback records the client builds.                                 *)
LEMMA AppendCallback ==
    /\ Append(<<>>, "on_connect") = <<"on_connect">>
    /\ <<"on_connect">> \in Seq(Callbacks)
    /\ \A c \in Callbacks : /\ Append(<<"on_connect">>, c) = <<"on_connect", c>>
                           /\ <<"on_connect", c>> \in Seq(Callbacks)
<1>1. <<>> \in Seq(Callbacks) /\ "on_connect" \in Callbacks
  BY EmptySeq DEF Callbacks
<1>2. Append(<<>>, "on_connect") = <<"on_connect">>
  BY <1>1, AppendProperties, SeqEqual, EmptySeq
<1>3. <<"on_connect">> \in Seq(Callbacks)
  BY <1>1, <1>2, AppendProperties
<1>4. ASSUME NEW c \in Callbacks
      PROVE  /\ Append(<<"on_connect">>, c) = <<"on_connect", c>>
             /\ <<"on_connect", c>> \in Seq(Callbacks)
  <2>0. <<"on_connect", c>> \in Seq(Callbacks) /\ Len(<<"on_connect", c>>) = 2
    <3>1. <<"on_connect", c>> \in [1..2 -> Callbacks]
      BY DEF Callbacks
    <3>2. <<"on_connect", c>> \in Seq(Callbacks)
      BY <3>1, SeqDef
    <3> QED
      BY <3>2, LenProperties
  <2>1. Append(<<"on_connect">>, c) = <<"on_connect", c>>
    <3>1. /\ Append(<<"on_connect">>, c) \in Seq(Callbacks)
          /\ Len(Append(<<"on_connect">>, c)) = 2
          /\ Append(<<"on_connect">>, c)[1] = "on_connect"
          /\ Append(<<"on_connect">>, c)[2] = c
      BY <1>3, AppendProperties
    <3>2. <<"on_connect", c>>[1] = "on_connect" /\ <<"on_connect", c>>[2] = c
      OBVIOUS
    <3>3. \A i \in 1..Len(Append(<<"on_connect">>, c)) :
              Append(<<"on_connect">>, c)[i] = <<"on_connect", c>>[i]
      BY <3>1, <3>2
    <3> QED
      BY <2>0, <3>1, <3>3, SeqEqual
  <2>2. Append(<<"on_connect">>, c) \in Seq(Callbacks)
    BY <1>3, AppendProperties
  <2> QED
    BY <2>1, <2>2
<1> QED
  BY <1>2, <1>3, <1>4

(* The client starts before on_connect, with no scan made.                 *)
LEMMA InitInv == Init => IInv
BY HwAssumption DEF Init, IInv, TypeOK, CallbackInv, CallbacksMatchOutcome,
   ScanInv, ScansWithinTimeout, Results

(* Every step of the user and of the client keeps the invariant.           *)
LEMMA StepInv == IInv /\ [Next]_vars => IInv'
<1> SUFFICES ASSUME IInv, [Next]_vars PROVE IInv'
  OBVIOUS
<1>0. TypeOK /\ CallbackInv /\ ScanInv
  BY DEF IInv
<1>1. CASE Replug
  BY <1>0, <1>1 DEF Replug, IInv, TypeOK, CallbackInv, CallbacksMatchOutcome,
     ScanInv, ScansWithinTimeout
<1>2. CASE OnConnect
  (* on_connect is called once, first; its error ends the client.          *)
  <2>1. callbacks' = <<"on_connect">>
    BY <1>0, <1>2, AppendCallback DEF OnConnect, CallbackInv
  <2>2. TypeOK'
    BY <1>0, <1>2, <2>1, AppendCallback, HwAssumption DEF OnConnect, TypeOK, Results
  <2>3. CallbackInv'
    BY <1>0, <1>2, <2>1 DEF OnConnect, CallbackInv, CallbacksMatchOutcome
  <2>4. ScanInv'
    <3>1. clock = 0 /\ attempts = 0 /\ UNCHANGED <<clock, attempts>>
      BY <1>0, <1>2 DEF OnConnect, ScanInv, ScansWithinTimeout, TypeOK
    <3>2. timeout' \in Nat
      BY <1>0, <1>2, HwAssumption DEF OnConnect, TypeOK
    <3> QED
      BY <3>1, <3>2 DEF ScanInv, ScansWithinTimeout
  <2> QED
    BY <2>2, <2>3, <2>4 DEF IInv
<1>3. CASE TryToConnect
  (* A scan is made at most once per second slept.                         *)
  BY <1>0, <1>3 DEF TryToConnect, IInv, TypeOK, CallbackInv, CallbacksMatchOutcome,
     ScanInv, ScansWithinTimeout, Results
<1>4. CASE SleepDone
  (* The sleep either ends before the deadline or the timeout stops the    *)
  (* clock at the deadline.                                                *)
  BY <1>0, <1>4, HwAssumption DEF SleepDone, IInv, TypeOK, CallbackInv,
     CallbacksMatchOutcome, ScanInv, ScansWithinTimeout, Results
<1>5. CASE OnConnected \/ OnConnectionFailed
  <2>1. CASE OnConnected
    <3>1. callbacks' = <<"on_connect", "on_connected">>
      BY <1>0, <2>1, AppendCallback DEF OnConnected, CallbackInv, Callbacks
    <3> QED
      BY <1>0, <2>1, <3>1, AppendCallback DEF OnConnected, IInv, TypeOK, CallbackInv,
         CallbacksMatchOutcome, ScanInv, ScansWithinTimeout, Callbacks, Results
  <2>2. CASE OnConnectionFailed
    <3>1. callbacks' = <<"on_connect", "on_connection_failed">>
      BY <1>0, <2>2, AppendCallback DEF OnConnectionFailed, CallbackInv, Callbacks
    <3> QED
      BY <1>0, <2>2, <3>1, AppendCallback DEF OnConnectionFailed, IInv, TypeOK, CallbackInv,
         CallbacksMatchOutcome, ScanInv, ScansWithinTimeout, Callbacks, Results
  <2> QED
    BY <1>5, <2>1, <2>2
<1>6. CASE UNCHANGED vars
  BY <1>0, <1>6 DEF vars, IInv, TypeOK, CallbackInv, CallbacksMatchOutcome,
     ScanInv, ScansWithinTimeout
<1> QED
  BY <1>1, <1>2, <1>3, <1>4, <1>5, <1>6 DEF Next

(* HwClient::trezor calls on_connected or on_connection_failed exactly once *)
(* after a successful on_connect, on_connected exactly when a device was   *)
(* connected, and returns a client only after on_connected succeeded, for  *)
(* every timeout.                                                          *)
THEOREM CallbacksCorrect == Spec => []CallbacksMatchOutcome
<1>1. IInv => CallbacksMatchOutcome
  BY DEF IInv, CallbackInv
<1> QED
  BY InitInv, StepInv, <1>1, PTL DEF Spec

(* The connect future of HwClient::trezor never outlives the timeout that  *)
(* on_connect returned and scans at most once per second of it, for every  *)
(* timeout.                                                                *)
THEOREM ScansBounded == Spec => []ScansWithinTimeout
<1>1. IInv => ScansWithinTimeout
  BY DEF IInv, ScanInv
<1> QED
  BY InitInv, StepInv, <1>1, PTL DEF Spec

=============================================================================
