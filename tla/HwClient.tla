------------------------------ MODULE HwClient ------------------------------
(***************************************************************************)
(* HwClient::trezor of crypto/src/hw_client.rs, the native variant.        *)
(*                                                                         *)
(* on_connect().await? yields the timeout.  The connect future loops:      *)
(* try_to_connect lists the usb devices (an error ends the loop), no       *)
(* device sleeps 1 s and tries again, more than one is CannotChooseDevice, *)
(* one is connected (an error ends the loop).  The future runs under       *)
(* .timeout(timeout), which can win only while the future is suspended, in *)
(* the 1 s sleep.  A client is followed by on_connected().await?, an error *)
(* or the timeout by on_connection_failed().await?, whose own error        *)
(* replaces the result.                                                    *)
(*                                                                         *)
(* The user plugs and unplugs devices at any time.  Time is in seconds.    *)
(***************************************************************************)
EXTENDS Naturals, Sequences

CONSTANTS
    Timeouts,    \* the timeouts on_connect may return, in whole seconds
    MaxDevices   \* bound: devices plugged at once

ASSUME HwAssumption ==
    /\ Timeouts \subseteq Nat /\ Timeouts # {}
    /\ MaxDevices \in Nat

VARIABLES
    pc,         \* "on_connect", "try", "sleep", "connected", "failed", "done"
    devices,    \* usb devices plugged
    timeout,    \* what on_connect returned
    clock,      \* seconds since the connect future started
    attempts,   \* try_to_connect calls made
    callbacks,  \* processor callbacks called, in order (history)
    result      \* "none", "Ok", or the error kind

vars == <<pc, devices, timeout, clock, attempts, callbacks, result>>

Callbacks == {"on_connect", "on_connected", "on_connection_failed"}

Results == {"none", "Ok", "ProcessorError", "FindDevices", "CannotChooseDevice",
            "Connect", "ConnectionTimedOut"}

TypeOK ==
    /\ pc \in {"on_connect", "try", "sleep", "connected", "failed", "done"}
    /\ devices \in 0..MaxDevices
    /\ timeout \in Timeouts \cup {0}
    /\ clock \in Nat
    /\ attempts \in Nat
    /\ callbacks \in Seq(Callbacks)
    /\ result \in Results

Init ==
    /\ pc = "on_connect"
    /\ devices \in 0..MaxDevices
    /\ timeout = 0
    /\ clock = 0
    /\ attempts = 0
    /\ callbacks = <<>>
    /\ result = "none"

(* The user plugs or unplugs a device.                                     *)
Replug ==
    /\ pc # "done"
    /\ \E n \in 0..MaxDevices : n # devices /\ devices' = n
    /\ UNCHANGED <<pc, timeout, clock, attempts, callbacks, result>>

(* processor.on_connect().await?                                            *)
OnConnect ==
    /\ pc = "on_connect"
    /\ callbacks' = Append(callbacks, "on_connect")
    /\ \/ \E t \in Timeouts : timeout' = t /\ pc' = "try" /\ UNCHANGED result
       \/ pc' = "done" /\ result' = "ProcessorError" /\ UNCHANGED timeout
    /\ UNCHANGED <<devices, clock, attempts>>

(* try_to_connect().await?: find_devices, the count checks, connect.       *)
TryToConnect ==
    /\ pc = "try"
    /\ attempts' = attempts + 1
    /\ \/ pc' = "failed" /\ result' = "FindDevices"
       \/ /\ devices = 0
          /\ pc' = "sleep" /\ UNCHANGED result
       \/ /\ devices > 1
          /\ pc' = "failed" /\ result' = "CannotChooseDevice"
       \/ /\ devices = 1
          /\ \/ pc' = "connected" /\ result' = "Ok"
             \/ pc' = "failed" /\ result' = "Connect"
    /\ UNCHANGED <<devices, timeout, clock, callbacks>>

(* Mutant: the deadline is checked one second late.                        *)
SleepDoneLate ==
    /\ pc = "sleep"
    /\ \/ clock + 1 <= timeout + 1 /\ clock' = clock + 1 /\ pc' = "try" /\ UNCHANGED result
       \/ /\ clock + 1 >= timeout + 1 /\ clock' = timeout + 1
          /\ pc' = "failed" /\ result' = "ConnectionTimedOut"
    /\ UNCHANGED <<devices, timeout, attempts, callbacks>>

(* Timer::sleep(1.) ends, or the timeout fires during it (the clock then  *)
(* reads the deadline); at the deadline itself either may come first.     *)
SleepDone ==
    /\ pc = "sleep"
    /\ \/ clock + 1 <= timeout /\ clock' = clock + 1 /\ pc' = "try" /\ UNCHANGED result
       \/ /\ clock + 1 >= timeout /\ clock' = timeout
          /\ pc' = "failed" /\ result' = "ConnectionTimedOut"
    /\ UNCHANGED <<devices, timeout, attempts, callbacks>>

(* Mutant: a failed connection skips processor.on_connection_failed().     *)
ConnectionFailedSilently ==
    /\ pc = "failed"
    /\ pc' = "done"
    /\ UNCHANGED <<devices, timeout, clock, attempts, callbacks, result>>

(* Ok(Ok(trezor)): processor.on_connected().await?                         *)
OnConnected ==
    /\ pc = "connected"
    /\ callbacks' = Append(callbacks, "on_connected")
    /\ pc' = "done"
    /\ \/ UNCHANGED result
       \/ result' = "ProcessorError"
    /\ UNCHANGED <<devices, timeout, clock, attempts>>

(* Ok(Err(_)) or Err(_timed_out): processor.on_connection_failed().await?  *)
OnConnectionFailed ==
    /\ pc = "failed"
    /\ callbacks' = Append(callbacks, "on_connection_failed")
    /\ pc' = "done"
    /\ \/ UNCHANGED result
       \/ result' = "ProcessorError"
    /\ UNCHANGED <<devices, timeout, clock, attempts>>

Next ==
    \/ Replug
    \/ OnConnect
    \/ TryToConnect
    \/ SleepDone
    \/ OnConnected
    \/ OnConnectionFailed

Spec == Init /\ [][Next]_vars

-----------------------------------------------------------------------------
(* Properties.                                                             *)

(* The processor hears of the end of every connection attempt it allowed:  *)
(* after a successful on_connect exactly one of on_connected and           *)
(* on_connection_failed is called, on_connected exactly when a device was  *)
(* connected; and a client is returned only after on_connected succeeded.  *)
CallbacksMatchOutcome ==
    pc = "done" =>
        \/ callbacks = <<"on_connect">> /\ result = "ProcessorError"
        \/ /\ callbacks = <<"on_connect", "on_connected">>
           /\ result \in {"Ok", "ProcessorError"}
        \/ /\ callbacks = <<"on_connect", "on_connection_failed">>
           /\ result # "Ok"

(* The connect loop never outlives the timeout: at most timeout + 1 device *)
(* scans are made, the last one at the deadline.                           *)
ScansWithinTimeout ==
    /\ clock <= timeout
    /\ attempts <= clock + 1

=============================================================================
