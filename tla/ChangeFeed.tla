------------------------------ MODULE ChangeFeed ------------------------------
(***************************************************************************)
(* What a change-streamer promises: transactions are stored in upstream's  *)
(* order, upstream is acknowledged for what is stored only, and each       *)
(* replica applies every transaction in that order, none left out and none *)
(* applied twice.  A replica may be ahead of the change DB, because changes *)
(* are forwarded without waiting for the storer.                           *)
(***************************************************************************)
EXTENDS Integers

CONSTANTS Subs, MaxTx

VARIABLES stored, acked, applied
feedVars == <<stored, acked, applied>>

Init == stored = 0 /\ acked = 0 /\ applied = [s \in Subs |-> 0]

Store == stored < MaxTx /\ stored' = stored + 1 /\ UNCHANGED <<acked, applied>>

Acknowledge ==
  /\ \E w \in acked + 1 .. stored : acked' = w
  /\ UNCHANGED <<stored, applied>>

Apply(s) ==
  /\ applied[s] < MaxTx
  /\ applied' = [applied EXCEPT ![s] = @ + 1]
  /\ UNCHANGED <<stored, acked>>

Next == Store \/ Acknowledge \/ \E s \in Subs : Apply(s)

Spec == Init /\ [][Next]_feedVars
=============================================================================
