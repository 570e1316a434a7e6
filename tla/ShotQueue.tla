----------------------------- MODULE ShotQueue -----------------------------
(***************************************************************************)
(* What the bank pool promises to its user, whatever the banks, the DMA    *)
(* channel and the worker thread do: within one run, captured shots are    *)
(* numbered 1, 2, 3, ... and handed out one at a time, oldest first, each  *)
(* at most once; a shot that is handed out stays with the user until the   *)
(* user returns it or the run is closed; unread shots are dropped only all *)
(* together, and then the run produces and hands out nothing more.         *)
(***************************************************************************)
EXTENDS Integers, FiniteSets

CONSTANT MaxBanks

VARIABLES
  run,        \* number of the current run
  produced,   \* shots captured in this run
  available,  \* captured and not yet handed out
  lent        \* handed out and not yet returned

vars == <<run, produced, available, lent>>

Init == run = 0 /\ produced = 0 /\ available = {} /\ lent = {}

(* A new run starts only when no shot of the old one is outstanding. *)
Start ==
  /\ available = {} /\ lent = {}
  /\ run' = run + 1 /\ produced' = 0 /\ UNCHANGED <<available, lent>>

(* A shot is captured into a bank that is neither unread nor lent. *)
Produce ==
  /\ Cardinality(available) + Cardinality(lent) < MaxBanks
  /\ produced' = produced + 1
  /\ available' = available \cup {produced + 1}
  /\ UNCHANGED <<run, lent>>

Grant ==
  /\ \E s \in available :
       /\ \A t \in available : s <= t
       /\ available' = available \ {s}
       /\ lent' = lent \cup {s}
  /\ UNCHANGED <<run, produced>>

Return ==
  /\ \E s \in lent : lent' = lent \ {s}
  /\ UNCHANGED <<run, produced, available>>

(* STOP discards every unread shot. *)
Discard == available' = {} /\ UNCHANGED <<run, produced, lent>>

(* Close takes back what the user still holds as well. *)
Close == available' = {} /\ lent' = {} /\ produced' = 0 /\ UNCHANGED run

Next == Start \/ Produce \/ Grant \/ Return \/ Discard \/ Close

Spec == Init /\ [][Next]_vars
=============================================================================
