------------------------------- MODULE WriteLock -------------------------------
(***************************************************************************)
(* What IndexWriter relies on when it obtains write.lock: one holder at a  *)
(* time, among the goroutines of all processes.  A lock is given back by   *)
(* its holder, or with the process of its holder.                          *)
(***************************************************************************)
CONSTANT Writers     \* goroutines that open an IndexWriter

VARIABLE holders     \* the writers whose ObtainLock returned a lock

Init == holders = {}

ObtainLock(w) == holders = {} /\ holders' = {w}

GiveBack == holders' = {}

Next == GiveBack \/ \E w \in Writers : ObtainLock(w)

Spec == Init /\ [][Next]_holders
=============================================================================
