----------------------------- MODULE NativeFSLock -----------------------------
(***************************************************************************)
(* NativeFSLockFactory on Unix: goroutines of several processes obtain and *)
(* close the lock on one file.  A process keeps the registry lockHeld, the *)
(* kernel the lock of an open file description; a crash of a process takes *)
(* both with it.                                                           *)
(***************************************************************************)
EXTENDS Naturals

CONSTANTS
  Writers,      \* goroutines
  Processes,
  ProcessOf,    \* writer -> its process
  None

VARIABLES
  lockHeld,     \* process -> its registry has the path
  flock,        \* the writer whose file description has the lock
  pc            \* writer -> its step

vars == <<lockHeld, flock, pc>>

Init ==
  /\ lockHeld = [p \in Processes |-> FALSE] /\ flock = None
  /\ pc = [w \in Writers |-> "idle"]

Step(w, from, to) == pc[w] = from /\ pc' = [pc EXCEPT ![w] = to]

Registry(w, b) == lockHeld' = [lockHeld EXCEPT ![ProcessOf[w]] = b]

\* The lock file is opened, and created if need be.
OpenFile(w) == Step(w, "idle", "opened") /\ UNCHANGED <<lockHeld, flock>>

\* Mutant: the loser clears the registry like every other error path.
MutantRegisterClears(w) ==
  /\ IF lockHeld[ProcessOf[w]]
     THEN Step(w, "opened", "idle") /\ Registry(w, FALSE)
     ELSE Step(w, "opened", "registered") /\ Registry(w, TRUE)
  /\ UNCHANGED flock

\* LoadOrStore: the registry has the path already, or has it now.
Register(w) ==
  /\ IF lockHeld[ProcessOf[w]]
     THEN Step(w, "opened", "idle") /\ UNCHANGED lockHeld
     ELSE Step(w, "opened", "registered") /\ Registry(w, TRUE)
  /\ UNCHANGED flock

\* F_OFD_SETLK
Lock(w) ==
  /\ flock = None
  /\ Step(w, "registered", "held") /\ flock' = w /\ UNCHANGED lockHeld

\* The lock is held elsewhere, or the file cannot be read: the file is closed
\* and the path taken out of the registry.
LockFails(w) ==
  /\ Step(w, "registered", "idle") /\ Registry(w, FALSE) /\ UNCHANGED flock

\* Close: closed is set, the lock released, then the registry cleared.
Close(w) == Step(w, "held", "closing") /\ UNCHANGED <<lockHeld, flock>>

Unlock(w) ==
  /\ Step(w, "closing", "unlocked") /\ flock' = None /\ UNCHANGED lockHeld

Unregister(w) ==
  /\ Step(w, "unlocked", "idle") /\ Registry(w, FALSE) /\ UNCHANGED flock

Crash(p) ==
  /\ lockHeld' = [lockHeld EXCEPT ![p] = FALSE]
  /\ flock' = IF flock # None /\ ProcessOf[flock] = p THEN None ELSE flock
  /\ pc' = [w \in Writers |-> IF ProcessOf[w] = p THEN "idle" ELSE pc[w]]

Closing(w) == Unlock(w) \/ Unregister(w)
Obtaining(w) == Register(w) \/ Lock(w) \/ LockFails(w)

Next ==
  \/ \E w \in Writers : OpenFile(w) \/ Obtaining(w) \/ Close(w) \/ Closing(w)
  \/ \E p \in Processes : Crash(p)

Spec == Init /\ [][Next]_vars

-----------------------------------------------------------------------------
\* Types of the state.
TypeOK ==
  /\ lockHeld \in [Processes -> BOOLEAN] /\ flock \in Writers \cup {None}
  /\ pc \in [Writers -> {"idle", "opened", "registered", "held", "closing", "unlocked"}]

\* EnsureValid accepts the lock as long as its holder has not closed it: no
\* goroutine that fails to obtain it takes the path out of the registry.
HolderIsValid == \A w \in Writers : pc[w] = "held" => lockHeld[ProcessOf[w]]

\* Nothing is left behind: a process none of whose goroutines obtains, holds
\* or closes the lock can obtain it, and a dead holder does not keep it.
NothingLeft ==
  /\ \A p \in Processes :
       lockHeld[p] => \E w \in Writers : ProcessOf[w] = p /\ pc[w] \notin {"idle", "opened"}
  /\ flock # None => pc[flock] \in {"held", "closing"}

Abstract == INSTANCE WriteLock WITH holders <- {w \in Writers : pc[w] = "held"}

\* The factory implements the lock IndexWriter relies on.
OneHolder == Abstract!Spec
=============================================================================
