----------------------------- MODULE SimpleFSLock -----------------------------
(***************************************************************************)
(* SimpleFSLockFactory: the lock is the existence of a file, created with  *)
(* O_EXCL and removed by Close.  A crash leaves the file, and somebody has *)
(* to remove it by hand when no writer is running.                         *)
(*                                                                         *)
(* A file is told from the next one by its modification time: its stamp.   *)
(***************************************************************************)
EXTENDS Naturals

CONSTANTS
  Writers,     \* goroutines, each in a process of its own
  MaxStamp     \* bound: files created

VARIABLES
  file,        \* the stamp of the lock file; 0 when there is none
  clock,       \* the last stamp given
  modTime,     \* writer -> the stamp its lock recorded
  pc           \* writer -> its step

vars == <<file, clock, modTime, pc>>

Init ==
  /\ file = 0 /\ clock = 0
  /\ modTime = [w \in Writers |-> 0] /\ pc = [w \in Writers |-> "idle"]

Step(w, from, to) == pc[w] = from /\ pc' = [pc EXCEPT ![w] = to]

\* Mutant: a file that exists is opened.
MutantCreateShared(w) ==
  /\ clock < MaxStamp /\ Step(w, "idle", "created")
  /\ clock' = clock + 1 /\ file' = (IF file = 0 THEN clock' ELSE file) /\ UNCHANGED modTime

\* O_CREATE|O_EXCL: fails when the file exists.
Create(w) ==
  /\ file = 0 /\ clock < MaxStamp /\ Step(w, "idle", "created")
  /\ clock' = clock + 1 /\ file' = clock' /\ UNCHANGED modTime

\* The time of the file is read, and ObtainLock returns.
Stat(w) ==
  /\ file # 0 /\ Step(w, "created", "held")
  /\ modTime' = [modTime EXCEPT ![w] = file] /\ UNCHANGED <<file, clock>>

\* Closing the handle or reading the time fails: the file stays.
StatFails(w) == Step(w, "created", "idle") /\ UNCHANGED <<file, clock, modTime>>

\* Close compares the time first, and leaves a file that is not its own.
Close(w) ==
  /\ IF file = modTime[w] THEN Step(w, "held", "remove") ELSE Step(w, "held", "idle")
  /\ UNCHANGED <<file, clock, modTime>>

Remove(w) == Step(w, "remove", "idle") /\ file' = 0 /\ UNCHANGED <<clock, modTime>>

Crash(w) ==
  /\ pc' = [pc EXCEPT ![w] = "idle"] /\ UNCHANGED <<file, clock, modTime>>

RemoveByHand ==
  /\ file # 0 /\ \A w \in Writers : pc[w] = "idle"
  /\ file' = 0 /\ UNCHANGED <<clock, modTime, pc>>

Next ==
  \/ RemoveByHand
  \/ \E w \in Writers :
       Create(w) \/ Stat(w) \/ StatFails(w) \/ Close(w) \/ Remove(w) \/ Crash(w)

Spec == Init /\ [][Next]_vars

-----------------------------------------------------------------------------
\* Types of the state.
TypeOK ==
  /\ clock \in 0 .. MaxStamp /\ file \in 0 .. clock
  /\ modTime \in [Writers -> 0 .. clock]
  /\ pc \in [Writers -> {"idle", "created", "held", "remove"}]

\* EnsureValid accepts the lock of a holder, and Close removes no file but its
\* own, however many files came and went before.
HolderIsValid == \A w \in Writers : pc[w] \in {"held", "remove"} => file = modTime[w] /\ file # 0

Abstract == INSTANCE WriteLock WITH holders <- {w \in Writers : pc[w] = "held"}

\* The factory implements the lock IndexWriter relies on.
OneHolder == Abstract!Spec
=============================================================================
