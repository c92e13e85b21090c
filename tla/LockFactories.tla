----------------------------- MODULE LockFactories -----------------------------
(***************************************************************************)
(* The two lock factories that IndexWriter may be given, side by side.     *)
(* They share no state.                                                    *)
(***************************************************************************)
EXTENDS Naturals

CONSTANTS
  Writers,            \* goroutines that lock with NativeFSLockFactory
  Processes,
  ProcessOf,          \* writer -> its process
  None,
  SimpleWriters,      \* goroutines that lock with SimpleFSLockFactory
  MaxStamp            \* bound: lock files created by it

ASSUME ProcessAssumption == ProcessOf \in [Writers -> Processes]
ASSUME WriterAssumption == None \notin Writers
ASSUME StampAssumption == MaxStamp \in Nat

VARIABLES
  lockHeld, flock, npc,            \* NativeFSLock
  file, clock, modTime, fpc        \* SimpleFSLock

native == <<lockHeld, flock, npc>>
simple == <<file, clock, modTime, fpc>>

Native == INSTANCE NativeFSLock WITH pc <- npc
Simple == INSTANCE SimpleFSLock WITH Writers <- SimpleWriters, pc <- fpc

FactoriesInit == Native!Init /\ Simple!Init

FactoriesNext ==
  \/ Native!Next /\ UNCHANGED simple
  \/ Simple!Next /\ UNCHANGED native

Factories == FactoriesInit /\ [][FactoriesNext]_<<native, simple>>

-----------------------------------------------------------------------------
\* The lock of a holder stays valid, a failed attempt and a crash leave nothing
\* locked, and the file of a holder is the one it created: Close removes no
\* other (NativeFSLockFactory, SimpleFSLockFactory).
LocksValid ==
  /\ Native!TypeOK /\ Native!HolderIsValid /\ Native!NothingLeft
  /\ Simple!TypeOK /\ Simple!HolderIsValid

\* Both factories implement the lock IndexWriter relies on: one holder among
\* all goroutines of all processes.
LocksExclude == Native!OneHolder /\ Simple!OneHolder
=============================================================================
