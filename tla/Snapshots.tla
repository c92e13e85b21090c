------------------------------ MODULE Snapshots ------------------------------
(***************************************************************************)
(* PersistentSnapshotDeletionPolicy in careful use and with faults.        *)
(* Careful means that no commit is snapshotted twice at a time, that no    *)
(* save fails, and that no crash falls between the creation of a snapshots *)
(* file and its contents: the policy survives a restart only then.         *)
(***************************************************************************)
EXTENDS Integers, FiniteSets

CONSTANTS
  Takers,             \* goroutines that take and release snapshots
  Nobody,             \* no goroutine
  Primary,            \* the policy below: "all" or "last"
  MaxCommits, MaxFiles, MaxRefs, MaxRestarts, MaxFaultyRestarts    \* bounds

ASSUME TakerAssumption == Nobody \notin Takers
ASSUME SnapshotBounds ==
  /\ MaxCommits \in Nat /\ MaxFiles \in Nat
  /\ MaxRefs \in Nat /\ MaxRestarts \in Nat /\ MaxFaultyRestarts \in Nat

VARIABLES
  careful,            \* the use is careful, from the first state on
  commits, files, time, up, last, refCounts, indexCommits, lastSave,
  writer, saver, spc, op, gen, snaps, held, crashes      \* SnapshotPolicy

snapshots == <<commits, files, time, up, last, refCounts, indexCommits, lastSave,
               writer, saver, spc, op, gen, snaps, held, crashes>>

Policy == INSTANCE SnapshotPolicy WITH
  Procs <- Takers, MaxCrashes <- MaxRestarts, SaveFaults <- TRUE,
  clock <- time, pc <- spc

\* A step of careful use.
CarefulStep ==
  /\ \A g \in Policy!Gens : refCounts'[g] <= 1
  /\ \A p \in Takers : spc'[p] # "undo"
  /\ crashes' # crashes => \A p \in Takers : spc[p] # "write"

SnapshotsInit == careful \in BOOLEAN /\ Policy!Init

SnapshotsNext ==
  /\ Policy!Next /\ UNCHANGED careful
  /\ IF careful THEN CarefulStep ELSE crashes' <= MaxFaultyRestarts

SnapshotsSpec == SnapshotsInit /\ [][SnapshotsNext]_<<careful, snapshots>>

-----------------------------------------------------------------------------
\* In careful use a snapshot the application was given is pinned, after a
\* restart too, and with no operation under way the newest snapshots file
\* lists exactly the pinned commits; in any use, until the first restart, the
\* counts are those of the snapshots handed out, whichever saves fail and are
\* undone (PersistentSnapshotDeletionPolicy).
SnapshotsHeld ==
  /\ Policy!TypeOK
  /\ careful => Policy!SnapshotsSurvive /\ Policy!SavedIsPinned
  /\ Policy!RefCountsExact
=============================================================================
