---------------------------- MODULE SnapshotPolicy ----------------------------
(***************************************************************************)
(* SnapshotDeletionPolicy and PersistentSnapshotDeletionPolicy: snapshots  *)
(* of commits taken and released by several goroutines, the file each of   *)
(* them saves, commits of the writer, and crashes with a restart that      *)
(* loads the newest file.                                                  *)
(*                                                                         *)
(* A commit is its generation.  A snapshots file is its timestamp and the  *)
(* generations it lists; it lists none until it has been written.  The     *)
(* application remembers the snapshots it was given across a crash.        *)
(***************************************************************************)
EXTENDS Integers, FiniteSets

CONSTANTS
  Procs,         \* goroutines of the application
  Nobody,        \* no goroutine
  Primary,       \* "all" or "last": KeepAll or KeepOnlyLastCommitDeletionPolicy
  MaxCommits, MaxFiles, MaxCrashes,   \* bounds
  MaxRefs,       \* bound: snapshots of one commit at a time
  SaveFaults     \* TRUE: a save may fail, or be cut off by the crash, half-way

Gens == 1 .. MaxCommits

VARIABLES
  commits,       \* disk: the generations of the commits
  files,         \* disk: timestamp -> generations, of the snapshots files
  clock,         \* the last timestamp used
  up,            \* the policy is in use by a writer
  last,          \* lastCommit; 0 when there is none
  refCounts,     \* refCounts
  indexCommits,  \* indexCommits: generation -> the generation of its commit, 0: none
  lastSave,      \* lastSaveFile; 0 when there is none
  writer,        \* the writer: "idle", or "stuck" in OnInit or OnCommit with mu held
  saver,         \* psdp.mu: who saves
  pc, op, gen,   \* goroutine -> its step, its operation and the generation of it
  snaps,         \* goroutine -> the generations it is going to write
  held,          \* history: generation -> snapshots the application was given
  crashes        \* history: crashes so far

disk == <<commits, files, clock>>
policy == <<last, refCounts, indexCommits, lastSave>>
procs == <<pc, op, gen, snaps>>
vars == <<disk, up, policy, writer, saver, procs, held, crashes>>

NoCounts == [g \in Gens |-> 0]
Quiet == [p \in Procs |-> "idle"]

Init ==
  /\ commits = {} /\ files = [t \in {} |-> {}] /\ clock = 0
  /\ up = TRUE /\ last = 0 /\ refCounts = NoCounts /\ indexCommits = NoCounts
  /\ lastSave = 0 /\ writer = "idle" /\ saver = Nobody
  /\ pc = Quiet /\ op = [p \in Procs |-> "none"] /\ gen = [p \in Procs |-> 0]
  /\ snaps = [p \in Procs |-> {}]
  /\ held = NoCounts /\ crashes = 0

-----------------------------------------------------------------------------
(* The writer *)

\* The primary policy deletes old commits through snapshotCommitPoint.Delete,
\* which locks the mutex OnCommit and OnInit hold.
Deletes(list) == Primary = "last" /\ Cardinality(list) > 1

Commit ==
  /\ up /\ writer = "idle" /\ Cardinality(commits) < MaxCommits
  /\ LET g == Cardinality(commits) + 1
     IN  /\ commits' = commits \cup {g}
         /\ IF Deletes(commits')
            THEN writer' = "stuck" /\ UNCHANGED last
            ELSE last' = g /\ UNCHANGED writer
  /\ UNCHANGED <<files, clock, up, refCounts, indexCommits, lastSave, saver, procs, held, crashes>>

-----------------------------------------------------------------------------
(* Snapshot and Release *)

IncRef(g) ==
  /\ refCounts' = [refCounts EXCEPT ![g] = @ + 1]
  /\ indexCommits' = [indexCommits EXCEPT ![g] = last]

\* releaseGen
DropRef(g) ==
  /\ refCounts[g] > 0
  /\ refCounts' = [refCounts EXCEPT ![g] = @ - 1]
  /\ indexCommits' = IF refCounts[g] = 1 THEN [indexCommits EXCEPT ![g] = 0] ELSE indexCommits

Start(p, o, g) ==
  /\ up /\ writer = "idle" /\ pc[p] = "idle"
  /\ pc' = [pc EXCEPT ![p] = "save"]
  /\ op' = [op EXCEPT ![p] = o] /\ gen' = [gen EXCEPT ![p] = g]
  /\ UNCHANGED <<disk, up, last, lastSave, writer, saver, snaps, crashes>>

\* Mutant: the application is given the snapshot before it is saved.
MutantSnapshotEarly(p) ==
  /\ last # 0 /\ refCounts[last] < MaxRefs /\ Start(p, "snapshot", last)
  /\ IncRef(last) /\ held' = [held EXCEPT ![last] = @ + 1]

Snapshot(p) ==
  /\ last # 0 /\ refCounts[last] < MaxRefs /\ Start(p, "snapshot", last)
  /\ IncRef(last) /\ UNCHANGED held

\* Release(commit) and ReleaseGen(generation) differ in what they do when the
\* release cannot be saved.
Release(p, o, g) ==
  /\ held[g] > 0 /\ Start(p, o, g) /\ DropRef(g)
  /\ held' = [held EXCEPT ![g] = @ - 1]

-----------------------------------------------------------------------------
(* saveSnapshots *)

Step(p, to) == pc' = [pc EXCEPT ![p] = to]

\* psdp.mu is taken, GetSnapshots read, and the file created.
Create(p) ==
  /\ pc[p] = "save" /\ saver = Nobody /\ writer = "idle" /\ clock < MaxFiles
  /\ saver' = p /\ clock' = clock + 1
  /\ files' = [t \in DOMAIN files \cup {clock'} |-> IF t = clock' THEN {} ELSE files[t]]
  /\ snaps' = [snaps EXCEPT ![p] = {indexCommits[g] : g \in Gens} \ {0}]
  /\ Step(p, "write")
  /\ UNCHANGED <<commits, up, policy, writer, op, gen, held, crashes>>

CreateFails(p) ==
  /\ SaveFaults /\ pc[p] = "save" /\ saver = Nobody /\ writer = "idle"
  /\ Step(p, "undo")
  /\ UNCHANGED <<disk, up, policy, writer, saver, op, gen, snaps, held, crashes>>

Write(p) ==
  /\ pc[p] = "write" /\ files' = [files EXCEPT ![clock] = snaps[p]] /\ Step(p, "clean")
  /\ UNCHANGED <<commits, clock, up, policy, writer, saver, op, gen, snaps, held, crashes>>

WriteFails(p) ==
  /\ SaveFaults /\ pc[p] = "write" /\ saver' = Nobody /\ Step(p, "undo")
  /\ UNCHANGED <<disk, up, policy, writer, op, gen, snaps, held, crashes>>

\* The old file goes, and the operation returns.
Clean(p) ==
  /\ pc[p] = "clean" /\ saver' = Nobody /\ Step(p, "idle")
  /\ files' = [t \in DOMAIN files \ {lastSave} |-> files[t]] /\ lastSave' = clock
  /\ held' = IF op[p] = "snapshot" THEN [held EXCEPT ![gen[p]] = @ + 1] ELSE held
  /\ UNCHANGED <<commits, clock, up, last, refCounts, indexCommits, writer, op, gen, snaps, crashes>>

\* The save failed: a snapshot is dropped, a release of a commit taken back,
\* a release of a generation left as it is.
Undo(p) ==
  /\ pc[p] = "undo" /\ writer = "idle" /\ Step(p, "idle")
  /\ \/ op[p] = "snapshot" /\ DropRef(gen[p]) /\ UNCHANGED held
     \/ op[p] = "release" /\ IncRef(gen[p]) /\ held' = [held EXCEPT ![gen[p]] = @ + 1]
     \/ op[p] = "releaseGen" /\ UNCHANGED <<refCounts, indexCommits, held>>
  /\ UNCHANGED <<disk, up, last, lastSave, writer, saver, op, gen, snaps, crashes>>

-----------------------------------------------------------------------------
(* Crash and restart *)

Crash ==
  /\ up /\ crashes < MaxCrashes /\ (SaveFaults \/ \A p \in Procs : pc[p] # "write")
  /\ up' = FALSE /\ crashes' = crashes + 1
  /\ pc' = Quiet /\ saver' = Nobody /\ writer' = "idle"
  /\ UNCHANGED <<disk, policy, op, gen, snaps, held>>

Newest ==
  IF DOMAIN files = {} THEN 0 ELSE CHOOSE t \in DOMAIN files : \A u \in DOMAIN files : u <= t

\* loadSnapshots takes the newest file; OnInit pins what it lists, after the
\* primary policy has had its turn.
Loaded == IF Newest = 0 THEN {} ELSE files[Newest] \cap commits

Open ==
  /\ ~up /\ up' = TRUE /\ lastSave' = Newest
  /\ IF Deletes(commits)
     THEN writer' = "stuck" /\ last' = 0 /\ refCounts' = NoCounts /\ indexCommits' = NoCounts
     ELSE /\ last' = Cardinality(commits) /\ UNCHANGED writer
          /\ refCounts' = [g \in Gens |-> IF g \in Loaded THEN 1 ELSE 0]
          /\ indexCommits' = [g \in Gens |-> IF g \in Loaded THEN g ELSE 0]
  /\ UNCHANGED <<disk, saver, procs, held, crashes>>

Proc(p) == Create(p) \/ CreateFails(p) \/ Write(p) \/ WriteFails(p) \/ Clean(p) \/ Undo(p)

Next ==
  \/ Commit \/ Crash \/ Open
  \/ \E p \in Procs :
       \/ Snapshot(p) \/ Proc(p)
       \/ \E g \in Gens, o \in {"release", "releaseGen"} : Release(p, o, g)

Spec == Init /\ [][Next]_vars
FairSpec == Spec /\ \A p \in Procs : WF_vars(Proc(p))

-----------------------------------------------------------------------------
\* Types of the state; one goroutine saves at a time, in the newest file.
TypeOK ==
  /\ commits \subseteq Gens /\ DOMAIN files \subseteq 1 .. clock /\ clock \in 0 .. MaxFiles
  /\ last \in Gens \cup {0} /\ refCounts \in [Gens -> Nat]
  /\ indexCommits \in [Gens -> Gens \cup {0}]
  /\ \A p \in Procs : pc[p] \in {"write", "clean"} => saver = p /\ clock \in DOMAIN files

\* Until the first crash the count of a commit is the number of snapshots the
\* application holds or is about to be given, however many goroutines take and
\* release them and whichever saves fail.
RefCountsExact ==
  crashes = 0 /\ writer = "idle" =>
    \A g \in Gens :
      refCounts[g] = held[g] + Cardinality({p \in Procs : op[p] = "snapshot" /\ gen[p] = g /\ pc[p] # "idle"})

\* A snapshot the application was given stays pinned, across crashes too.
SnapshotsSurvive ==
  up /\ writer = "idle" => \A g \in Gens : held[g] > 0 => refCounts[g] > 0

\* When no operation is under way, a restart would find exactly the commits
\* pinned now: the newest file lists them.
SavedIsPinned ==
  up /\ writer = "idle" /\ pc = Quiet => Loaded = {g \in Gens : refCounts[g] > 0}

-----------------------------------------------------------------------------
(* What comments and tests of the code say and the code does not do: TLC   *)
(* reports each of these violated, with the constants README.md gives.     *)

\* indexCommits leads from a generation to the commit of that generation.
CommitOfGeneration == \A g \in Gens : indexCommits[g] \in {0, g}

\* OnCommit and OnInit return: the writer is not stuck for ever.
PolicyReturns == writer = "stuck" ~> writer = "idle"
=============================================================================
