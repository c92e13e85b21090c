---------------------------- MODULE SearcherManager ----------------------------
(***************************************************************************)
(* SearcherManager over index.ReferenceManager: goroutines acquire, use    *)
(* and release the current searcher, others refresh it and one closes the  *)
(* manager.                                                                *)
(*                                                                         *)
(* A searcher stands for its DirectoryReader, whose references are those   *)
(* of its segment cores: a count that never rises again once it reached    *)
(* zero, where the cores are closed.  Readers are numbered as they are     *)
(* opened; version[r] is the commit r reads.                               *)
(***************************************************************************)
EXTENDS Integers, FiniteSets, Functions, FiniteSetsExt

CONSTANTS
  Searchers,     \* goroutines that acquire and release
  Refreshers,    \* goroutines that call MaybeRefresh
  None,          \* no reader
  MaxReaders,    \* bound: readers opened after the first
  MaxCommits     \* bound: commits after the one the first reader reads

ASSUME BoundAssumption == MaxReaders \in Nat /\ MaxCommits \in Nat
ASSUME FiniteAssumption == IsFiniteSet(Searchers) /\ IsFiniteSet(Refreshers)

Readers == 0 .. MaxReaders

ASSUME NoneAssumption == None \notin Readers

VARIABLES
  refs,       \* reader -> reference count; 0 before it is opened
  opened,     \* readers opened so far
  version,    \* reader -> the commit it reads
  commits,    \* the last commit of the index
  current,    \* ReferenceManager.current
  closed,     \* ReferenceManager.closed
  atClose,    \* history: the reader whose reference Close has given up
  hold,       \* searcher goroutine -> the reader it acquired
  pc,         \* refresher -> its step in MaybeRefresh
  want,       \* refresher -> the commit it refreshes to
  mine        \* refresher -> the reader it opened, then the one it swapped out

manager == <<refs, opened, version, commits, current, closed, atClose>>
refreshing == <<pc, want, mine>>
vars == <<manager, hold, refreshing>>

Init ==
  /\ refs = [r \in Readers |-> IF r = 0 THEN 1 ELSE 0]
  /\ opened = {0} /\ version = [r \in Readers |-> 0] /\ commits = 0
  /\ current = 0 /\ closed = FALSE /\ atClose = None
  /\ hold = [s \in Searchers |-> None]
  /\ pc = [p \in Refreshers |-> "idle"]
  /\ want = [p \in Refreshers |-> 0] /\ mine = [p \in Refreshers |-> None]

\* The index gets a new commit.
Commit ==
  /\ commits < MaxCommits /\ commits' = commits + 1
  /\ UNCHANGED <<refs, opened, version, current, closed, atClose, hold, refreshing>>

-----------------------------------------------------------------------------
(* ReferenceManager *)

\* IncRef fails on closed cores; acquireFunc does not look at its error.
IncRef(r) == [refs EXCEPT ![r] = IF @ > 0 THEN @ + 1 ELSE @]
DecRef(r) == [refs EXCEPT ![r] = @ - 1]

Acquire(s) ==
  /\ ~closed /\ hold[s] = None
  /\ hold' = [hold EXCEPT ![s] = current] /\ refs' = IncRef(current)
  /\ UNCHANGED <<opened, version, commits, current, closed, atClose, refreshing>>

Release(s) ==
  /\ hold[s] # None
  /\ hold' = [hold EXCEPT ![s] = None] /\ refs' = DecRef(hold[s])
  /\ UNCHANGED <<opened, version, commits, current, closed, atClose, refreshing>>

\* Close releases the manager's reference, whoever is refreshing; current
\* stays.
Close ==
  /\ ~closed
  /\ closed' = TRUE /\ refs' = DecRef(current) /\ atClose' = current
  /\ UNCHANGED <<opened, version, commits, current, hold, refreshing>>

-----------------------------------------------------------------------------
(* SearcherManager.MaybeRefresh *)

Goto(p, step) == pc' = [pc EXCEPT ![p] = step]

\* GetCurrent takes no reference and does not look at closed.  The supplier
\* names a commit; when it names none, or fails, MaybeRefresh ends there.
Supply(p) ==
  /\ pc[p] = "idle"
  /\ want' = [want EXCEPT ![p] = commits] /\ Goto(p, "open")
  /\ UNCHANGED <<manager, hold, mine>>

\* ReopenFromCommit opens a reader of that commit, with one reference.
Reopen(p) ==
  /\ pc[p] = "open" /\ Cardinality(opened) <= MaxReaders
  /\ LET r == Cardinality(opened)
     IN  /\ opened' = opened \cup {r} /\ refs' = [refs EXCEPT ![r] = 1]
         /\ version' = [version EXCEPT ![r] = want[p]]
         /\ mine' = [mine EXCEPT ![p] = r]
  /\ Goto(p, "searcher")
  /\ UNCHANGED <<commits, current, closed, atClose, hold, want>>

ReopenFails(p) ==
  /\ pc[p] = "open" /\ Goto(p, "idle")
  /\ UNCHANGED <<manager, hold, want, mine>>

\* GetSearcher
NewSearcher(p) ==
  /\ pc[p] = "searcher" /\ Goto(p, "swap")
  /\ UNCHANGED <<manager, hold, want, mine>>

\* The factory fails: GetSearcher drops the reader, and so does MaybeRefresh.
NewSearcherFails(p) ==
  /\ pc[p] = "searcher" /\ Goto(p, "idle")
  /\ refs' = [refs EXCEPT ![mine[p]] = @ - 2]
  /\ mine' = [mine EXCEPT ![p] = None]
  /\ UNCHANGED <<opened, version, commits, current, closed, atClose, hold, want>>

\* Mutant: the reader swapped out is not released.
MutantSwapForgets(p) ==
  /\ pc[p] = "swap" /\ Goto(p, "idle")
  /\ current' = mine[p] /\ mine' = [mine EXCEPT ![p] = None]
  /\ UNCHANGED <<refs, opened, version, commits, closed, atClose, hold, want>>

\* Swap does not look at closed.
Swap(p) ==
  /\ pc[p] = "swap" /\ Goto(p, "release")
  /\ current' = mine[p] /\ mine' = [mine EXCEPT ![p] = current]
  /\ UNCHANGED <<refs, opened, version, commits, closed, atClose, hold, want>>

ReleaseOld(p) ==
  /\ pc[p] = "release" /\ Goto(p, "idle")
  /\ refs' = DecRef(mine[p]) /\ mine' = [mine EXCEPT ![p] = None]
  /\ UNCHANGED <<opened, version, commits, current, closed, atClose, hold, want>>

MaybeRefresh(p) ==
  \/ Supply(p) \/ Reopen(p) \/ ReopenFails(p)
  \/ NewSearcher(p) \/ NewSearcherFails(p) \/ Swap(p) \/ ReleaseOld(p)

Next ==
  \/ Commit \/ Close
  \/ \E s \in Searchers : Acquire(s) \/ Release(s)
  \/ \E p \in Refreshers : MaybeRefresh(p)

Spec == Init /\ [][Next]_vars

-----------------------------------------------------------------------------
\* Types of the state.
TypeOK ==
  /\ refs \in [Readers -> Int] /\ opened \in SUBSET Readers
  /\ version \in [Readers -> 0 .. MaxCommits] /\ commits \in 0 .. MaxCommits
  /\ current \in opened /\ closed \in BOOLEAN
  /\ atClose \in opened \cup {None} /\ (closed <=> atClose # None)
  /\ hold \in [Searchers -> opened \cup {None}]
  /\ pc \in [Refreshers -> {"idle", "open", "searcher", "swap", "release"}]
  /\ want \in [Refreshers -> 0 .. MaxCommits]
  /\ mine \in [Refreshers -> opened \cup {None}]
  /\ \A p \in Refreshers : mine[p] = None <=> pc[p] \in {"idle", "open"}

\* Who relies on a reader: the goroutines between Acquire and Release, the
\* refreshes that opened it or swapped it out and have not yet let go of it,
\* and the manager, whose current reader it is.
Owners(r) ==
  Cardinality({s \in Searchers : hold[s] = r})
  + Cardinality({p \in Refreshers : mine[p] = r})
  + (IF r = current THEN 1 ELSE 0)

\* The references that are left for them: Close gives one up on behalf of the
\* manager, and a refresh that swaps that reader out releases it once more.
Due(r) == Owners(r) - (IF r = atClose THEN 1 ELSE 0)

\* A searcher somebody acquired is not closed before it is released, whatever
\* refreshes meanwhile: except the one Close has released, and that only once
\* a refresh, under way at Close or begun later, has put another in its place.
HeldIsOpen ==
  \A s \in Searchers :
    hold[s] # None /\ refs[hold[s]] <= 0 => hold[s] = atClose /\ current # atClose

\* No reader leaks and none is closed early: a reader is open exactly as long
\* as a reference to it is due (a reader whose searcher could not be made has
\* none), before, during and after Close.
ClosedWhenUnowned ==
  \A r \in opened : Due(r) > 0 \/ refs[r] > 0 => refs[r] = Due(r)

\* The state has its type, a searcher in use is open, and a reader is closed
\* when its last owner lets it go.
OpenIffOwned == TypeOK /\ HeldIsOpen /\ ClosedWhenUnowned

-----------------------------------------------------------------------------
(* What comments and tests of the code say and the code does not do: TLC   *)
(* reports each of these violated, with the constants README.md gives.     *)

\* A searcher is safe to use until it is released, and a closed manager keeps
\* no reader open.
HeldStaysOpen == \A s \in Searchers : hold[s] # None => refs[hold[s]] > 0
ClosedKeepsNone ==
  closed /\ (\A s \in Searchers : hold[s] = None) /\ (\A p \in Refreshers : mine[p] = None)
    => \A r \in opened : refs[r] <= 0

\* A refresh replaces the current reader only when the index has changed: by
\* a reader of a later commit.
RefreshOnlyIfNeeded == [][current' # current => version'[current'] > version[current]]_vars
=============================================================================
