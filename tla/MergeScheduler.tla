---------------------------- MODULE MergeScheduler ----------------------------
(***************************************************************************)
(* ConcurrentMergeScheduler: Merge and MergeWithSpec called by goroutines  *)
(* of the writer, one merge thread per merge, the limits on threads and    *)
(* merges, Close and AbortAll.                                             *)
(*                                                                         *)
(* A merge thread calls MergeInternal again when its merge is over, so the *)
(* steps of MergeInternal are taken by actors: callers and threads.  A     *)
(* thread is named by its merge.  The conditions of sync.Cond are checked  *)
(* and waited for in separate steps only where the code releases the mutex *)
(* in between (maybeStall and doStall).                                    *)
(***************************************************************************)
EXTENDS Integers, Sequences, FiniteSets, SequencesExt

CONSTANTS
  Callers,        \* goroutines that call the scheduler
  Offered,        \* merges the writer offers through MergeSource.GetNextMerge
  Given,          \* merges passed to MergeWithSpec
  NoMerge,        \* no merge: nil
  MaxThreads,     \* maxThreadCount
  MaxMerges,      \* maxMergeCount
  Closes          \* TRUE: the writer closes the scheduler

Merges == Offered \cup Given
Actors == Callers \cup Merges

VARIABLES
  offer,      \* merges MergeSource still holds
  specs,      \* merges no call of MergeWithSpec has brought yet
  pending,    \* pendingMerges
  threads,    \* mergeThreads
  wait,       \* runningMerges, the WaitGroup: the threads it counts
  running,    \* BaseMergeScheduler.runningMerges: the threads it counts
  cancelled,  \* ctx is cancelled
  closed,     \* BaseMergeScheduler.closed
  pc,         \* actor -> the step it is at
  hand,       \* actor -> the merge it has popped
  dummy,      \* actor -> its source is the dummyMergeSource of MergeWithSpec
  dropped,    \* history: merges AbortAll took out of the queue
  ran,        \* history: merge -> the outcomes of its executions
  shut        \* history: Close returned without an error

queues == <<offer, specs, pending, dropped>>
vars == <<queues, threads, wait, running, cancelled, closed, pc, hand, dummy, ran, shut>>

Init ==
  /\ offer = Offered /\ specs = Given /\ pending = <<>> /\ dropped = {}
  /\ threads = {} /\ wait = {} /\ running = {}
  /\ cancelled = FALSE /\ closed = FALSE /\ shut = FALSE
  /\ pc = [a \in Actors |-> IF a \in Callers THEN "idle" ELSE "unborn"]
  /\ hand = [a \in Actors |-> NoMerge] /\ dummy = [a \in Actors |-> FALSE]
  /\ ran = [m \in Merges |-> <<>>]

Goto(a, step) == pc' = [pc EXCEPT ![a] = step]

-----------------------------------------------------------------------------
(* Calls *)

Merge(c) ==
  /\ pc[c] = "idle"
  /\ Goto(c, "start") /\ dummy' = [dummy EXCEPT ![c] = FALSE]
  /\ UNCHANGED <<queues, threads, wait, running, cancelled, closed, hand, ran, shut>>

\* MergeWithSpec queues its merges and calls Merge with a source that offers
\* nothing; closed is checked again there.
MergeWithSpec(c) ==
  /\ pc[c] = "idle" /\ ~closed /\ specs # {}
  /\ \E m \in specs : pending' = Append(pending, m) /\ specs' = specs \ {m}
  /\ Goto(c, "start") /\ dummy' = [dummy EXCEPT ![c] = TRUE]
  /\ UNCHANGED <<offer, dropped, threads, wait, running, cancelled, closed, hand, ran, shut>>

-----------------------------------------------------------------------------
(* MergeInternal *)

\* MergeInternal returns: to the caller, or to runOnMergeFinished.
Back(a) == Goto(a, IF a \in Callers THEN "idle" ELSE "remove")

Start(a) ==
  /\ pc[a] = "start"
  /\ IF closed THEN Back(a) ELSE Goto(a, "stall")
  /\ UNCHANGED <<queues, threads, wait, running, cancelled, closed, hand, dummy, ran, shut>>

\* maybeStall: a merge thread never stalls.  HasPendingMerges asks the source.
MaybeStall(a) ==
  /\ pc[a] = "stall"
  /\ Goto(a, IF /\ a \in Callers /\ Cardinality(threads) >= MaxMerges
                /\ ~dummy[a] /\ offer # {}
             THEN "doStall" ELSE "next")
  /\ UNCHANGED <<queues, threads, wait, running, cancelled, closed, hand, dummy, ran, shut>>

\* doStall: Wait, until some broadcast.
DoStall(a) ==
  /\ pc[a] = "doStall" /\ Goto(a, "stalled")
  /\ UNCHANGED <<queues, threads, wait, running, cancelled, closed, hand, dummy, ran, shut>>

\* The next merge: a queued one first, then one the source offers.
NextMerge(a) ==
  /\ pc[a] = "next"
  /\ \/ /\ pending # <<>>
        /\ hand' = [hand EXCEPT ![a] = Head(pending)] /\ pending' = Tail(pending)
        /\ Goto(a, "limit") /\ UNCHANGED <<offer, specs>>
     \/ /\ pending = <<>> /\ ~dummy[a]
        /\ \E m \in offer : hand' = [hand EXCEPT ![a] = m] /\ offer' = offer \ {m}
        /\ Goto(a, "limit") /\ UNCHANGED <<pending, specs>>
     \/ /\ pending = <<>> /\ (dummy[a] \/ offer = {})
        /\ Goto(a, "waitAll") /\ UNCHANGED <<queues, hand>>
  /\ UNCHANGED <<dropped, threads, wait, running, cancelled, closed, dummy, ran, shut>>

\* The number of threads is read under mergeMu and used after it is released.
CheckLimit(a) ==
  /\ pc[a] = "limit"
  /\ Goto(a, IF Cardinality(threads) < MaxThreads THEN "spawn" ELSE "waitThread")
  /\ UNCHANGED <<queues, threads, wait, running, cancelled, closed, hand, dummy, ran, shut>>

\* waitForMergeThread waits until there is no thread at all.
WaitForMergeThread(a) ==
  /\ pc[a] = "waitThread" /\ threads = {}
  /\ Goto(a, "requeue")
  /\ UNCHANGED <<queues, threads, wait, running, cancelled, closed, hand, dummy, ran, shut>>

\* Mutant: the merge in hand is forgotten.
MutantNoRequeue(a) ==
  /\ pc[a] = "requeue" /\ Goto(a, "stall")
  /\ hand' = [hand EXCEPT ![a] = NoMerge]
  /\ UNCHANGED <<queues, threads, wait, running, cancelled, closed, dummy, ran, shut>>

Requeue(a) ==
  /\ pc[a] = "requeue"
  /\ pending' = Append(pending, hand[a]) /\ hand' = [hand EXCEPT ![a] = NoMerge]
  /\ Goto(a, "stall")
  /\ UNCHANGED <<offer, specs, dropped, threads, wait, running, cancelled, closed, dummy, ran, shut>>

\* spawnMergeThread: the thread is listed, then counted, and then it runs.
Spawn(a) ==
  /\ pc[a] = "spawn"
  /\ threads' = threads \cup {hand[a]}
  /\ Goto(a, "count")
  /\ UNCHANGED <<queues, wait, running, cancelled, closed, hand, dummy, ran, shut>>

Count(a) ==
  /\ pc[a] = "count"
  /\ wait' = wait \cup {hand[a]} /\ running' = running \cup {hand[a]}
  /\ dummy' = [dummy EXCEPT ![hand[a]] = dummy[a]]
  /\ pc' = [pc EXCEPT ![a] = "stall", ![hand[a]] = "execute"]
  /\ hand' = [hand EXCEPT ![a] = NoMerge]
  /\ UNCHANGED <<queues, threads, cancelled, closed, ran, shut>>

\* waitForAllMerges: WaitGroup.Wait.
WaitForAllMerges(a) ==
  /\ pc[a] = "waitAll" /\ wait = {}
  /\ Back(a)
  /\ UNCHANGED <<queues, threads, wait, running, cancelled, closed, hand, dummy, ran, shut>>

-----------------------------------------------------------------------------
(* A merge thread *)

\* executeMerge: a cancelled scheduler starts no merge.
Execute(m) ==
  /\ pc[m] = "execute"
  /\ IF cancelled
     THEN Goto(m, "start") /\ ran' = [ran EXCEPT ![m] = Append(@, "cancelled")]
     ELSE Goto(m, "merging") /\ UNCHANGED ran
  /\ UNCHANGED <<queues, threads, wait, running, cancelled, closed, hand, dummy, shut>>

\* source.Merge: the dummy source knows no merge, the writer's may fail.
DoMerge(m) ==
  /\ pc[m] = "merging"
  /\ \E r \in IF dummy[m] THEN {"not implemented"} ELSE {"merged", "failed"} :
       ran' = [ran EXCEPT ![m] = Append(@, r)]
  /\ Goto(m, "start")
  /\ UNCHANGED <<queues, threads, wait, running, cancelled, closed, hand, dummy, shut>>

\* The actors whose Wait a broadcast ends.
Wake(steps) == [a \in Actors |-> IF steps[a] = "stalled" THEN "stall" ELSE steps[a]]

\* removeMergeThread
RemoveMergeThread(m) ==
  /\ pc[m] = "remove"
  /\ threads' = threads \ {m}
  /\ pc' = Wake([pc EXCEPT ![m] = "uncount"])
  /\ UNCHANGED <<queues, wait, running, cancelled, closed, hand, dummy, ran, shut>>

\* The deferred calls, last one first.
Uncount(m) ==
  /\ pc[m] = "uncount"
  /\ running' = running \ {m} /\ Goto(m, "leave")
  /\ UNCHANGED <<queues, threads, wait, cancelled, closed, hand, dummy, ran, shut>>

Leave(m) ==
  /\ pc[m] = "leave"
  /\ wait' = wait \ {m} /\ Goto(m, "gone")
  /\ UNCHANGED <<queues, threads, running, cancelled, closed, hand, dummy, ran, shut>>

-----------------------------------------------------------------------------
(* Close and AbortAll *)

\* Mutant: the context is not cancelled.
MutantCloseNoCancel(c) ==
  /\ Closes /\ pc[c] = "idle" /\ ~closed
  /\ Goto(c, "close")
  /\ UNCHANGED <<queues, threads, wait, running, cancelled, closed, hand, dummy, ran, shut>>

Close(c) ==
  /\ Closes /\ pc[c] = "idle" /\ ~closed
  /\ cancelled' = TRUE /\ Goto(c, "close")
  /\ UNCHANGED <<queues, threads, wait, running, closed, hand, dummy, ran, shut>>

\* awaitMergesOrTimeout: the watcher sees no running merge, or 60 s elapse.
CloseDrained(c) ==
  /\ pc[c] = "close" /\ running = {}
  /\ closed' = TRUE /\ shut' = TRUE /\ Goto(c, "idle")
  /\ UNCHANGED <<queues, threads, wait, running, cancelled, hand, dummy, ran>>

CloseTimesOut(c) ==
  /\ pc[c] = "close" /\ running # {}
  /\ Goto(c, "idle")
  /\ UNCHANGED <<queues, threads, wait, running, cancelled, closed, hand, dummy, ran, shut>>

\* AbortAll drops the queue and wakes the stalled; running merges see the
\* abort in source.Merge, which may fail at any time here.
AbortAll(c) ==
  /\ pc[c] = "idle"
  /\ pending' = <<>> /\ dropped' = dropped \cup ToSet(pending) /\ pc' = Wake(pc)
  /\ UNCHANGED <<offer, specs, threads, wait, running, cancelled, closed, hand, dummy, ran, shut>>

Internal(a) ==
  \/ Start(a) \/ MaybeStall(a) \/ DoStall(a) \/ NextMerge(a) \/ CheckLimit(a)
  \/ WaitForMergeThread(a) \/ Requeue(a) \/ Spawn(a) \/ Count(a) \/ WaitForAllMerges(a)

Thread(m) ==
  Execute(m) \/ DoMerge(m) \/ RemoveMergeThread(m) \/ Uncount(m) \/ Leave(m)

Next ==
  \/ \E c \in Callers :
       \/ Merge(c) \/ MergeWithSpec(c) \/ Close(c) \/ AbortAll(c)
       \/ CloseDrained(c) \/ CloseTimesOut(c)
  \/ \E a \in Actors : Internal(a)
  \/ \E m \in Merges : Thread(m)

Spec == Init /\ [][Next]_vars
\* Goroutines are scheduled; source.Merge ends, by an error at worst.
FairSpec ==
  /\ Spec
  /\ \A a \in Actors : WF_vars(Internal(a))
  /\ \A m \in Merges : WF_vars(Thread(m))

-----------------------------------------------------------------------------
\* Types of the state, and where a merge can be: a merge is held by one actor
\* at most, and the two counts of threads agree with the threads alive.
TypeOK ==
  /\ offer \subseteq Offered /\ specs \subseteq Given
  /\ threads \subseteq Merges /\ running \subseteq wait
  /\ wait = {m \in Merges : pc[m] \notin {"unborn", "gone"}}
  /\ \A a \in Actors : hand[a] # NoMerge => pc[a] \in {"limit", "waitThread", "requeue", "spawn", "count"}

\* The state has its type, and a merge the scheduler took from the source or
\* a spec is not lost and not run twice: until its thread is born it is queued
\* or in one actor's hand, whoever popped it and however often it was queued
\* again, unless AbortAll dropped it.
MergeOnce ==
  /\ TypeOK
  /\ \A m \in Merges :
       LET born   == pc[m] # "unborn"
           queued == {i \in DOMAIN pending : pending[i] = m}
           held   == {a \in Actors : hand[a] = m}
           places == Cardinality(queued) + Cardinality(held)
       IN  /\ Len(ran[m]) <= 1
           /\ places <= 1 /\ (born => places = 0)
           /\ (m \notin offer \cup specs \cup dropped /\ ~born) => places = 1

\* Once Close has returned without an error the writer is not called back to
\* merge: a merge that ran had been counted before Close looked, and one that
\* starts later sees the cancellation.
ClosedIsQuiet == shut => \A m \in Merges : pc[m] # "merging"

-----------------------------------------------------------------------------
(* What comments and tests of the code say and the code does not do: TLC   *)
(* reports each of these violated, with the constants README.md gives.     *)

\* No more merge threads are listed than maxThreadCount allows, whoever spawns
\* them: the count spawnMergeThread relies on was read before mergeMu was released.
ThreadLimit == Cardinality(threads) <= MaxThreads

\* A call of Merge returns: the merges it started come to an end.
MergeReturns == \A c \in Callers : pc[c] # "idle" ~> pc[c] = "idle"

\* MergeWithSpec runs the merges it is given: none ends as not implemented.
SpecMergesRun == \A m \in Given : ran[m] # <<"not implemented">>
=============================================================================
