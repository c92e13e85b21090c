# TLA+ models of Gocene's indexing core

Gocene is a Go port of Apache Lucene. This directory holds TLA+ models of the part of it in
which goroutines, processes and crashes meet: from a document or a delete entering
`DocumentsWriter`, over the flushed segment and the frozen deletes, to the commit, the files it
consists of, and the searcher that reads it.

Everything is translated from the Go code under `src/`; the comments in the modules name
the functions. `PROJECT.json` maps each definition to its lines, lists the runs, the seeded
mistakes that each property catches, the hazards of the code and the theorems.

    tlc -workers 4 -config FlushQueue.cfg MCFlushQueue      # one run
    tlapm FlushQueueProofs.tla                              # the proofs of one component

The modules with proofs are those whose names end in `Proofs`; `FlushControlProofs` and
`DeleteQueueProofs` take a few minutes each.

## The system

| Component | State | Operations | Hard because |
|---|---|---|---|
| `DocumentsWriterFlushQueue` | queue of tickets, a counter, two mutexes | AddTicket, AddSegment, MarkTicketFailed, TryPurge, ForcePurge | flushes end out of order, fail, and are published by whoever gets `purgeMu`; the counter is read without a lock |
| `DocumentsWriterDeleteQueue` | linked list of deletes, global slice and buffer, sequence numbers, `advanced`, `closed` | AddNode, AddWithSlice, UpdateSlice, FreezeGlobalBuffer, Clear, AdvanceQueue, Close | each DWPT and the global buffer walk the same list at their own pace; the tail is read without `d.mu` |
| `DocumentsWriterFlushControl` | bytes and counters, flushQueue, blockedFlushes, flushingWriters, full-flush flags, stall state | ObtainAndLock, DoAfterDocument, NextPendingFlush, DoAfterFlush, MarkForFullFlush, FinishFullFlush, aborts, Close | four kinds of lock (`c.mu`, DWPT, pool, `DocumentsWriter.lock`), flags read under one and used after it |
| `DocumentsWriterPerThreadPool` | DWPTs, free list | GetAndLock, MarksAsFreeAndUnlock, Checkout, FilterAndLock | copies of the pool are iterated while it changes |
| `FlushByRamOrCountsPolicy` | none | OnChange | marks DWPTs that other goroutines own |
| `DocumentsWriter`, `DocumentsWriterPerThread` | the current delete queue, the ticket queue, buffered documents | UpdateDocuments, delete and update calls, doFlush, FlushAllThreads, Abort | composes the parts above |
| `BufferedUpdatesStream` | packets by generation, the frontier of finished generations | Push, NextGen, Finished, FinishedSegment, Clear, WaitApplyAll | packets finish out of order; two mutexes |
| `FrozenBufferedUpdates` and the writer's event queue | a lock per packet, queued events | TryApply, ForceApply, publishFrozenUpdates, processEvents | a packet is applied by whoever comes first, while segments are added |
| `IndexWriter` commit path, `SegmentInfos`, `IndexFileDeleter` | live segments, pending commit, reference counts of files, the directory | flush, PrepareCommit, Commit, Rollback, Close, NewIndexWriter | crashes and failures between any two steps; five locks |
| Deletion policies, `PersistentSnapshotDeletionPolicy` | pinned commits, a file that lists them | OnInit, OnCommit, Snapshot, Release | restart, failed saves |
| `ConcurrentMergeScheduler` | pending merges, merge threads, limits | Merge, MergeWithSpec, Close, AbortAll | merge threads run the scheduler themselves |
| `ReferenceManager`, `SearcherManager` | the current searcher, reference counts | Acquire, Release, MaybeRefresh, Close | overlapping refreshes |
| `ControlledRealTimeReopenThread` | generations, waiters, a timer | WaitForGeneration, AfterRefresh, Close | lost wake-ups |
| `NativeFSLockFactory`, `SimpleFSLockFactory` | a registry in the process, a file lock, a lock file | ObtainLock, Close | several processes, crashes |

How the parts call each other: an indexing goroutine obtains a DWPT from the flush control
(pool, free list), indexes into it, finishes the document on the delete queue, reports the
bytes to the flush control, which may hand it a DWPT to flush, releases the DWPT, and flushes.
A flush gets its ticket inside the ticket queue's mutex, where it also freezes the global
deletes (PrepareFlush), writes the segment without any lock, puts it on the ticket, and tries to
publish. Publishing pushes the packet of deletes to `BufferedUpdatesStream`, queues an event that
applies it, adds the segment to `segmentInfos` and makes a checkpoint in `IndexFileDeleter`. A full
flush (commit, reader) advances the delete queue, collects every DWPT of the old one, flushes them
together with whoever helps, waits, forces a purge, finishes and waits until every packet is
applied. A commit then clones `segmentInfos`, protects its files, writes `pending_segments_N`, renames
it and lets the deletion policy expire older commits. Searchers are opened on commits, replaced by
refreshes and closed when the last reference goes. The directory's lock keeps a second writer out.

What makes each part correct:

- ticket queue: tickets are published in the order they were issued and after their flush
  ended, every one of them, once;
- delete queue: the sequence numbers returned to callers are the effective order, a delete
  reaches exactly the documents with smaller numbers, none is lost, none applied twice;
- flush control: bytes are accounted for, a DWPT out of the pool is flushed exactly once, nobody
  indexes into a DWPT that is being written, a full flush leaves no old document behind, a stall
  ends, a rollback drains everything, and none of the code's own panics is reached;
- updates stream: the frontier is exactly the finished prefix, and no generation is lost;
- applying packets: a wait returns only when every packet before it has met every segment before it that
  could be read, and it returns;
- commit path: at every instant every `segments_N` can be read (but for one whose own deletion failed), an
  acknowledged commit stays, no file in use is deleted, counts are exact, no name is used twice, rollback
  restores;
- snapshots: what the application was given is pinned, across restarts;
- merge scheduler: no merge is lost or run twice, none runs after Close;
- searchers: one in use is open, one that nobody owns is closed; a waiter's answer is backed by a refresh
  that was counted, and the waiter is woken;
- locks: one holder among all processes, whose lock stays valid.

## Modules

| Module | Models | Used by |
|---|---|---|
| `FlushQueue` | the ticket queue and its clients | `MCFlushQueue`, `FlushQueueProofs` |
| `TicketOrder` | abstract: tickets are issued, end, and are published in order | `FlushQueue` (refinement) |
| `FlushQueueProofs` | theorems about `FlushQueue` | |
| `DeleteQueue` | one generation of the delete queue, DWPTs' slices, freezing, full flush, abort | `MCDeleteQueue`, `DeleteQueueProofs` |
| `DeleteQueueProofs` | theorems about `DeleteQueue` | |
| `FlushControl` | flush control, pool, flush policy, stall control, full flush, rollback | `MCFlushControl`, `FlushControlProofs` |
| `FlushControlProofs` | theorems about `FlushControl` | |
| `UpdatesStream` | `BufferedUpdatesStream` with its frontier | `MCUpdatesStream`, `UpdatesStreamProofs` |
| `UpdatesStreamProofs` | theorems about `UpdatesStream` | |
| `ApplyUpdates` | publishing, event queue, packet locks, the wait of `doFlush`, `AddIndexes`, `GetReader` | `MCApplyUpdates`, `ApplyUpdatesProofs` |
| `ApplyUpdatesProofs` | the theorem about `ApplyUpdates` | |
| `IndexCommit` | flush, two-phase commit, deleter, rollback, close, crash, opening | `MCIndexCommit`, `IndexCommitProofs` |
| `IndexCommitProofs` | theorems about `IndexCommit` | |
| `SearcherManager`, `ReopenThread` | searchers; the reopen thread and its waiters | `Searching` |
| `Searching` | the two side by side | `MCSearch`, `SearchProofs` |
| `SearchProofs` | theorems about the two | |
| `WriteLock` | abstract: at most one holder | `NativeFSLock`, `SimpleFSLock` (refinement) |
| `NativeFSLock`, `SimpleFSLock` | the two lock factories | `LockFactories` |
| `LockFactories` | the two side by side | `MCServices`, `ServiceProofs` |
| `MergeScheduler` | `ConcurrentMergeScheduler` | `MCServices`, `ServiceProofs` |
| `SnapshotPolicy` | the snapshot policies and their file | `Snapshots` |
| `Snapshots` | the policy in careful use and with faults | `MCServices`, `ServiceProofs` |
| `ServiceProofs` | theorems about `MergeScheduler`, `LockFactories` and `Snapshots` | |

In the cfg files `None` is a model value for "no goroutine", "no DWPT" and the like. `MCSearch` and
`MCServices` put components that share no state into one run: the variable `part`, set in the first
state, says which of them a behaviour is about, and the others keep their initial state, so that
what TLC explores is the sum of the state spaces and not their product (the two lock factories are small
and one part). `MCIndexCommit` does the same
with two writers that differ in their deletion policy. `MCDeleteQueue` bounds the state space to two
DWPTs with a document each, or one with several.

### FlushQueue

`tickets` is every ticket in order of creation, `queue` the positions of the queued ones. A step
is one section under `q.mu`, or what lies between two of them; `AddTicket` and the removal of the
head are two steps each under `qMu`, because `ticketCount` is read without the mutex. `pc` says
where a goroutine is in `doFlushOne`, `applyAllDeletes` or `innerPurge`. `Consume` is the consumer
of `publishFlushedSegments`: it marks the ticket and may fail (`PublishMayFail`).

### DeleteQueue

Nodes are numbered as they are linked; a slice is its two ends. `upto[w][n]` is the `docIDUpto`
under which DWPT `w` applied node `n`; `docs[w]` holds the sequence number returned for each
document. The three writes of `AddNode` (link, tail, number) are three steps, and everything
under `globalBufferLock` is two: the read of the tail and the application up to it. `AddTicket`
holds the ticket queue's mutex over PrepareFlush, as in `doFlushOne`. `applyAllDeletes` may run at
any time between documents: the flag `flushDeletes` that triggers it is left open. The full flush
is `AdvanceQueue`, `MarkDone`, `FlushedAll`, `Close`; `LockAndAbortAll` has its two `Clear`s. A DWPT is
released without `DocumentsWriter.lock` here, which allows more interleavings than the code. Tickets
are not removed when they are published: they are the history the properties are about.

### FlushControl

Each section under `c.mu` is one step. A document adds one unit of RAM; `RamBuffer`, `HardMax`,
`MaxBufferedDocs` and `Granularity` are the configuration in those units. `seen` is what
`ObtainAndLock` read before it let `c.mu` go. The delete queue is its generation. There is one
`Flusher`, since `IndexWriter.fullFlushLock` serialises `doFlush` and rollback; it runs full flushes
and then possibly a rollback. A failing document (`MayFail`) leaves `UpdateDocuments` by a panic that
the application is taken to recover from; a failing flush ends `doFlush`, and ends the process
when it happens in `FlushAllThreads`. The code's panics are states: `panicStale`, `panicFree` and
`panicFinish` for the three that can be reached (see below), `panic` for all others, which
`NoOtherPanic` shows are not. Each of the three stops every goroutine, so that what the
other properties say is said about the behaviours up to there. `aborted` is history: the DWPTs that
`AbortFullFlushes` or a rollback dropped. `OldGenerationFlushed` has to name it: when a second full flush
is ended by a rollback, the DWPTs of its generation are dropped and not flushed.

Left out: `CheckoutLargestNonPendingWriter` (`FlushNextBuffer`), aborting errors inside a DWPT,
`assertMemory` and the peaks, the free list's ordering by size (any free DWPT may be polled, which
is more than the code does).

### UpdatesStream

A packet is named by its generation. `s.mu` is held for one step; `f.mu`, the mutex of
`finishedSegments`, through the loop of `finishedSegment`, one step per iteration. `Finished` leaves
`s.mu` before it takes `f.mu`, so a generation is for a while in neither place (`hand`). `ClearRaces`
says whether `Clear` may fall into that gap. Nothing in the writer calls `Clear`: the run leaves it to a caller
that has nothing else under way.

### ApplyUpdates

`pc[p]` is the sequence of steps a goroutine still has to take. `PublishHead` is the consumer of
`publishFlushedSegments` for one ticket, under `purgeMu`: packet pushed, event queued, segment added,
generation drawn. `processEvents` takes events one at a time; `TryApply` gives up on a packet that is
locked, `waitApply` collects those and forces them afterwards. Applying is two steps, the collection
of the live segments and the resolution against them, since `segmentInfos` may grow in between; `hits`
records which segments a packet has met. The collection skips a segment that has no pooled instance or
whose reader cannot be had, and the packet counts as applied all the same: `missed` has these, at most `MaxMissed`,
and what a wait promises is said about the others. `AddIndexes` adds segments with no delete generation. A
packet that cannot be applied (a private packet in an index with several segments) is a tragic event,
after which operations return. The capacity of the event queue, 1024 in the code, is the constant `Cap`;
the run uses 2, fewer than the events two tickets make, so that a purger waits for a place with `purgeMu` held
while others drain the queue, wait for `purgeMu` or want a place too. `Clogged` is the state in which nobody gets on:
the queue is full, somebody adds to it, and everybody else is idle or waits. It is reached when the only
goroutine about publishes more than the queue holds, and when the one that drains the queue takes a purge event
off it, which waits for the `purgeMu` of the one that adds. `OpsReturn` makes an exception of that state, and so says
that there is no other in which an operation is stuck. The closing of the event queue and draining it after
a tragic event are left out (nobody drains it then).

### IndexCommit

The files of one segment are one file (a commit that is read back names the files its `.si` lists, and the `.si`
alone where no codec has registered a reader of it, `spi/segment_infos.go:1940`: the model has the former).
`disk` is the directory, `content[n]` what `segments_n` records.
A goroutine's operation is a sequence of steps again; a crash may fall between any two of them, and
deletions go file by file in the order of `FileDeleter.delete`: all `segments_N` of a batch first. The locks
are `commitLock`, `fullFlushLock`, `purgeMu`, `IndexWriter.mu` and the deleter's. `Crash` drops everything but
the directory; `Open` is `NewIndexWriter` with `NewIndexFileDeleter`: commits are loaded and counted,
generations inflated, files without references deleted, the policy run. Writes, renames and syncs of
`segments_N` may fail (`MaxFailures`), with the clean-up the code does and does not do: after a failed
rename `SegmentInfos.pendingCommit` stays set, and later commits are refused. `Close` is what the code has:
the first call sets `closing` and returns. `leaks` is history: the references `prepareCommitInternal` takes
and nobody gives back, which `RefsExact` and `RollbackRestores` have to account for.

The deletion of a file may fail as well. `FileDeleter.delete` remembers the error (`errs`) and goes on, with the second
pass too, and nothing is ever retried: the file stays (`undeleted`, history since the writer was opened). What the caller
does with the error is in the model. A checkpoint clears `lastFiles` and keeps the references it took
(`PinFails`; they become `leaks`): `writeReaderPool` leaves the rest of its work undone and `doFlush` ignores
it, a publication fails and its ticket stays at the head, marked as published, and a rollback ends there. `Commit` returns
the error of the policy's deletions with `segments_N` written, registered and still pending
(`UnlinkFails`; `unacked` is its generation): the next `Commit` writes generation N + 1, and a `Rollback` does
not go back behind N. `NewIndexWriter` fails when a file cannot be deleted (`OpenFails`). A `segments_N` that was
left without its files does not stop a later writer: the deleter loads the commit without looking for the files of its
segments (`spi/segment_infos.go:1949`), and the policy lets it go again. A constructor
has two rounds of deletions, `"sweeping"` (files nobody refers to) and `"opening"` (commits the policy lets go).

What is assumed here of the application and the environment: a writer whose `Rollback` failed is given up
(`"failed"`), and so is one in which `MarkPublished` panics at the ticket of a failed publication;
`PrepareCommit` is not called while `unacked` is set (`segmentInfos` still has generation N - 1, so that the code would
write generation N a second time, and a failing sync would then remove the `segments_N` that was complete); the deletions
in the clean-up after a failed write, rename or sync succeed.

The passing run has one goroutine in the writer: with two, the races in the table below break
the properties, and what they then say is no longer about crashes.

### SearcherManager and ReopenThread

A searcher stands for its reader, and that for the reference count of its cores, which never rises
once it was zero. `MaybeRefresh` takes its steps in the order of the code: the commit supplier, opening,
wrapping, `Swap`, release of the old one, each of which may fail. There is no refresh lock, so refreshes
overlap. The application supplies the commit; the default supplier returns nil, with which every
refresh fails. `Close` waits for no refresh, and neither `MaybeRefresh` nor `Swap` looks at `closed`: a refresh that is
under way at `Close`, or begins later, swaps out the searcher `Close` has released and releases it again. `atClose`
is history, that searcher; `Due` is how many references a reader's owners are left with, one less than there are
owners for that searcher. `OpenIffOwned` says that this is the whole damage, whatever the order of Close and
refreshes: nothing but that searcher can be closed under its user, and that only once it was replaced.

In `ReopenThread` time is nondeterministic. A waiter takes its notification channel in the section of the
mutex in which it looked at `searchingGen`. `Publish` stands for `IndexWriter.GetReader`, which sets the
published sequence number. The thread's own `MaybeRefresh` tells no listener, as in the code; refreshes
that move `searchingGen` come from the application. `ReferenceManager.Refresh` increments a counter between its
listeners and renews no reference, so that a true answer is backed by no newer reader (`AnswerVisible` in the table
below). What the code does provide, and `WaitTruthful` says, is that the generation was published before the
manager counted a refresh; `refreshed` is the history it is said with.

### Locks

`NativeFSLock` has the registry of each process (`lockHeld`) and the file lock of the kernel, which belongs
to the process and goes with it. `SimpleFSLock` has the lock file with its modification time, crashes that
leave the file, and its removal by hand. Both implement `WriteLock`.

### MergeScheduler and SnapshotPolicy

Callers and merge threads are the actors of `MergeInternal`; a thread is named by its merge. A merge may
be executed with the source of the writer or with the dummy one of `MergeWithSpec`. `Close` waits for the
counted threads, or times out. In `SnapshotPolicy` a commit is its generation; a snapshots file is created,
then written, and the older ones deleted; the application remembers across a crash which snapshots it
was given. Timestamps of files increase with every save; in the code they are wall-clock milliseconds, so two saves
within one millisecond and a clock set back are left out. `Primary` is the wrapped policy. `Snapshots` splits its behaviours in two, by the variable `careful` that
is set in the first state: careful use, in which no commit is snapshotted twice at a time, no save fails and no
crash falls between the creation of a file and its contents, and any use. What the policy promises across a
restart holds in careful use only (see the disagreements below).

## Runs

| Run | Bounds | Shows |
|---|---|---|
| `flush_queue` | 3 goroutines, 3 tickets, flush and publication may fail | order, count, refinement |
| `flush_queue_live` | 2 goroutines, 3 tickets, flushes may fail, publications do not; fairness | every ticket is published, none twice |
| `delete_queue` | 2 DWPTs with a document each (that does not fail) and 2 nodes, or 1 DWPT with 2 documents and 3 nodes; 1 deleter, flusher | all delete-queue properties |
| `flush_control` | 2 indexing goroutines, 4 calls, 3 DWPTs, 2 full flushes, rollback, failures | all flush-control safety properties |
| `flush_control_stall` | 3 goroutines, 5 calls, failures, fairness | a stall ends |
| `flush_control_deadlock` | violation | finding 1 |
| `updates_stream` | 3 goroutines, 4 generations, 1 clear; fairness | frontier exact and safe, none lost, reports return |
| `apply_updates` | 2 goroutines, 2 tickets of every shape, a flush or an `AddIndexes`, 2 places in the event queue, 1 skipped segment; fairness; deadlock checked | deletes resolved when the wait returns, every operation returns unless the event queue is clogged |
| `index_commit` | 1 goroutine, 2 segments, 3 generations; up to 2 of: 1 crash, 1 PrepareCommit, 2 failures (deletions too); or a policy that keeps two commits, 1 crash and Close; deadlock checked | all commit properties |
| `index_commit_protect` | violation, 2 goroutines | finding 2 |
| `search` | 2 searching and 2 refreshing goroutines, 3 new readers, 1 commit; 2 waiters, 1 refresher, 2 generations, timeouts, Close; fairness for the second part | searchers' lifetime with Close at any moment; answers backed by a counted refresh, wake-ups |
| `services` | 2 processes with 2 goroutines each; 3 goroutines and the lock file; 2 callers, 3 merges, 1 thread, Close and AbortAll; 2 goroutines, 2 commits, 4 files with 2 crashes, or with 2 snapshots of a commit and failing saves | locks (refinement), merge scheduler, snapshots |

Why these bounds are enough to be interesting. Two tickets suffice to publish out of order and a
third goroutine to purge meanwhile. In the delete queue every hazard is about one node and the
end of one slice against another: two nodes and two DWPTs give each node a side of each cut; one
DWPT with two documents adds a document on either side of a node. `TakeBound` limits the numbers drawn
without a node to the first few, enough to leave gaps. In the flush control, three DWPTs allow one free, one
in use and one blocked or flushing; `RamBuffer = 2` makes the policy mark DWPTs of other goroutines
and `HardMax` the goroutine's own; the stall run uses a buffer of one unit so that two documents
stall. Four generations leave two gaps behind the frontier that close in one loop. Two tickets give a
packet a segment before and after it, and two goroutines one that applies it and one that finds it
locked; two places in the event queue are fewer than the events. Three commit generations let one commit expire
while the next is pending; a crash falls into each of their steps and the writer that opens afterwards commits
again. Two failures (`MaxEvents` bounds failures, crashes and calls of `PrepareCommit` together) let a deletion fail
and then the commit or the rollback after it. Two refreshes overlap; three
readers let the second swap out what the first swapped in.
Deadlock is checked where the modelled system never stops (`apply_updates`, `index_commit`, `updates_stream`);
the others are bounded systems that stop when the calls are used up.

Where a module's type invariant is not a property of its own it is one conjunct of the invariant that
speaks of the same state (`ListOK`, `Accounted`, `FilesCounted`, `PacketsResolved`, `OpenIffOwned`,
`WaitTruthful`, `LocksValid`, `MergeOnce`, `SnapshotsHeld`), and is proved with it.

Each property has a seeded mistake (the `Mutant` operators, listed in `PROJECT.json`) that makes TLC
report it violated.

### Fairness

`FlushQueue!FairSpec`: a goroutine inside `doFlush` or `innerPurge` goes on (strong fairness, because
Go's mutexes hand over to a waiter after a millisecond and so starve nobody), and the application
forces a purge again and again, as every commit, flush and reader does. The last part is needed:
a `TryPurge` that gives up may leave a ready ticket for the next purge.
`FlushControl!FairSpec`: a goroutine inside `UpdateDocuments` and the full flush go on. A stalled
goroutine is woken or comes back after 100 ms (`WaitIfStalled`), hence `PreUpdateStalled` among
the fair steps: a stalled session is taken to come back from idle. Other calls are not assumed.
`UpdatesStream!FairSpec`: a call that has taken its generation goes on; taking `f.mu` is strongly fair, for
the reason above. `ApplyUpdates!FairSpec`: a goroutine inside an operation goes on, strongly fair because
its next step may wait for a mutex. `SearchSpec`: the reopen thread, a refresh under way, Close and the
goroutines in `WaitForGeneration` are scheduled; the time the thread sleeps elapses in the end. That anybody
calls Refresh is not assumed.

## What the runs found

1. `UpdateDocuments` takes `DocumentsWriter.lock` with the DWPT locked, `FlushAllThreads` the other
   way round: they deadlock (`FullFlushEnds`).
2. `prepareCommitInternal` clones `segmentInfos` and takes the references of the clone later, and neither
   publishing nor dropping a segment needs a mutex it holds: a file the pending commit names can be
   deleted in between (`PendingProtected`).

### Disagreements met while modelling, not kept as runs

The modules state these properties, those that no run checks under a heading of their own. TLC reports
each one violated with the constants of the component's run, changed as the second column says. (Some
parts of `MCSearch` and `MCServices` are instances: `Reopening!NoPanic` and so on. The rows that give
`FairSpec` and those about crashes of `SnapshotPolicy` take a module of their own that extends the
component's.)

| Module and property | Constants | What the code does |
|---|---|---|
| `FlushQueue` `NoDoublePublish` | `PublishMayFail = TRUE` | a ticket whose publication failed stays at the head, marked published, and the next purge panics |
| `FlushControl` `NoStaleDWPT` | those of the run | `ObtainAndLock` uses full-flush flags it read before it let `c.mu` go, and panics on a DWPT of the old queue |
| `FlushControl` `NoPendingFree` | those of the run | `IsFlushPending` is checked under `DocumentsWriter.lock` and set under `c.mu`; `MarksAsFreeAndUnlock` panics |
| `FlushControl` `FinishFindsNothing` | 3 threads, `MaxDWPTs = 4`, `MaxCalls = 4`, `HardMax = 4` | `NextPendingFlush` scans with an old `fullFlush` and checks out a new DWPT while the full flush finishes, which panics |
| `IndexCommit` `CheckpointPins` | `Procs = {p1, p2}`, `MaxGen = 1`, `Drops = FALSE` | publishing checkpoints under `purgeMu`, committing under `IndexWriter.mu`: the later checkpoint can pin the older list of segments |
| `IndexCommit` `NoHalfDeletedCommit` | those of the run | a `segments_N` that cannot be deleted stays, and the second pass deletes its files (`util/file_deleter.go:276`: "a crash never leaves a corrupt half-deleted commit"); the next writer loads it, its policy lets it go again, and its constructor deletes it or returns the error |
| `IndexCommit` `RollbackReturns` | those of the run | a `Commit` that fails in the deletion of older commits leaves its own on disk: a rollback does not return to the one acknowledged last |
| `IndexCommit` `NoUnreferencedFiles` | those of the run | the references of `prepareCommitInternal` are not given back: files of expired commits stay until the next opening |
| `IndexCommit` `PreparedIsDurable` | those of the run | `PrepareCommit` writes nothing; `pending_segments_N` is written by `finishCommit` |
| `IndexCommit` `CloseCommits` | those of the run | the first `Close` sets a flag and returns nil: no commit, and the write lock stays; `Rollback` is refused after it |
| `IndexCommit` `CleanMeansCommitted` | `Procs = {p1, p2}`, `MaxGen = 1`, `Drops = FALSE` | `changeCount` is read after the clone: a segment published in between counts as committed |
| `IndexCommit` `AckedSurvives` | `PowerLoss = TRUE` | the files of segments are never synced: a crash of the machine can lose those of an acknowledged commit |
| `UpdatesStream` `FrontierExact` | `ClearRaces = TRUE` | a `Finished` between its two mutexes while `Clear` runs counts a generation of the new count |
| `ApplyUpdates` `DeletesInOrder` | `MaxFlushes = 2` | a segment of `AddIndexes` has no delete generation: older deletes are applied to it |
| `ApplyUpdates` `AllResolved` | those of the run | a segment without a pooled instance or a reader is skipped and the packet counts as applied (`index_writer.go:2025`: "against every live segment") |
| `ApplyUpdates` `NoTragedy` | those of the run | a private packet is applied to every live segment, and `Apply` refuses any number of them but one |
| `ApplyUpdates` `AppliedIsFinished` | those of the run | nobody calls `Finished`: packets stay in the stream and are applied again at each wait |
| `ApplyUpdates` `OpsReturn` | `ReaderSpec` | `GetReader` locks `fullFlushLock` and calls `doFlush`, which locks it again |
| `MergeScheduler` `ThreadLimit` | those of the run | the number of threads is read, the mutex let go, and a thread spawned |
| `MergeScheduler` `MergeReturns` | `FairSpec`, 1 caller, 1 merge | a merge thread that is done waits for all merge threads, itself included |
| `MergeScheduler` `SpecMergesRun` | those of the run | `MergeWithSpec` runs its merges with a source that refuses them |
| `SearcherManager` `HeldStaysOpen` | those of the run | a refresh under way at `Close`, or later, releases the searcher a second time, under its user |
| `SearcherManager` `ClosedKeepsNone` | those of the run | the searcher such a refresh swaps in is never released |
| `SearcherManager` `RefreshOnlyIfNeeded` | those of the run | readers are compared by identity and each opening makes a new one: every refresh replaces the searcher |
| `ReopenThread` `AnswerVisible` | those of the run | `Refresh` increments a counter and renews no reference: the generation a waiter was promised is in no searcher (`controlled_real_time_reopen_thread.go:102`: "to become visible in the searcher") |
| `ReopenThread` `GenerationReached` | those of the run | the thread reopens with a `MaybeRefresh` that tells no listener: a waiter waits for ever |
| `ReopenThread` `CloseWakes` | those of the run | an `AfterRefresh` after `Close` lowers `searchingGen` again |
| `ReopenThread` `NoPanic` | those of the run | the manager is closed while the thread reopens: its goroutine panics |
| `SnapshotPolicy` `SnapshotsSurvive` | `MaxRefs = 2`, `MaxCrashes = 1` | the file lists generations, not counts: after a restart the first of two releases unpins the commit |
| `SnapshotPolicy` `SnapshotsSurvive` | `SaveFaults = TRUE`, `MaxCrashes = 1` | a file is created before it is written, and a restart loads the newest one, even empty |
| `SnapshotPolicy` `CommitOfGeneration` | those of the run, `careful = FALSE` | the undo of a release records the last commit under the released generation |
| `SnapshotPolicy` `PolicyReturns` | `FairSpec`, `Primary = "last"` | the wrapped policy deletes a commit inside `OnCommit`, and `Delete` waits for the mutex `OnCommit` holds |

So the passing runs say what holds while these are not met: publications that succeed for
`NoDoublePublish`, one goroutine in the writer for `IndexCommit`, no loss of power, a policy that keeps all
commits under the snapshots, and so on; where a property makes an exception (a `segments_N` that could not be
deleted, a segment that was skipped, the searcher of `Close`), its definition says which. In the original most of
these are ruled out by Java monitors that cover the whole of the method, or by taking the locks in
the other order.

Hazards without a property: `ResetDeleteQueue` reads `GetMaxSeqNo` before `AdvanceQueue` sets it, so that
`FlushAllThreads` returns `math.MaxInt64` (one goroutine computes the value and no modelled part reads it); a
flush that fails makes `FlushAllThreads` panic before `FinishFullFlush`, and an application that recovers
keeps a writer in which `fullFlush` is set; the flush of an aborted DWPT returns neither a segment nor an
error, and its ticket blocks the queue (the indexing chain and its aborting errors are one step here).
Three more have no property that catches them, since what they lead to is reached: a publication that fails after
its ticket was marked (`NoDoublePublish` is checked where publications succeed), the three stale reads of the flush
control (`NoOtherPanic` excludes their panics), both in the table above; and the close of a lock whose file is
another writer's, which the lock run does not reach, because the file is removed by hand only while every writer of the
model is idle.

## Proofs

`FlushQueueProofs` proves, for any set of goroutines and any number of tickets, with
`FlushQueueAssumption` (the goroutines differ from `None`, the bound is a natural number, the two
switches are Booleans) as the only assumption:

- `TypeCorrect`, `CountCovers`, `InOrder`: `Spec => []TypeOK`, `[]CountCoversQueue`, `[]PublishedInOrder`;
- `OnceEach`: `Spec => [](~PublishMayFail => NoDoublePublish)`, that is, as long as publishing cannot fail;
- `Refinement`: `Spec => ImplementsTicketOrder`.

`PublishedInOrder` is not inductive: it says nothing about what is still queued. The inductive
invariant `IInv` adds that the queue is a window on the tickets issued, ending at the last one
(`Window`); that the log is what was removed plus at most the head, and that exactly the tickets in
the log are marked published (`LogInv`); that the count exceeds the queue by one exactly while a
goroutine is between the two halves of an update (`CountInv`); that only the holder of `purgeMu` is in
`innerPurge`, and that what it has peeked is still the head and still ready (`PurgeInv`); and that
two goroutines never flush the same ticket and a flushing ticket is not ready (`FlushInv`). The
refinement uses `IInv` on both sides of a step: `AddTicketAppend` is `Issue`, `AddSegment` and
`MarkTicketFailed` are `EndFlush`, `Consume` is `Publish`, everything else stutters. For `OnceEach`
one more conjunct is needed: while no goroutine is between publishing and popping, the head has
not been published.

`UpdatesStreamProofs` proves, for any set of goroutines and any number of generations and clears, from
the module's assumptions (`None` is no goroutine, the bounds are natural numbers) and under `~ClearRaces`
(with it the property is false, see above):

- `TypeCorrect`, `FrontierIsExact`, `FrontierIsSafe`, `NoGenerationLost`: `TypeOK`, `FrontierExact`,
  `FrontierSafe` and `NoneLost` hold always.

`FrontierExact` speaks of moments when `f.mu` is free, and the loop of `finishedSegment` moves the frontier
step by step. The inductive invariant `IInv` is `TypeOK` with: the frontier and the gaps together are
exactly the finished generations, inside the loop too (`GapsExact`); a generation handed out is
tracked, in one goroutine's hand, or finished, and in one of these places only (`OnePlace`); and a
goroutine is in the loop exactly while it holds `f.mu`, so that a frontier directly below a gap means that
somebody is still in it (`LoopHeld`).

`DeleteQueueProofs` proves, for any number of DWPTs, documents, deletes and tickets, from
`DeleteQueueAssumption` alone:

- `ListIsOrdered`, `SequenceNumbersSerialize`, `EveryUpdateOnce`, `NeverPanics`, `CloseLosesNothing`: `ListOK`,
  `SerializedBySeqNo`, `ExactlyOnce`, `NoPanic` and `NothingLostAtClose` hold always;
- `AbortLeavesNothing`: `Spec => AbortDropsAll`, an action property.

`SerializedBySeqNo` speaks of segments whose flush is over. The invariant `IInv` carries it through the
life of a DWPT: while a document is in memory, a node of the list has a larger number than the document's
exactly when it is behind the slice's head or the DWPT's buffer has it with a `docIDUpto` that covers the
document (`Private`); only the last node can be without its number (`Order`); a slice that a flush has
ended reaches as far as what all tickets together have frozen (`Ticketed`). The rest says who may be at
which step (`Roles`), who holds the four mutexes (`Locked`), what the phases of a full flush exclude
(`Phases`), how far slices reach (`Slices`), where in the global stream an update is (`Stream`) and what a
full flush has frozen (`Drained`). `NoPanic` needs `Supply`: after `AdvanceQueue` there is a number left for
each DWPT that will still draw one, which is a statement about a cardinality.

`FlushControlProofs` proves, for any number of goroutines, DWPTs, calls and full flushes, any configuration
of RAM and document limits, and with failures and a rollback at any time, from `FlushControlAssumption`:

- `CountersAreRight`, `EveryDwptFlushedOnce`, `FlushIsAlone`, `FullFlushIsComplete`, `AssertionsHold`,
  `RollbackIsComplete`: `Accounted`, `OneFlushEach`, `NoIndexingWhileFlushed`, `OldGenerationFlushed`,
  `NoOtherPanic` and `RollbackDrains` hold always.

The invariant `FlushInv` says who may be at which step (`Roles`), that a DWPT is in one place (pool and
free list, `flushQueue`, `blockedFlushes`, the hand of the goroutine that flushes it) and what follows for
its flags (`Places`), that what a goroutine has in its hand is in nobody else's (`Hands`), who holds or
carries the lock of a DWPT and which DWPTs a full flush has collected (`Locks`), what is true in each phase
of a full flush or a rollback (`Phases`), and what the counters count (`Accounts`). `Accounts` is about sums
over sets of DWPTs. That a sum changes by the term of the element that changed is an induction over
finite sets; the lemmas do it by a smallest counterexample, which exists because strict inclusion of
finite sets is well-founded, and so need no induction rule with an operator parameter. The attempt to
prove `OldGenerationFlushed` in its first form, without `aborted`, failed for a good reason: it is false with
two full flushes, which the run at that time did not have.

`ServiceProofs`, lock factories: `LocksStayValid` (`LocksValid` holds always) and `LocksAreExclusive` (both factories implement
`WriteLock`), for any processes, goroutines and crashes, and any number of lock files. The invariant is
that a process's registry has the path exactly while one of its goroutines is between entering it and
taking it out, and that the kernel's lock, or the lock file, belongs to one of them.

`SearchProofs`: `SearchersOpenWhileOwned` (`OpenIffOwned` holds always, with `Close` and refreshes in any order) and
`WaitIsTruthful` (`WaitTruthful` holds always), for finite sets of goroutines and any number of
readers, waiters and generations. A reference count is the number of owners, less the one `Close` gave up:
the manager, goroutines that acquired the reader, and refreshes that opened it or swapped it out; a step moves an
owner or adds or removes one. The count of the searcher of `Close` may fall below zero once it was
replaced, and is not restored. For the reopen thread, the generation noted when a refresh began is not later than
what was published when that refresh was counted, because `mu` lets no second refresh begin in between.

`ServiceProofs`, merges: `EveryMergeOnce` and `QuietAfterClose` (`MergeOnce`, `ClosedIsQuiet`) for any callers, merges and
limits, if callers, merges and `NoMerge` are told apart and no merge is both offered and given (`Distinct`).
The invariant is that a merge is in one place: with the writer, queued, in one hand, a thread, or dropped
by `AbortAll`; that a thread that has not merged has no outcome; and that after the cancellation nobody
begins to merge. `QuietAfterClose` is about `source.Merge`: once `Close` returned without an error no thread is inside
it. A caller that passed the check before may still spawn a thread, which then ends without merging.

`ServiceProofs`, snapshots: `SnapshotsAreKept` (`SnapshotsHeld` holds always), for any number of goroutines, commits,
files, snapshots of a commit, restarts and failed saves, and either wrapped policy. The invariant is that the newest
file has the last timestamp and a save never deletes it (`PolicyTypes`); that until the first crash a count is
the snapshots handed out plus those being taken, a cardinality (`RefInv`); and in careful use, that the newest file,
or the one being written, differs from what is pinned only at the generation of an operation whose save has still to
begin (`Pinned`), and lists every snapshot the application was given (`Written`), which is what carries the promise
over a crash between any two steps.

`IndexCommitProofs`: the six properties of the run `index_commit`, for a deletion policy that keeps any number
of commits and any number of segments, generations, calls of `PrepareCommit`, failures and crashes, with and
without dropped segments and `Close`: `CommitsAreComplete`, `AcknowledgedCommitSurvives`, `HeldFilesStay`,
`CountsAreExact`, `RollbackReturnsToCommit` and `NamesAreFresh` (`CommitsComplete`, `AckedSurvives`,
`HeldFilesOnDisk`, `FilesCounted`, `RollbackRestores`, `NamesFresh`). The assumptions are those of the module
(the policy keeps at least one commit, `None` is no goroutine, the bounds are natural numbers) and `Serial`: one
goroutine is in the writer, and the machine does not lose power. Both are needed: with a second
goroutine a checkpoint pins files it did not count and a file of the pending commit is deleted, and a loss of
power takes segment files of an acknowledged commit (finding 2 and the table above). A crash of
the process may fall anywhere.

None of the six is inductive. What `CommitInv` adds:

- `Routed`: the steps left in `pc` are the end of an operation the code has, described by which step stands
  how far from the end of which operation (`Spot`) and which step follows which (`Follows`). Every other part is
  stated relative to that place, because subroutines put their steps in front.
- `Locked`, `Committing`, `RollingBack`: what holds at which step: who has the deleter's mutex, which
  generation the pending commit is written under, when `segments_N` exists and when the commit is registered,
  when the segments are those of the last commit again.
- `Durable`: what survives the process. Every `segments_N` records its own generation and can be read unless its
  own deletion failed, the last acknowledged commit or a later one is there, every committed name is below the
  counter of such a commit, and a `segments_N` whose deletion failed is followed by as many commits as the policy
  keeps (`Outlived`): the policy of the next writer lets it go again, and every commit the writer retains is whole.
- `Live`, while the writer is open or being opened: each count is the number of holders also in the
  middle of a deletion, and after a checkpoint that failed the files of the segments have references nobody will
  release (`Counted`); what is counted is on disk, and its deletion has not failed (`OnDisk`); what is about to be
  deleted is not counted and goes after the `segments_N` that names it (`Deletions`, which carries `CommitsComplete`
  over any number of batches, over the two passes of each, over a deletion that fails and over a crash between
  them); the deleter's commits are those of the directory, oldest first, but for those whose deletion is to come or
  failed, and the last one is the acknowledged one or that of the `Commit` that failed (`Retaining`); generations and
  names in use are below the writer's (`Generations`, `Numbered`); and the files of unpublished segments are there,
  uncounted and not about to be deleted (`Ticketed`).
- `Strayed`: the exception in `OnDisk`. After a `Commit` that failed with its commit on disk, a rollback restores the
  segments of a commit the policy let go, and its checkpoint counts files that are gone, once.

There is one lemma per action, or per group of actions that touch the same variables. The lemmas about data are
about the maximum of a finite set of integers (`Largest`), the number of commits that hold a file after one is
appended (`CountAppend`) or as far as one has let go (`BeforeNext`, `BeforeSplit`), what the policy's deletion of any
number of commits leaves (`Deleted`, `LetGo`), and the sequence of the commits found in the directory (`Loaded`), for
which the `n`-th smallest generation is shown to exist.

`ApplyUpdatesProofs`: `PacketsAreResolved` (`PacketsResolved` holds always), for any number of goroutines, tickets,
flushes, imports, skipped segments and places in the event queue, from the assumptions of the module. It is about `Spec`, whose
operations all return; `ReaderSpec` differs in `GetReader`, which blocks itself.

The property speaks of the moment a goroutine leaves `waitApply`, long after the packets and segments it answers for
were read. The invariant `ApplyInv` carries the obligation there:

- `Plan`: the steps left in `pc` are the rest of an operation the code has, given by which step may stand behind which
  (`Follows`), which steps may come last, and that a `tryWait` has the second loop of `waitApply` behind it.
- `Resolving`: from the moment the wait read its packets, each of them has been applied to each older segment that was
  published then, or an application of it skipped that segment, or it is still to come: in a step of its own, among the packets `TryApply` passed because another
  goroutine had the lock, or with the list of segments the goroutine collected under the packet's lock and has yet to
  apply it to. A packet that was passed is not taken as done by the one who passed it: its second loop waits
  for the lock and applies it again.
- Who holds which lock: the lock of a packet is held by exactly the goroutine between collecting and applying, `purgeMu`
  by exactly the one that publishes a ticket.
- `Budget` and `Imports`: a ticket in hand leaves room for the generations it will draw, and an import belongs to a flush
  that was counted, so that generations and segments stay within those the types have.

A step puts the steps of a subroutine in front of a plan or takes the first one off; the lemmas about data are about
such sequences, and about the packets in the order of their generations (`Sorted`), every one of which is there.

Only model-checked: liveness (`EveryTicketPublished`, `StallEnds`, `FinishReturns`, `OpsReturn`, `Woken`), which
is out of the prover's reach, and what the two violation runs and the disagreements show. Every invariant and action
property of a passing run is stated by a theorem.

## Not modelled

Most of the repository is sequential work on data: codecs and their older versions, analysers and
stemmers, queries and scorers, automata, FSTs, geometry, parsers. These are thousands of functions from
bytes or text to bytes or text, which TLC cannot usefully enumerate and of which a model shorter than the code
would say nothing the code's tests do not say. That is more than nine tenths of the source lines, so the
share of all lines that these modules stand for stays small, while the concurrent and the crash-prone
part is covered. `PROJECT.json` lists every part with the reason.

Of the part with state: merges inside the writer (registration, commit of a merge), `ReaderPool` and
`ReadersAndUpdates`, doc-values updates, the document counters, NRT replication, throttling of merges,
`SearcherLifetimeManager` (its cleanup releases the reference its
caller releases as well, and its `Close` waits for the cleanup with the mutex the cleanup needs),
`SleepingLockWrapper` and the test factories.

## Plan

1. `ReaderPool` and the merges of the writer; NRT replication with lost and repeated copies.
