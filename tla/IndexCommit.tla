----------------------------- MODULE IndexCommit -----------------------------
(***************************************************************************)
(* The commit path of IndexWriter: publishing flushed segments, the two    *)
(* phases of a commit (SegmentInfos), the reference counts that decide     *)
(* when a file is deleted (IndexFileDeleter over util.FileDeleter),        *)
(* rollback, close, and opening the index again after a crash.             *)
(*                                                                         *)
(* The files of one segment are one file.  A goroutine runs the steps of   *)
(* an operation in order: pc[p] is the sequence of steps it still has to   *)
(* take, a step that calls a subroutine puts the subroutine's steps in     *)
(* front.  A crash may fall between any two steps, and so between the      *)
(* deletion of any two files.                                              *)
(***************************************************************************)
EXTENDS Integers, Sequences, FiniteSets, FiniteSetsExt

CONSTANTS
  Procs,        \* goroutines that use the writer
  Keep,         \* commits the deletion policy keeps (1: KeepOnlyLastCommit)
  MaxSegments,  \* bound: segment names
  MaxGen,       \* bound: commit generations
  MaxCrashes,   \* bound: crashes
  MaxPrepares,  \* bound: calls of PrepareCommit
  MaxFailures,  \* bound: failing writes, renames, syncs and deletions
  Drops,        \* TRUE: segments may turn out fully deleted
  Closes,       \* TRUE: the application calls Close
  PowerLoss     \* TRUE: a crash may lose files that were never synced

ASSUME KeepAssumption == Keep \in Nat \ {0}
ASSUME BoundAssumption ==
  /\ MaxSegments \in Nat \ {0} /\ MaxGen \in Nat \ {0}
  /\ MaxCrashes \in Nat /\ MaxPrepares \in Nat /\ MaxFailures \in Nat
ASSUME FlagAssumption == {Drops, Closes, PowerLoss} \subseteq BOOLEAN

None     == "none"  \* no goroutine
ASSUME NoneAssumption == None \notin Procs
NoSeg    == -1      \* no segment
\* no commit: nil
NoCommit == [info |-> [gen |-> -1, segs |-> {}, counter |-> 0], pending |-> FALSE]

Names    == 0 .. MaxSegments - 1
Gens     == 1 .. MaxGen
Seg(s)   == <<"seg", s>>
SegsN(n) == <<"segments", n>>
Pending(n) == <<"pending_segments", n>>
SegFiles == {Seg(s) : s \in Names}
Files    == SegFiles \cup {SegsN(n) : n \in Gens}

Locks == {"commitLock", "fullFlushLock", "purgeMu", "mu", "deleter.mu"}

VARIABLES
  disk,      \* the files in the directory
  content,   \* generation -> the segments and the counter its file records
  state,     \* "down", "sweeping" and "opening" (the constructor), "open",
             \* "closed" (rolled back), "failed" (given up by the application)
  closing,   \* IndexWriter.closing
  infos,     \* IndexWriter.segmentInfos: segments, generation, counter
  tickets,   \* flushed segments that wait to be published; NoSeg: a ticket
             \* whose publication failed
  fresh,     \* the segment the holder of purgeMu publishes
  clone,     \* toCommit of prepareCommitInternal
  pend,      \* IndexWriter.pendingCommit, or NoCommit
  backup,    \* IndexWriter.rollbackSegments
  dirty,     \* changeCount # lastCommitChangeCount
  pdirty,    \* changeCount # pendingCommitChangeCount
  refs,      \* FileDeleter.refCounts
  last,      \* IndexFileDeleter.lastFiles
  commits,   \* IndexFileDeleter.commits, oldest first
  todo,      \* batches of files the holder of deleter.mu is deleting
  errs,      \* a deletion or a decRef of its operation failed
  lock,      \* lock -> the goroutine that holds it
  pc,        \* goroutine -> the steps it still has to take
  acked,     \* history: the last commit that Commit acknowledged or a writer opened
  committed, \* history: segments some acknowledged commit contained
  leaks,     \* history: references on a file that no holder will release
  undeleted, \* history: files that are there because they could not be deleted
  unacked,   \* history: the commit on disk whose Commit returned an error, 0: none
  crashes, prepares, failures

mem  == <<closing, infos, tickets, fresh, clone, pend, backup, dirty, pdirty>>
del  == <<refs, last, commits, todo, errs>>
hist == <<acked, committed, leaks, undeleted, unacked, crashes, prepares, failures>>
vars == <<disk, content, state, mem, del, lock, pc, hist>>

Commit0 == [gen |-> 0, segs |-> {}, counter |-> 0]

Init ==
  /\ disk = {} /\ content = [n \in Gens |-> Commit0]
  /\ state = "down" /\ closing = FALSE
  /\ infos = Commit0 /\ tickets = <<>> /\ fresh = NoSeg
  /\ clone = NoCommit /\ pend = NoCommit /\ backup = {}
  /\ dirty = FALSE /\ pdirty = FALSE
  /\ refs = [f \in Files |-> 0] /\ last = {} /\ commits = <<>> /\ todo = <<>>
  /\ errs = FALSE
  /\ lock = [l \in Locks |-> None] /\ pc = [p \in Procs |-> <<>>]
  /\ acked = Commit0 /\ committed = {} /\ leaks = [f \in Files |-> 0]
  /\ undeleted = {} /\ unacked = 0 /\ crashes = 0 /\ prepares = 0 /\ failures = 0

-----------------------------------------------------------------------------
(* util.FileDeleter and IndexFileDeleter *)

\* filesFromInfos
FilesOf(segs) == {Seg(s) : s \in segs}
CommitFiles(c) == FilesOf(c.segs) \cup {SegsN(c.gen)}

\* FileDeleter.IncRefAll
IncRefAll(r, fs) == [f \in Files |-> IF f \in fs THEN r[f] + 1 ELSE r[f]]

\* FileDeleter.DecRefAll: a file with no reference is an error, and skipped
DecRefs(r, fs) ==
  [f \in Files |-> IF f \in fs /\ r[f] > 0 THEN r[f] - 1 ELSE r[f]]
Zeroed(r, fs) == {f \in fs : r[f] = 1}
Unowned(r, fs) == \E f \in fs : r[f] = 0

\* Mutant: the policy deletes one commit too many.
MutantKeepOneLess(cs) == {i \in DOMAIN cs : i + Keep <= Len(cs) + 1}

\* The commits the policy lets go, and those it keeps (oldest first).
OldCommits(cs)  == {i \in DOMAIN cs : i + Keep <= Len(cs)}
Expired(cs)  == SubSeq(cs, 1, Cardinality(OldCommits(cs)))
Retained(cs) == SubSeq(cs, Cardinality(OldCommits(cs)) + 1, Len(cs))

\* IndexFileDeleter.deleteCommits: each marked commit is decRef'd, in order,
\* and its zeroed files are deleted before the next commit's; errors are
\* joined.  The result is the counts after it, the batches of files to delete
\* and whether a decRef failed.
DeleteCommits(r, cs) ==
  LET After[i \in 0 .. Len(cs)] ==
        IF i = 0 THEN r ELSE DecRefs(After[i - 1], CommitFiles(cs[i]))
  IN  [refs  |-> After[Len(cs)],
       batch |-> [i \in 1 .. Len(cs) |->
                    Zeroed(After[i - 1], CommitFiles(cs[i]))],
       errs  |-> \E i \in 1 .. Len(cs) : Unowned(After[i - 1], CommitFiles(cs[i]))]

\* Mutant: a batch is deleted in one pass.
MutantOnePass(batch) == batch

\* FileDeleter.delete: the segments_N files of a batch go first.
NextUnlink(batch) ==
  LET s == {f \in batch : f[1] = "segments"} IN IF s # {} THEN s ELSE batch

Fail == failures < MaxFailures /\ failures' = failures + 1

\* One DeleteFile call of the batch in hand.  A missing file is no error.  An
\* error is remembered and the deletion goes on, with the second pass too.
Unlink ==
  /\ todo # <<>>
  /\ \E f \in NextUnlink(Head(todo)) :
       /\ todo' = <<Head(todo) \ {f}>> \o Tail(todo)
       /\ \/ /\ disk' = disk \ {f} /\ undeleted' = undeleted \ {f}
             /\ UNCHANGED <<errs, failures>>
          \/ /\ f \in disk /\ Fail
             /\ errs' = TRUE /\ undeleted' = undeleted \cup {f}
             /\ UNCHANGED disk

\* Every file of the batch was tried.
BatchEnd ==
  /\ todo # <<>> /\ Head(todo) = {} /\ todo' = Tail(todo)
  /\ UNCHANGED <<disk, errs, undeleted, failures>>

-----------------------------------------------------------------------------
(* Steps of a goroutine *)

At(p, step) == pc[p] # <<>> /\ Head(pc[p]) = step
\* Go on with these steps and then with the rest of the operation.
Then(p, steps) == pc' = [pc EXCEPT ![p] = steps \o Tail(@)]
Free(p, l) == lock[l] \in {None, p}
Take(p, l) == lock' = [lock EXCEPT ![l] = p]
Release(l) == lock' = [lock EXCEPT ![l] = None]
\* The operation returns: deferred unlocks run.
Return(p) ==
  /\ pc' = [pc EXCEPT ![p] = <<>>]
  /\ lock' = [l \in Locks |-> IF lock[l] = p THEN None ELSE lock[l]]

Change == dirty' = TRUE /\ pdirty' = TRUE

Checkpoint == <<"checkpoint", "pin">>
DoFlush == <<"flushAll", "purge", "endFullFlush", "pool", "poolDrop", "poolEnd">>
Prepare == <<"clone", "protect", "unlink">>
Finish  == <<"write", "rename", "sync", "register", "unlink", "finish">>

\* Deleting under deleter.mu until nothing is left; then the mutex is released.
UnlinkStep(p) ==
  /\ At(p, "unlink")
  /\ \/ (Unlink \/ BatchEnd) /\ UNCHANGED <<pc, lock>>
     \/ /\ todo = <<>> /\ ~errs /\ Then(p, <<>>) /\ Release("deleter.mu")
        /\ UNCHANGED <<disk, todo, errs, undeleted, failures>>
  /\ UNCHANGED <<content, state, mem, refs, last, commits, acked, committed, leaks, unacked, crashes, prepares>>

\* The last step of the operation p is in.
Aim(p) == pc[p][Len(pc[p])]

\* The operation returns its error.  A writer whose Rollback failed is given
\* up: it is still open, with its scheduler, its queues and its lock as they are.
Fails(p) ==
  /\ Return(p)
  /\ state' = IF Aim(p) = "closed" THEN "failed" ELSE state

\* A file could not be deleted.  Commit returns the error of Checkpoint with
\* the new commit on disk and registered, and still pending; Rollback that of
\* DecRef, Refresh or Close.
UnlinkFails(p) ==
  /\ At(p, "unlink") /\ todo = <<>> /\ errs
  /\ errs' = FALSE /\ Fails(p)
  /\ unacked' = IF Aim(p) = "finish" THEN pend.info.gen ELSE unacked
  /\ UNCHANGED <<disk, content, mem, refs, last, commits, todo, acked, committed, leaks, undeleted, crashes, prepares, failures>>

\* Mutant: lastFiles is decRef'd before the files of segmentInfos are incRef'd.
MutantDecRefFirst(p) ==
  /\ At(p, "checkpoint") /\ lock["deleter.mu"] = None
  /\ refs' = IncRefAll(DecRefs(refs, last), FilesOf(infos.segs))
  /\ todo' = <<Zeroed(refs, last)>> /\ errs' = Unowned(refs, last)
  /\ Take(p, "deleter.mu") /\ Then(p, <<>>)
  /\ UNCHANGED <<disk, content, state, mem, last, commits, hist>>

\* IndexFileDeleter.Checkpoint(segmentInfos, false), first half: the files of
\* segmentInfos are incRef'd and lastFiles decRef'd.
CheckpointStep(p) ==
  /\ At(p, "checkpoint") /\ lock["deleter.mu"] = None
  /\ LET r == IncRefAll(refs, FilesOf(infos.segs))
     IN  /\ refs' = DecRefs(r, last)
         /\ todo' = <<Zeroed(r, last)>> /\ errs' = Unowned(r, last)
  /\ Take(p, "deleter.mu") /\ Then(p, <<>>)
  /\ UNCHANGED <<disk, content, state, mem, last, commits, hist>>

\* Second half: what was zeroed is deleted, then lastFiles is computed from
\* segmentInfos once more.
PinStep(p) ==
  /\ At(p, "pin")
  /\ \/ (Unlink \/ BatchEnd) /\ UNCHANGED <<pc, lock, last>>
     \/ /\ todo = <<>> /\ ~errs
        /\ last' = FilesOf(infos.segs)
        /\ Then(p, <<>>) /\ Release("deleter.mu")
        /\ UNCHANGED <<disk, todo, errs, undeleted, failures>>
  /\ UNCHANGED <<content, state, mem, refs, commits, acked, committed, leaks, unacked, crashes, prepares>>

\* A file could not be deleted: lastFiles is cleared, and the references the
\* checkpoint took are left to nobody.  doFlush ignores the error of
\* writeReaderPool, which drops no segment after it; a publication returns it,
\* and its ticket stays at the head of the queue, marked as published.
PinFails(p) ==
  /\ At(p, "pin") /\ todo = <<>> /\ errs
  /\ errs' = FALSE /\ last' = {} /\ leaks' = IncRefAll(leaks, FilesOf(infos.segs))
  /\ LET next == pc[p][2]
     IN  \/ /\ next \in {"poolDrop", "poolEnd"}
            /\ pc' = [pc EXCEPT ![p] = IF next = "poolDrop" THEN Tail(Tail(@)) ELSE Tail(@)]
            /\ Release("deleter.mu") /\ UNCHANGED <<state, tickets, fresh>>
         \/ /\ next \in {"dropNew", "purge"} /\ Fails(p)
            /\ tickets' = <<NoSeg>> \o tickets /\ fresh' = NoSeg
         \/ next = "refresh" /\ Fails(p) /\ UNCHANGED <<tickets, fresh>>
  /\ UNCHANGED <<disk, content, closing, infos, clone, pend, backup, dirty, pdirty, refs, commits, todo, acked, committed, undeleted, unacked, crashes, prepares, failures>>

\* A DWPT is flushed: newSegmentName under IndexWriter.mu, the segment's file,
\* and its ticket.
NewSegment(p) ==
  /\ infos.counter < MaxSegments /\ lock["mu"] = None
  /\ infos' = [infos EXCEPT !.counter = @ + 1]
  /\ disk' = disk \cup {Seg(infos.counter)}
  /\ tickets' = Append(tickets, infos.counter)
  /\ Change

\* An indexing goroutine flushes its DWPT and publishes (AfterSegmentsFlushed).
FlushDWPT(p) ==
  /\ state = "open" /\ pc[p] = <<>>
  /\ NewSegment(p)
  /\ pc' = [pc EXCEPT ![p] = <<"tryPurge">>]
  /\ UNCHANGED <<content, state, closing, fresh, clone, pend, backup, del, lock, hist>>

\* publishFlushedSegments(false) gives up when another goroutine publishes.
TryPurge(p) ==
  /\ At(p, "tryPurge")
  /\ Then(p, IF lock["purgeMu"] = None THEN <<"purge">> ELSE <<>>)
  /\ lock' = IF lock["purgeMu"] = None THEN [lock EXCEPT !["purgeMu"] = p] ELSE lock
  /\ UNCHANGED <<disk, content, state, mem, del, hist>>

\* publishFlushedSegment of the next ticket: segmentInfos.Add, then a
\* checkpoint, then the check for a segment whose documents are all deleted.
PublishSegment(p) ==
  /\ At(p, "purge") /\ Free(p, "purgeMu") /\ tickets # <<>> /\ Head(tickets) # NoSeg /\ ~closing
  /\ infos' = [infos EXCEPT !.segs = @ \cup {Head(tickets)}]
  /\ tickets' = Tail(tickets) /\ fresh' = Head(tickets)
  /\ Take(p, "purgeMu")
  /\ pc' = [pc EXCEPT ![p] = <<"changed">> \o Checkpoint \o <<"dropNew">> \o @]
  /\ UNCHANGED <<disk, content, state, closing, clone, pend, backup, dirty, pdirty, del, hist>>

\* IndexWriter.changed, on the way to a checkpoint.
ChangedStep(p) ==
  /\ At(p, "changed") /\ Change /\ Then(p, <<>>)
  /\ UNCHANGED <<disk, content, state, closing, infos, tickets, fresh, clone, pend, backup, del, lock, hist>>

\* publishFlushedSegment refuses a writer that is closing; the ticket is
\* marked by then.
PublishRefused(p) ==
  /\ At(p, "purge") /\ Free(p, "purgeMu") /\ tickets # <<>> /\ Head(tickets) # NoSeg /\ closing
  /\ tickets' = <<NoSeg>> \o Tail(tickets)
  /\ Fails(p)
  /\ UNCHANGED <<disk, content, closing, infos, fresh, clone, pend, backup, dirty, pdirty, del, hist>>

\* MarkPublished panics at the ticket of a publication that failed, in every
\* later purge: the process ends.
PublishPanics(p) ==
  /\ At(p, "purge") /\ Free(p, "purgeMu") /\ tickets # <<>> /\ Head(tickets) = NoSeg
  /\ Return(p) /\ state' = "failed"
  /\ UNCHANGED <<disk, content, mem, del, hist>>

PurgeEnd(p) ==
  /\ At(p, "purge") /\ Free(p, "purgeMu") /\ tickets = <<>>
  /\ Then(p, <<>>) /\ Release("purgeMu")
  /\ UNCHANGED <<disk, content, state, mem, del, hist>>

\* dropDeletedSegment of the new segment, followed by a checkpoint.
DropNew(p) ==
  /\ At(p, "dropNew")
  /\ \/ Then(p, <<>>) /\ UNCHANGED infos
     \/ /\ Drops
        /\ infos' = [infos EXCEPT !.segs = @ \ {fresh}]
        /\ Then(p, <<"changed">> \o Checkpoint)
  /\ fresh' = NoSeg
  /\ UNCHANGED <<disk, content, state, closing, tickets, clone, pend, backup, dirty, pdirty, del, lock, hist>>

-----------------------------------------------------------------------------
(* doFlush *)

\* FlushAllThreads under fullFlushLock: what is buffered becomes a segment.
FlushAll(p) ==
  /\ At(p, "flushAll") /\ lock["fullFlushLock"] = None
  /\ \/ NewSegment(p)
     \/ UNCHANGED <<disk, infos, tickets, dirty, pdirty>>
  /\ Take(p, "fullFlushLock") /\ Then(p, <<>>)
  /\ UNCHANGED <<content, state, closing, fresh, clone, pend, backup, del, hist>>

EndFullFlush(p) ==
  /\ At(p, "endFullFlush")
  /\ Release("fullFlushLock") /\ Then(p, <<>>)
  /\ UNCHANGED <<disk, content, state, mem, del, hist>>

\* writeReaderPool under IndexWriter.mu: checkpointNoSIS ...
Pool(p) ==
  /\ At(p, "pool") /\ lock["mu"] = None
  /\ Take(p, "mu") /\ Change /\ Then(p, Checkpoint)
  /\ UNCHANGED <<disk, content, state, closing, infos, tickets, fresh, clone, pend, backup, del, hist>>

\* ... and the pooled segments that are fully deleted are dropped.
PoolDrop(p) ==
  /\ At(p, "poolDrop")
  /\ \/ Then(p, <<>>) /\ UNCHANGED infos
     \/ \E D \in (SUBSET infos.segs) \ {{}} :
          /\ Drops
          /\ infos' = [infos EXCEPT !.segs = @ \ D]
          /\ Then(p, <<"changed">> \o Checkpoint)
  /\ UNCHANGED <<disk, content, state, closing, tickets, fresh, clone, pend, backup, dirty, pdirty, del, lock, hist>>

PoolEnd(p) ==
  /\ At(p, "poolEnd")
  /\ Release("mu") /\ Then(p, <<>>)
  /\ UNCHANGED <<disk, content, state, mem, del, hist>>

\* IndexWriter.Flush, open to any goroutine.
Flush(p) ==
  /\ state = "open" /\ pc[p] = <<>>
  /\ pc' = [pc EXCEPT ![p] = DoFlush]
  /\ UNCHANGED <<disk, content, state, mem, del, lock, hist>>

-----------------------------------------------------------------------------
(* PrepareCommit and Commit *)

EnterCommit(p, steps) ==
  /\ state = "open" /\ ~closing /\ pc[p] = <<>> /\ lock["commitLock"] = None
  /\ Take(p, "commitLock")
  /\ pc' = [pc EXCEPT ![p] = steps]
  /\ UNCHANGED <<disk, content, state, mem, del, acked, committed, leaks, undeleted, unacked, crashes, failures>>

\* Not called while a commit is on disk whose Commit failed: segmentInfos would
\* lead to the generation of that commit again.
PrepareCommit(p) ==
  /\ unacked = 0 /\ prepares < MaxPrepares /\ prepares' = prepares + 1
  /\ EnterCommit(p, DoFlush \o Prepare \o <<"return">>)

Commit(p) ==
  /\ \/ (IF pend = NoCommit THEN infos ELSE pend.info).gen < MaxGen
     \/ pend # NoCommit /\ pend.pending
  /\ EnterCommit(p, (IF pend = NoCommit THEN DoFlush \o Prepare ELSE <<>>) \o Finish)
  /\ UNCHANGED prepares

ReturnStep(p) ==
  /\ At(p, "return") /\ Return(p)
  /\ UNCHANGED <<disk, content, state, mem, del, hist>>

\* prepareCommitInternal: toCommit := segmentInfos.Clone()
Clone(p) ==
  /\ At(p, "clone")
  /\ clone' = [info |-> infos, pending |-> FALSE]
  /\ Then(p, <<>>)
  /\ UNCHANGED <<disk, content, state, closing, infos, tickets, fresh, pend, backup, dirty, pdirty, del, lock, hist>>

\* pendingCommitChangeCount is read, the clone's files are incRef'd and it
\* becomes the pending commit, whether or not there is one already.
Protect(p) ==
  /\ At(p, "protect") /\ lock["deleter.mu"] = None
  /\ refs' = IncRefAll(refs, FilesOf(clone.info.segs))
  /\ pend' = clone /\ clone' = NoCommit /\ pdirty' = FALSE
  /\ leaks' = IncRefAll(leaks, FilesOf(pend.info.segs))
  /\ Take(p, "deleter.mu") /\ Then(p, <<>>)
  /\ UNCHANGED <<disk, content, state, closing, infos, tickets, fresh, backup, dirty, last, commits, todo, errs, acked, committed, undeleted, unacked, crashes, prepares, failures>>

\* finishCommit takes IndexWriter.mu; SegmentInfos.PrepareCommit writes and
\* syncs pending_segments_N.  The generation advances even if that fails.
Write(p) ==
  /\ At(p, "write") /\ lock["mu"] = None /\ ~pend.pending
  /\ LET n == pend.info.gen + 1
     IN  /\ disk' = disk \cup {Pending(n)}
         /\ content' = [content EXCEPT ![n] = [pend.info EXCEPT !.gen = n]]
         /\ pend' = [info |-> [pend.info EXCEPT !.gen = n], pending |-> TRUE]
  /\ Take(p, "mu") /\ Then(p, <<>>)
  /\ UNCHANGED <<state, closing, infos, tickets, fresh, clone, backup, dirty, pdirty, del, hist>>

WriteFails(p) ==
  /\ At(p, "write") /\ lock["mu"] = None /\ ~pend.pending
  /\ Fail
  /\ pend' = [pend EXCEPT !.info.gen = @ + 1]
  /\ Return(p)
  /\ UNCHANGED <<disk, content, state, closing, infos, tickets, fresh, clone, backup, dirty, pdirty, del, acked, committed, leaks, undeleted, unacked, crashes, prepares>>

\* "prepareCommit was already called": the flag of a commit whose second phase
\* failed is never cleared.
WriteRefused(p) ==
  /\ At(p, "write") /\ lock["mu"] = None /\ pend.pending
  /\ Return(p)
  /\ UNCHANGED <<disk, content, state, mem, del, hist>>

\* SegmentInfos.FinishCommit: pending_segments_N becomes segments_N; when the
\* rename fails it is deleted (RollbackCommit).
Rename(p) ==
  /\ At(p, "rename")
  /\ disk' = (disk \ {Pending(pend.info.gen)}) \cup {SegsN(pend.info.gen)}
  /\ Then(p, <<>>)
  /\ UNCHANGED <<content, state, mem, del, lock, hist>>

RenameFails(p) ==
  /\ At(p, "rename") /\ Fail
  /\ disk' = disk \ {Pending(pend.info.gen)}
  /\ Return(p)
  /\ UNCHANGED <<content, state, mem, del, acked, committed, leaks, undeleted, unacked, crashes, prepares>>

\* SyncMetaData; when it fails segments_N is removed again.
Sync(p) ==
  /\ At(p, "sync")
  /\ pend' = [pend EXCEPT !.pending = FALSE]
  /\ Then(p, <<>>)
  /\ UNCHANGED <<disk, content, state, closing, infos, tickets, fresh, clone, backup, dirty, pdirty, del, lock, hist>>

SyncFails(p) ==
  /\ At(p, "sync") /\ Fail
  /\ disk' = disk \ {SegsN(pend.info.gen)}
  /\ Return(p)
  /\ UNCHANGED <<content, state, mem, del, acked, committed, leaks, undeleted, unacked, crashes, prepares>>

\* Mutant: pendingCommit is counted without segments_N.
MutantRegisterWithoutFile(p) ==
  /\ At(p, "register") /\ lock["deleter.mu"] = None
  /\ LET cs == Append(commits, pend.info)
         d  == DeleteCommits(IncRefAll(refs, FilesOf(pend.info.segs)), Expired(cs))
     IN  /\ refs' = d.refs /\ todo' = d.batch /\ errs' = d.errs
         /\ commits' = Retained(cs)
  /\ Take(p, "deleter.mu") /\ Then(p, <<>>)
  /\ UNCHANGED <<disk, content, state, mem, last, hist>>

\* IndexFileDeleter.Checkpoint(pendingCommit, true): the commit is counted,
\* the policy marks the commits to delete and deleteCommits decRefs them.
Register(p) ==
  /\ At(p, "register") /\ lock["deleter.mu"] = None
  /\ LET cs == Append(commits, pend.info)
         d  == DeleteCommits(IncRefAll(refs, CommitFiles(pend.info)), Expired(cs))
     IN  /\ refs' = d.refs /\ todo' = d.batch /\ errs' = d.errs
         /\ commits' = Retained(cs)
  /\ Take(p, "deleter.mu") /\ Then(p, <<>>)
  /\ UNCHANGED <<disk, content, state, mem, last, hist>>

\* The rest of finishCommit; the references Protect took are kept.
FinishCommit(p) ==
  /\ At(p, "finish")
  /\ infos' = [infos EXCEPT !.gen = pend.info.gen]
  /\ dirty' = pdirty /\ backup' = pend.info.segs /\ pend' = NoCommit
  /\ acked' = pend.info /\ committed' = committed \cup pend.info.segs
  /\ leaks' = IncRefAll(leaks, FilesOf(pend.info.segs)) /\ unacked' = 0
  /\ Return(p)
  /\ UNCHANGED <<disk, content, state, closing, tickets, fresh, clone, pdirty, del, undeleted, crashes, prepares, failures>>

-----------------------------------------------------------------------------
(* Rollback and Close *)

\* Mutant: the pending commit is not rolled back.
MutantRollbackKeepsPending(p) ==
  /\ EnterCommit(p, <<"abort", "purge", "restore">> \o Checkpoint
                     \o <<"refresh", "unlink", "closeDeleter", "unlink", "closed">>)
  /\ UNCHANGED prepares

\* IndexWriter.Rollback
Rollback(p) ==
  /\ EnterCommit(p, <<"abort", "purge", "discard", "unlink", "restore">> \o Checkpoint
                     \o <<"refresh", "unlink", "closeDeleter", "unlink", "closed">>)
  /\ UNCHANGED prepares

\* rollbackInternalNoCommit takes fullFlushLock; merges and DWPTs are aborted.
Abort(p) ==
  /\ At(p, "abort") /\ lock["fullFlushLock"] = None
  /\ Take(p, "fullFlushLock") /\ Then(p, <<>>)
  /\ UNCHANGED <<disk, content, state, mem, del, hist>>

\* SegmentInfos.RollbackCommit and deleter.DecRef of the pending commit.
Discard(p) ==
  /\ At(p, "discard") /\ lock["deleter.mu"] = None
  /\ IF pend = NoCommit
     THEN UNCHANGED <<disk, refs, todo, errs, pend>>
     ELSE /\ disk' = disk \ {Pending(pend.info.gen)}
          /\ refs' = DecRefs(refs, FilesOf(pend.info.segs))
          /\ todo' = <<Zeroed(refs, FilesOf(pend.info.segs))>>
          /\ errs' = Unowned(refs, FilesOf(pend.info.segs))
          /\ pend' = NoCommit
  /\ Take(p, "deleter.mu") /\ Then(p, <<>>)
  /\ UNCHANGED <<content, state, closing, infos, tickets, fresh, clone, backup, dirty, pdirty, last, commits, hist>>

\* RollbackSegmentInfos
Restore(p) ==
  /\ At(p, "restore")
  /\ infos' = [infos EXCEPT !.segs = backup]
  /\ Then(p, <<>>)
  /\ UNCHANGED <<disk, content, state, closing, tickets, fresh, clone, pend, backup, dirty, pdirty, del, lock, hist>>

\* IndexFileDeleter.Refresh: every file without a reference is deleted.
Refresh(p) ==
  /\ At(p, "refresh") /\ lock["deleter.mu"] = None
  /\ todo' = <<{f \in disk : f \notin Files \/ refs[f] = 0}>>
  /\ Take(p, "deleter.mu") /\ Then(p, <<>>)
  /\ UNCHANGED <<disk, content, state, mem, refs, last, commits, errs, hist>>

\* IndexFileDeleter.Close
CloseDeleter(p) ==
  /\ At(p, "closeDeleter") /\ lock["deleter.mu"] = None
  /\ refs' = DecRefs(refs, last) /\ todo' = <<Zeroed(refs, last)>> /\ last' = {}
  /\ errs' = Unowned(refs, last)
  /\ Take(p, "deleter.mu") /\ Then(p, <<>>)
  /\ UNCHANGED <<disk, content, state, mem, commits, hist>>

\* The writer is closed and write.lock released.
Closed(p) ==
  /\ At(p, "closed")
  /\ state' = "closed" /\ dirty' = FALSE /\ Return(p)
  /\ UNCHANGED <<disk, content, closing, infos, tickets, fresh, clone, pend, backup, pdirty, del, hist>>

\* IndexWriter.Close: the first call sets closing and returns nil.  A later
\* one commits, which a closing writer refuses.
Close(p) ==
  /\ Closes /\ state = "open" /\ pc[p] = <<>> /\ ~closing
  /\ closing' = TRUE
  /\ UNCHANGED <<disk, content, state, infos, tickets, fresh, clone, pend, backup, dirty, pdirty, del, lock, pc, hist>>

-----------------------------------------------------------------------------
(* Crash and NewIndexWriter *)

GensOnDisk == {n \in Gens : SegsN(n) \in disk}
Latest == IF GensOnDisk = {} THEN 0 ELSE Max(GensOnDisk)
NamesOnDisk == {s \in Names : Seg(s) \in disk}
PendingOnDisk == {n \in Gens : Pending(n) \in disk}

\* A commit can be read when the files of its segments are there.
Readable(n) == FilesOf(content[n].segs) \subseteq disk

\* The memory of the writer is gone.
Down ==
  /\ state' = "down"
  /\ closing' = FALSE /\ infos' = Commit0 /\ tickets' = <<>> /\ fresh' = NoSeg
  /\ clone' = NoCommit /\ pend' = NoCommit /\ backup' = {} /\ dirty' = FALSE /\ pdirty' = FALSE
  /\ refs' = [f \in Files |-> 0] /\ last' = {} /\ commits' = <<>> /\ todo' = <<>> /\ errs' = FALSE
  /\ leaks' = [f \in Files |-> 0]
  /\ lock' = [l \in Locks |-> None] /\ pc' = [p \in Procs |-> <<>>]
  /\ UNCHANGED <<content, acked, committed, undeleted, unacked, prepares, failures>>

\* The process ends, at any moment or when its writer was given up.  The files
\* written are still there; after a loss of power only those that were synced
\* certainly are, and no file of a segment ever is.
Crash ==
  /\ \/ /\ state \in {"open", "sweeping", "opening"} /\ crashes < MaxCrashes
        /\ crashes' = crashes + 1
     \/ state = "failed" /\ UNCHANGED crashes
  /\ \E lost \in IF PowerLoss THEN SUBSET (disk \cap SegFiles) ELSE {{}} :
       disk' = disk \ lost
  /\ Down

\* Mutant: the counter of the commit is not taken over.
MutantCounterFromFiles(c) == Max({s + 1 : s \in NamesOnDisk} \cup {0})

\* inflateGens: generation and counter move past every name in the directory.
InflatedGen == Max(GensOnDisk \cup PendingOnDisk \cup {0})
InflatedCounter(c) == Max({s + 1 : s \in NamesOnDisk} \cup {c})

\* The commits of the directory, oldest first.
CommitsOnDisk ==
  [i \in 1 .. Cardinality(GensOnDisk) |->
     content[CHOOSE n \in GensOnDisk : Cardinality({m \in GensOnDisk : m <= n}) = i]]

\* NewIndexWriter (CreateOrAppend) and NewIndexFileDeleter: the latest commit
\* is the writer's, every commit is loaded and counted, whether or not the
\* files of its segments are there, generations are inflated, files nobody
\* refers to are deleted, then the policy's OnInit and a checkpoint of
\* segmentInfos.
Open ==
  /\ state \in {"down", "closed"} /\ \A p \in Procs : pc[p] = <<>>
  /\ LET cs == CommitsOnDisk
         latest == IF GensOnDisk = {} THEN Commit0 ELSE content[Latest]
         counted == [f \in Files |-> Cardinality({i \in DOMAIN cs : f \in CommitFiles(cs[i])})]
         d == DeleteCommits(IncRefAll(counted, FilesOf(latest.segs)), Expired(cs))
     IN  /\ infos' = [segs |-> latest.segs, gen |-> InflatedGen,
                      counter |-> InflatedCounter(latest.counter)]
         /\ backup' = latest.segs
         /\ refs' = d.refs /\ last' = FilesOf(latest.segs) /\ commits' = Retained(cs)
         /\ todo' = <<{f \in disk : f \notin Files \/ counted[f] = 0}>> \o d.batch
         /\ errs' = d.errs
  /\ state' = "sweeping"
  /\ dirty' = (GensOnDisk = {}) /\ pdirty' = (GensOnDisk = {})
  /\ acked' = IF GensOnDisk = {} THEN acked ELSE content[Latest]
  /\ tickets' = <<>> /\ pend' = NoCommit /\ closing' = FALSE
  /\ leaks' = [f \in Files |-> 0] /\ unacked' = 0
  /\ UNCHANGED <<disk, content, fresh, clone, lock, pc, committed, undeleted, crashes, prepares, failures>>

\* The constructor deletes the files nobody refers to, then those of the
\* commits the policy let go.
Opening ==
  /\ \/ state \in {"sweeping", "opening"} /\ Unlink /\ UNCHANGED state
     \/ state = "sweeping" /\ ~errs /\ BatchEnd /\ state' = "opening"
     \/ state = "opening" /\ BatchEnd /\ UNCHANGED state
     \/ /\ state = "opening" /\ todo = <<>> /\ ~errs /\ state' = "open"
        /\ UNCHANGED <<disk, todo, errs, undeleted, failures>>
  /\ UNCHANGED <<content, mem, refs, last, commits, lock, pc, acked, committed, leaks, unacked, crashes, prepares>>

\* A file could not be deleted: after the sweep, or after the commits, the
\* constructor returns the error.
OpenFails ==
  /\ errs
  /\ \/ state = "sweeping" /\ Head(todo) = {}
     \/ state = "opening" /\ todo = <<>>
  /\ Down
  /\ UNCHANGED <<disk, crashes>>

-----------------------------------------------------------------------------

CommitSteps(p) ==
  \/ PrepareCommit(p) \/ Commit(p) \/ ReturnStep(p) \/ Clone(p) \/ Protect(p)
  \/ Write(p) \/ WriteFails(p) \/ WriteRefused(p) \/ Rename(p) \/ RenameFails(p)
  \/ Sync(p) \/ SyncFails(p) \/ Register(p) \/ FinishCommit(p)

FlushSteps(p) ==
  \/ FlushDWPT(p) \/ TryPurge(p) \/ PublishSegment(p) \/ ChangedStep(p)
  \/ PublishRefused(p) \/ PublishPanics(p) \/ PurgeEnd(p) \/ DropNew(p) \/ FlushAll(p) \/ EndFullFlush(p)
  \/ Pool(p) \/ PoolDrop(p) \/ PoolEnd(p) \/ Flush(p)
  \/ UnlinkStep(p) \/ UnlinkFails(p) \/ CheckpointStep(p) \/ PinStep(p) \/ PinFails(p)

CloseSteps(p) ==
  \/ Rollback(p) \/ Abort(p) \/ Discard(p) \/ Restore(p) \/ Refresh(p)
  \/ CloseDeleter(p) \/ Closed(p) \/ Close(p)

Next ==
  \/ Open \/ Opening \/ OpenFails \/ Crash
  \/ \E p \in Procs : CommitSteps(p) \/ FlushSteps(p) \/ CloseSteps(p)

Spec == Init /\ [][Next]_vars

-----------------------------------------------------------------------------
(* Properties *)

CommitType == [gen : 0 .. MaxGen, segs : SUBSET Names, counter : 0 .. MaxSegments]
PendType == [info : CommitType, pending : BOOLEAN]

\* Types; files are only being deleted under deleter.mu or by the constructor.
TypeOK ==
  /\ disk \subseteq Files \cup {Pending(n) : n \in Gens}
  /\ content \in [Gens -> CommitType]
  /\ state \in {"down", "sweeping", "opening", "open", "closed", "failed"}
  /\ infos \in CommitType
  /\ tickets \in Seq(Names \cup {NoSeg}) /\ fresh \in Names \cup {NoSeg}
  /\ clone \in PendType \cup {NoCommit} /\ pend \in PendType \cup {NoCommit}
  /\ backup \subseteq Names /\ {dirty, pdirty, closing} \subseteq BOOLEAN
  /\ refs \in [Files -> Nat] /\ last \subseteq Files
  /\ commits \in Seq(CommitType)
  /\ lock \in [Locks -> Procs \cup {None}]
  /\ acked \in CommitType /\ committed \subseteq Names
  /\ undeleted \subseteq disk /\ unacked \in 0 .. MaxGen
  /\ todo # <<>> \/ errs => state \in {"sweeping", "opening"} \/ lock["deleter.mu"] # None

\* Every segments_N in the directory names segments whose files are there, at
\* every point of a commit, of the deletion of old commits and of opening: a
\* reader or a writer that opens the index at that moment, or after a crash at
\* that moment, can read every commit (the two passes of FileDeleter.delete).
\* The exception is a segments_N that could not be deleted: the second pass
\* takes the files it names all the same.
CommitsComplete == \A n \in GensOnDisk : Readable(n) \/ SegsN(n) \in undeleted

\* The commit that was acknowledged last is still the one a new writer or
\* reader finds, or a later one is, whatever crashes in between; no failed
\* commit replaces its content.
AckedSurvives ==
  acked.gen > 0 =>
    /\ Latest >= acked.gen /\ Readable(Latest)
    /\ SegsN(acked.gen) \in disk => content[acked.gen] = acked

\* No file that the live segments, the pending commit or a retained commit
\* refers to is deleted (the reference counts of IndexFileDeleter).  When
\* Commit failed with its commit on disk, the segments a rollback restores may
\* be those of a commit the policy let go.
HeldFilesOnDisk ==
  state = "open" =>
    /\ unacked = 0 \/ infos.segs # backup => FilesOf(infos.segs) \subseteq disk
    /\ pend # NoCommit => FilesOf(pend.info.segs) \subseteq disk
    /\ \A i \in DOMAIN commits : CommitFiles(commits[i]) \subseteq disk

\* Who refers to a file: retained commits, the last checkpoint, the pending
\* commit.
Holders(f) ==
  Cardinality({i \in DOMAIN commits : f \in CommitFiles(commits[i])})
  + (IF f \in last THEN 1 ELSE 0)
  + (IF f \in FilesOf(pend.info.segs) THEN 1 ELSE 0)

\* Between operations of the deleter a count is the number of holders, plus
\* the references finishCommit, a second PrepareCommit and a checkpoint that
\* failed leave behind.
RefsExact ==
  state = "open" /\ lock["deleter.mu"] = None =>
    \A f \in Files : refs[f] = Holders(f) + leaks[f]

\* The state has its types, files are deleted under the deleter's mutex only,
\* and the counts are exact.
FilesCounted == TypeOK /\ RefsExact

\* After Rollback the index is at the last commit known, or at the one whose
\* Commit returned an error after it was on disk; nothing of a commit in
\* progress is left, no file that could not be deleted before, and every other
\* file belongs to a commit or is one that a reference was left behind on.
RollbackRestores ==
  state = "closed" =>
    /\ Latest = (IF unacked = 0 THEN acked.gen ELSE unacked)
    /\ PendingOnDisk = {} /\ undeleted = {}
    /\ \A f \in disk : leaks[f] > 0 \/ \E i \in DOMAIN commits : f \in CommitFiles(commits[i])

\* A new segment never takes the name of a file that exists or of a segment
\* that was ever committed, across rollbacks and crashes (inflateGens and the
\* counter in segments_N).
NamesFresh ==
  [][infos'.counter = infos.counter + 1 /\ state = "open" =>
       infos.counter \notin committed /\ Seg(infos.counter) \notin disk]_vars

\* The pending commit's files are protected from the moment they are recorded.
PendingProtected ==
  state = "open" /\ pend # NoCommit => FilesOf(pend.info.segs) \subseteq disk

-----------------------------------------------------------------------------
(* What comments and tests of the code say and the code does not do: TLC   *)
(* reports each of these violated, with the constants README.md gives.     *)

\* Rollback returns to the commit that was acknowledged last.
RollbackReturns == state = "closed" => Latest = acked.gen

\* Removing the commit pointers first never leaves a half-deleted commit.
NoHalfDeletedCommit == \A n \in GensOnDisk : Readable(n)

\* The files IndexFileDeleter pins between checkpoints are files it counted.
CheckpointPins ==
  state = "open" /\ lock["deleter.mu"] = None => \A f \in last : refs[f] > 0

\* After Rollback no file is left that no commit refers to.
NoUnreferencedFiles ==
  state = "closed" => \A s \in NamesOnDisk :
    \E n \in GensOnDisk : s \in content[n].segs

\* PrepareCommit has staged the changes in the directory when it returns.
PreparedIsDurable ==
  state = "open" /\ pend # NoCommit /\ lock["commitLock"] = None =>
    PendingOnDisk # {}

\* When Close returns nil everything flushed is committed.
CloseCommits ==
  [][closing' /\ ~closing => tickets' = <<>> /\ infos'.segs = acked'.segs]_vars

\* While hasUncommittedChanges is FALSE the live segments are those of the
\* last commit (what NrtIsCurrent relies on).
CleanMeansCommitted ==
  state = "open" /\ ~dirty /\ (\A p \in Procs : pc[p] = <<>>) => infos.segs = acked.segs
=============================================================================
