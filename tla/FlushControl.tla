---------------------------- MODULE FlushControl ----------------------------
(***************************************************************************)
(* DocumentsWriterFlushControl with DocumentsWriterPerThreadPool and the   *)
(* default flush policy (index/documents_writer_flush_control.go,          *)
(* documents_writer_per_thread_pool.go, flush_by_ram_or_counts_policy.go), *)
(* and the goroutines of DocumentsWriter that use them:                    *)
(*   - indexing goroutines in UpdateDocuments, which obtain a DWPT, index  *)
(*     into it, account for it, release it, and flush what is pending;     *)
(*   - the holder of IndexWriter.fullFlushLock, in FlushAllThreads and     *)
(*     FinishFullFlush, or in a rollback (Close and Abort).                *)
(*                                                                         *)
(* Every section of code under c.mu is one step.  A DWPT is a name; each   *)
(* document adds one unit to what it uses.  The delete queues are reduced  *)
(* to their generation, a segment flush to one step.                       *)
(***************************************************************************)
EXTENDS Integers, Sequences, FiniteSets, FiniteSetsExt, SequencesExt

CONSTANTS Threads,         \* the indexing goroutines
          Flusher,         \* the goroutine that holds fullFlushLock
          MaxDWPTs,        \* bound on the DWPTs created
          MaxCalls,        \* bound on the calls of UpdateDocuments
          MayFail,         \* whether a document or a flush may fail
          MaxFullFlushes,  \* bound on the full flushes
          Rollbacks,       \* whether the writer may be rolled back
          RamBuffer,       \* RAMBufferSizeMB; 0 is DISABLE_AUTO_FLUSH
          HardMax,         \* hardMaxBytesPerDWPT
          MaxBufferedDocs, \* MaxBufferedDocs; 0 is DISABLE_AUTO_FLUSH
          Granularity,     \* ramBufferGranularity
          None             \* no goroutine, no DWPT

Actors == Threads \cup {Flusher}

\* DWPTs are numbered in the order of their creation.
DWPTs == 1..MaxDWPTs

ASSUME FlushControlAssumption ==
    /\ Flusher \notin Threads /\ None \notin Actors \cup DWPTs
    /\ MaxDWPTs \in Nat
    /\ MaxCalls \in Nat /\ MayFail \in BOOLEAN
    /\ MaxFullFlushes \in Nat /\ Rollbacks \in BOOLEAN
    /\ RamBuffer \in Nat /\ HardMax \in Nat /\ MaxBufferedDocs \in Nat
    /\ Granularity \in Nat

VARIABLES lock,        \* of each DWPT: the holder of its lock
          gen,         \* of each DWPT: the generation of its delete queue, 0 before it exists
          docs,        \* of each DWPT: numDocsInRAM, and what RamBytesUsed returns
          committed,   \* of each DWPT: lastCommittedBytesUsed
          pending,     \* the DWPTs with flushPending set
          registered,  \* pool.dwpts
          freeList,    \* pool.freeList
          queueGen,    \* the generation of dw.deleteQueue
          activeBytes, \* c.activeBytes
          flushBytes,  \* c.flushBytes
          numPending,  \* c.numPending
          fullFlush,   \* c.fullFlush
          markDone,    \* c.fullFlushMarkDone
          flushQueue,  \* c.flushQueue
          blocked,     \* c.blockedFlushes
          flushing,    \* c.flushingWriters
          stalled,     \* c.stallControl.stalled
          closed,      \* c.closed, dw.closed and pool.closed
          dwLock,      \* the holder of DocumentsWriter.lock
          pc,          \* what each goroutine is about to do
          mine,        \* the DWPT a goroutine has obtained
          out,         \* the DWPT a goroutine has checked out, to flush it
          seen,        \* what a goroutine read under c.mu: fullFlush, fullFlushMarkDone
          todo,        \* the DWPTs an iteration over the pool has still to visit
          buffer,      \* fullFlushBuffer of MarkForFullFlush
          flushed,     \* history: the DWPTs whose flush has ended
          aborted,     \* history: the DWPTs that were aborted instead
          calls        \* history: the number of calls of UpdateDocuments

dwptVars == <<lock, gen, docs>>
poolVars == <<registered, freeList>>
byteVars == <<committed, pending, activeBytes, flushBytes, numPending, stalled>>
fullVars == <<queueGen, fullFlush, markDone, closed, buffer>>
historyVars == <<flushed, aborted>>
listVars == <<flushQueue, blocked, flushing, historyVars>>
goVars == <<pc, mine, out, seen, todo, calls>>

vars == <<dwptVars, poolVars, byteVars, fullVars, listVars, goVars, dwLock>>

States == {"idle", "queued", "obtain", "get", "new", "check", "index", "after", "release", "failed",
           "free", "freeFailed", "post", "flush", "next", "iter", "scan",
           "filter", "lockAll", "wait", "finish",
           "abort", "abortAll", "abortWait", "done",
           "panicStale", "panicFree", "panicFinish", "panicError", "panic"}

TypeOK ==
    /\ lock \in [DWPTs -> Actors \cup {None}]
    /\ calls \in Nat
    /\ gen \in [DWPTs -> Nat] /\ docs \in [DWPTs -> Nat] /\ committed \in [DWPTs -> Nat]
    /\ pending \in SUBSET DWPTs /\ registered \in SUBSET DWPTs /\ freeList \in SUBSET DWPTs
    /\ queueGen \in Nat /\ activeBytes \in Nat /\ flushBytes \in Nat /\ numPending \in Nat
    /\ fullFlush \in BOOLEAN /\ markDone \in BOOLEAN /\ stalled \in BOOLEAN
    /\ closed \in BOOLEAN
    /\ flushQueue \in Seq(DWPTs) /\ blocked \in Seq(DWPTs) /\ buffer \in Seq(DWPTs)
    /\ flushing \in SUBSET DWPTs /\ flushed \in SUBSET DWPTs /\ aborted \in SUBSET DWPTs
    /\ dwLock \in Actors \cup {None}
    /\ pc \in [Actors -> States]
    /\ mine \in [Actors -> DWPTs \cup {None}] /\ out \in [Actors -> DWPTs \cup {None}]
    /\ seen \in [Actors -> [full : BOOLEAN, done : BOOLEAN]]
    /\ todo \in [Actors -> SUBSET DWPTs]

Unread == [full |-> FALSE, done |-> FALSE]

Init ==
    /\ lock = [d \in DWPTs |-> None]
    /\ gen = [d \in DWPTs |-> 0]
    /\ docs = [d \in DWPTs |-> 0] /\ committed = [d \in DWPTs |-> 0]
    /\ pending = {} /\ registered = {} /\ freeList = {}
    /\ queueGen = 1 /\ activeBytes = 0 /\ flushBytes = 0 /\ numPending = 0
    /\ fullFlush = FALSE /\ markDone = FALSE /\ stalled = FALSE /\ closed = FALSE
    /\ flushQueue = <<>> /\ blocked = <<>> /\ buffer = <<>>
    /\ flushing = {} /\ flushed = {} /\ aborted = {} /\ calls = 0
    /\ dwLock = None
    /\ pc = [t \in Actors |-> "idle"]
    /\ mine = [t \in Actors |-> None] /\ out = [t \in Actors |-> None]
    /\ seen = [t \in Actors |-> Unread]
    /\ todo = [t \in Actors |-> {}]

Goto(t, state) == pc' = [pc EXCEPT ![t] = state]

\* A panic ends the process.
PanicWith(state) ==
    /\ pc' = [t \in Actors |-> state]
    /\ UNCHANGED <<dwptVars, poolVars, byteVars, fullVars, listVars, mine, out, seen>>
    /\ UNCHANGED <<todo, calls, dwLock>>

Bytes(S) == MapThenSumSet(LAMBDA d : committed[d], S)

\* updateStallStateLocked, for the bytes a step leaves behind.
Stall(active, inFlush) ==
    /\ RamBuffer > 0 /\ ~closed
    /\ active + inFlush > 2 * RamBuffer
    /\ active < 2 * RamBuffer

\* pool.Checkout, with the DWPT's lock held.
Checkout(d) ==
    /\ registered' = registered \ {d}
    /\ freeList' = freeList \ {d}

\* The front of a queue of DWPTs, if there is one.
First(s) == IF s = <<>> THEN None ELSE Head(s)

\* The elements of s that are in D, in their order.
Keep(s, D) ==
    FoldLeft(LAMBDA kept, d : IF d \in D THEN Append(kept, d) ELSE kept, <<>>, s)

-----------------------------------------------------------------------------
(* ObtainAndLock.                                                          *)

\* preUpdate finds the session not stalled, and then looks at the queue ...
PreUpdate(t) ==
    /\ t \in Threads /\ pc[t] = "idle"
    /\ ~closed /\ ~stalled
    /\ calls < MaxCalls
    /\ Goto(t, "queued")
    /\ UNCHANGED <<dwptVars, poolVars, byteVars, fullVars, listVars, mine, out, seen>>
    /\ UNCHANGED <<todo, calls, dwLock>>

\* ... which is empty (IsCheckPendingFlushOnUpdate is taken to be set).
PreUpdateQueued(t) ==
    /\ pc[t] = "queued"
    /\ flushQueue = <<>>
    /\ calls < MaxCalls
    /\ calls' = calls + 1
    /\ Goto(t, "obtain")
    /\ UNCHANGED <<dwptVars, poolVars, byteVars, fullVars, listVars, mine, out, seen>>
    /\ UNCHANGED <<todo, dwLock>>

\* Otherwise it helps with a flush and then waits, for 100 ms at most.
PreUpdateStalled(t) ==
    /\ t \in Threads
    /\ \/ pc[t] = "idle" /\ ~closed /\ stalled
       \/ pc[t] = "queued" /\ flushQueue # <<>>
    /\ Goto(t, "next")
    /\ UNCHANGED <<dwptVars, poolVars, byteVars, fullVars, listVars, mine, out, seen>>
    /\ UNCHANGED <<todo, calls, dwLock>>

\* The flags are read under c.mu, which is let go before a DWPT is looked for.
ObtainAndLock(t) ==
    /\ pc[t] = "obtain"
    /\ seen' = [seen EXCEPT ![t] = [full |-> fullFlush, done |-> markDone]]
    /\ Goto(t, IF closed THEN "idle" ELSE "get")
    /\ UNCHANGED <<dwptVars, poolVars, byteVars, fullVars, listVars, mine, out, todo>>
    /\ UNCHANGED <<calls, dwLock>>

Pollable == {d \in freeList : lock[d] = None}

\* GetAndLock takes a DWPT from the free list, if it finds one it can lock ...
LockAndPoll(t) ==
    /\ pc[t] = "get"
    /\ IF closed THEN Goto(t, "idle") /\ UNCHANGED <<lock, freeList, mine>>
       ELSE IF Pollable = {} THEN Goto(t, "new") /\ UNCHANGED <<lock, freeList, mine>>
       ELSE \E d \in Pollable :
               /\ lock' = [lock EXCEPT ![d] = t]
               /\ freeList' = freeList \ {d}
               /\ mine' = [mine EXCEPT ![t] = d]
               /\ Goto(t, "check")
    /\ UNCHANGED <<gen, docs, registered, byteVars, fullVars, listVars, out, seen>>
    /\ UNCHANGED <<todo, calls, dwLock>>

\* ... and makes a new one if not, bound to the delete queue as it is now.
NewWriter(t) ==
    /\ pc[t] = "new"
    /\ IF closed THEN Goto(t, "idle") /\ UNCHANGED <<lock, gen, registered, mine>>
       ELSE \E d \in DWPTs :
               /\ {e \in DWPTs : gen[e] = 0} = d..MaxDWPTs
               /\ gen' = [gen EXCEPT ![d] = queueGen]
               /\ lock' = [lock EXCEPT ![d] = t]
               /\ registered' = registered \cup {d}
               /\ mine' = [mine EXCEPT ![t] = d]
               /\ Goto(t, "check")
    /\ UNCHANGED <<docs, freeList, byteVars, fullVars, listVars, out, seen, todo>>
    /\ UNCHANGED <<calls, dwLock>>

\* A DWPT of an older generation is let go, if the flags were read in its mark phase.
CheckQueue(t) ==
    /\ pc[t] = "check"
    /\ seen' = [seen EXCEPT ![t] = Unread]
    /\ IF gen[mine[t]] = queueGen
       THEN Goto(t, "index") /\ UNCHANGED <<lock, mine>>
       ELSE IF ~seen[t].full \/ seen[t].done
       THEN pc' = [u \in Actors |-> "panicStale"] /\ UNCHANGED <<lock, mine>>
       ELSE /\ lock' = [lock EXCEPT ![mine[t]] = None]
            /\ mine' = [mine EXCEPT ![t] = None]
            /\ Goto(t, "obtain")
    /\ UNCHANGED <<gen, docs, poolVars, byteVars, fullVars, listVars, out, todo, calls>>
    /\ UNCHANGED dwLock

-----------------------------------------------------------------------------
(* One UpdateDocuments call on the DWPT that was obtained.                 *)

\* A failed document is in the DWPT too, and the call panics with its error; the
\* application is taken to recover.
IndexDocument(t) ==
    /\ pc[t] = "index"
    /\ ~closed
    /\ docs' = [docs EXCEPT ![mine[t]] = @ + 1]
    /\ \/ Goto(t, "after")
       \/ MayFail /\ Goto(t, "failed")
    /\ UNCHANGED <<lock, gen, poolVars, byteVars, fullVars, listVars, mine, out, seen>>
    /\ UNCHANGED <<todo, calls, dwLock>>

\* ensureOpen fails: the writer was closed since preUpdate.
IndexClosed(t) ==
    /\ pc[t] = "index"
    /\ closed
    /\ Goto(t, "failed")
    /\ UNCHANGED <<dwptVars, poolVars, byteVars, fullVars, listVars, mine, out, seen>>
    /\ UNCHANGED <<todo, calls, dwLock>>

\* findLargestNonPendingWriterLocked, over the bytes that DWPT d has just committed.
Largest(d) ==
    LET size(e) == IF e = d THEN docs[d] ELSE committed[e]
        candidates == {e \in registered \ pending : docs[e] > 0}
    IN  {e \in candidates : \A f \in candidates : size(f) <= size(e)}

\* What FlushByRamOrCountsPolicy.OnChange marks; deletesRAM is what the delete
\* queue uses.  With activeRAM below the limit and deletesRAM above, only deletes.
OnChange(d, activeRAM, deletesRAM) ==
    IF MaxBufferedDocs > 0 /\ docs[d] >= MaxBufferedDocs THEN {{d}}
    ELSE IF /\ RamBuffer > 0
            /\ IF deletesRAM >= RamBuffer THEN activeRAM >= RamBuffer
                                         ELSE activeRAM + deletesRAM >= RamBuffer
         THEN {{e} : e \in Largest(d)}
         ELSE {{}}

\* The hard limit of a DWPT, after OnChange has marked those of M.
HardLimit(d, M) == IF d \notin M /\ docs[d] > HardMax THEN M \cup {d} ELSE M

\* The sets of DWPTs that DoAfterDocument may mark pending.
Marks(d) ==
    IF d \in pending THEN {{}}
    ELSE {HardLimit(d, M) : M \in UNION {OnChange(d, activeBytes + docs[d] - committed[d], r) :
                                             r \in 0..RamBuffer}}

\* Seeded mistake: the bytes to move are read before the delta is committed.
MutantMoveBeforeCommit(d, delta, M) ==
    /\ committed' = [committed EXCEPT ![d] = @ + delta]
    /\ pending' = pending \cup M
    /\ activeBytes' = activeBytes - Bytes(M) + (IF d \in pending THEN 0 ELSE delta)
    /\ flushBytes' = flushBytes + Bytes(M) + (IF d \in pending THEN delta ELSE 0)
    /\ stalled' = Stall(activeBytes', flushBytes')

\* setFlushPendingLocked of every DWPT of M, and the commit of delta by DWPT d.
Account(d, delta, M) ==
    LET bytes == Bytes(M) + (IF d \in M THEN delta ELSE 0)
    IN  /\ committed' = [committed EXCEPT ![d] = @ + delta]
        /\ pending' = pending \cup M
        /\ activeBytes' = activeBytes - bytes + (IF d \in pending THEN 0 ELSE delta)
        /\ flushBytes' = flushBytes + bytes + (IF d \in pending THEN delta ELSE 0)
        /\ stalled' = Stall(activeBytes', flushBytes')

\* DoAfterDocument and checkoutLocked, in one c.mu section.
DoAfterDocument(t) ==
    LET d == mine[t]
        delta == docs[d] - committed[d]
    IN
    /\ pc[t] = "after"
    /\ IF MaxBufferedDocs = 0 /\ delta < Granularity
       THEN UNCHANGED <<poolVars, byteVars, listVars, out>>
       ELSE \E M \in Marks(d) :
              /\ Account(d, delta, M)
              /\ UNCHANGED historyVars
              /\ IF d \notin pending \cup M
                 THEN /\ numPending' = numPending + Cardinality(M)
                      /\ UNCHANGED <<poolVars, flushQueue, blocked, flushing, out>>
                 ELSE /\ numPending' = numPending + Cardinality(M) - 1
                      /\ Checkout(d)
                      /\ IF fullFlush
                         THEN /\ blocked' = Append(blocked, d)
                              /\ out' = [out EXCEPT ![t] = First(flushQueue)]
                              /\ flushQueue' = SubSeq(flushQueue, 2, Len(flushQueue))
                              /\ UNCHANGED flushing
                         ELSE /\ flushing' = flushing \cup {d}
                              /\ out' = [out EXCEPT ![t] = d]
                              /\ UNCHANGED <<flushQueue, blocked>>
    /\ Goto(t, "release")
    /\ UNCHANGED <<dwptVars, fullVars, mine, seen, todo, calls, dwLock>>

Stale(d) == d \in pending \/ gen[d] < queueGen

\* The deferred function takes DocumentsWriter.lock with the DWPT's lock held.
Release(t) ==
    /\ pc[t] \in {"release", "failed"}
    /\ dwLock = None
    /\ IF Stale(mine[t])
       THEN /\ lock' = [lock EXCEPT ![mine[t]] = None]
            /\ mine' = [mine EXCEPT ![t] = None]
            /\ Goto(t, IF pc[t] = "release" THEN "post" ELSE "idle")
            /\ UNCHANGED dwLock
       ELSE /\ dwLock' = t
            /\ Goto(t, IF pc[t] = "release" THEN "free" ELSE "freeFailed")
            /\ UNCHANGED <<lock, mine>>
    /\ UNCHANGED <<gen, docs, poolVars, byteVars, fullVars, listVars, out, seen, todo>>
    /\ UNCHANGED calls

\* The DWPT may have been marked pending, under c.mu, since Release looked.
MarksAsFreeAndUnlock(t) ==
    /\ pc[t] \in {"free", "freeFailed"}
    /\ IF mine[t] \in pending THEN PanicWith("panicFree")
       ELSE IF mine[t] \notin registered THEN PanicWith("panic")
       ELSE /\ freeList' = freeList \cup {mine[t]}
            /\ lock' = [lock EXCEPT ![mine[t]] = None]
            /\ mine' = [mine EXCEPT ![t] = None]
            /\ dwLock' = None
            /\ Goto(t, IF pc[t] = "free" THEN "post" ELSE "idle")
            /\ UNCHANGED <<gen, docs, registered, byteVars, fullVars, listVars, out>>
            /\ UNCHANGED <<seen, todo, calls>>

\* postUpdate flushes what DoAfterDocument returned, or looks for something pending.
PostUpdate(t) ==
    /\ pc[t] = "post"
    /\ Goto(t, IF out[t] = None THEN "next" ELSE "flush")
    /\ UNCHANGED <<dwptVars, poolVars, byteVars, fullVars, listVars, mine, out, seen>>
    /\ UNCHANGED <<todo, calls, dwLock>>

-----------------------------------------------------------------------------
(* doFlush: flush one DWPT, then the next one that is pending, if any.     *)

\* Seeded mistake: the stall state is not computed again.
MutantStallNotUpdated(t) ==
    /\ pc[t] = "flush"
    /\ flushing' = flushing \ {out[t]}
    /\ flushed' = flushed \cup {out[t]}
    /\ flushBytes' = flushBytes - committed[out[t]]
    /\ out' = [out EXCEPT ![t] = None]
    /\ Goto(t, "next")
    /\ UNCHANGED <<dwptVars, poolVars, committed, pending, activeBytes, numPending>>
    /\ UNCHANGED stalled
    /\ UNCHANGED <<fullVars, flushQueue, blocked, aborted, mine, seen, todo, calls, dwLock>>

\* doFlushOne ends with DoAfterFlush, also when the flush failed; then doFlush returns
\* the error, with which FlushAllThreads panics.
DoAfterFlush(t) ==
    /\ pc[t] = "flush"
    /\ IF out[t] \notin flushing THEN PanicWith("panic")
       ELSE /\ flushing' = flushing \ {out[t]}
            /\ flushed' = flushed \cup {out[t]}
            /\ flushBytes' = flushBytes - committed[out[t]]
            /\ stalled' = Stall(activeBytes, flushBytes')
            /\ out' = [out EXCEPT ![t] = None]
            /\ \/ Goto(t, "next")
               \/ MayFail /\ t \in Threads /\ Goto(t, "idle")
               \/ MayFail /\ t = Flusher /\ pc' = [u \in Actors |-> "panicError"]
            /\ UNCHANGED <<dwptVars, poolVars, committed, pending, activeBytes, numPending>>
            /\ UNCHANGED <<fullVars, flushQueue, blocked, aborted, mine, seen, todo, calls, dwLock>>

\* What comes after maybeFlush: FlushAllThreads waits, preUpdate or the caller goes on.
AfterFlush(t) == IF t = Flusher THEN "wait" ELSE "idle"

\* NextPendingFlush, its first c.mu section: the queue, or else the two counters.
NextPendingFlush(t) ==
    /\ pc[t] = "next"
    /\ IF flushQueue # <<>>
       THEN /\ out' = [out EXCEPT ![t] = Head(flushQueue)]
            /\ flushQueue' = Tail(flushQueue)
            /\ stalled' = Stall(activeBytes, flushBytes)
            /\ Goto(t, "flush")
       ELSE /\ Goto(t, IF numPending > 0 /\ ~fullFlush THEN "iter" ELSE AfterFlush(t))
            /\ UNCHANGED <<out, flushQueue, stalled>>
    /\ UNCHANGED <<dwptVars, poolVars, committed, pending, activeBytes, flushBytes>>
    /\ UNCHANGED numPending
    /\ UNCHANGED <<fullVars, blocked, flushing, historyVars, mine, seen, todo, calls, dwLock>>

\* pool.Iter goes over a copy of the pool.
Iter(t) ==
    /\ pc[t] = "iter"
    /\ todo' = [todo EXCEPT ![t] = registered]
    /\ Goto(t, "scan")
    /\ UNCHANGED <<dwptVars, poolVars, byteVars, fullVars, listVars, mine, out, seen>>
    /\ UNCHANGED <<calls, dwLock>>

\* checkOutForFlushLocked, after the DWPTs of M were marked pending.
CheckOutForFlush(d, M) ==
    /\ pending' = pending \cup M
    /\ flushBytes' = flushBytes + Bytes(M)
    /\ activeBytes' = activeBytes - Bytes(M)
    /\ numPending' = numPending + Cardinality(M) - 1
    /\ flushing' = flushing \cup {d}
    /\ stalled' = Stall(activeBytes', flushBytes')
    /\ Checkout(d)

\* Seeded mistake: the DWPT is taken without its lock.
MutantScanUnlocked(t) ==
    /\ pc[t] = "scan"
    /\ \E d \in todo[t] \cap pending \cap registered :
          /\ CheckOutForFlush(d, {})
          /\ out' = [out EXCEPT ![t] = d]
          /\ todo' = [todo EXCEPT ![t] = {}]
          /\ Goto(t, "flush")
    /\ UNCHANGED <<dwptVars, committed, fullVars, flushQueue, blocked, historyVars, mine, seen>>
    /\ UNCHANGED <<calls, dwLock>>

\* Its iteration over the pool takes the first pending DWPT it can lock; whether a
\* full flush has begun by now is not looked at.
ScanPool(t) ==
    /\ pc[t] = "scan"
    /\ \E d \in todo[t] :
          IF d \in pending \cap registered /\ lock[d] = None
          THEN /\ CheckOutForFlush(d, {})
               /\ out' = [out EXCEPT ![t] = d]
               /\ todo' = [todo EXCEPT ![t] = {}]
               /\ Goto(t, "flush")
          ELSE /\ todo' = [todo EXCEPT ![t] = @ \ {d}]
               /\ UNCHANGED <<pending, flushBytes, activeBytes, numPending, flushing>>
               /\ UNCHANGED stalled
               /\ UNCHANGED <<poolVars, out, pc>>
    /\ UNCHANGED <<dwptVars, committed, fullVars, flushQueue, blocked, historyVars, mine, seen>>
    /\ UNCHANGED <<calls, dwLock>>

ScanDone(t) ==
    /\ pc[t] = "scan"
    /\ todo[t] = {}
    /\ Goto(t, AfterFlush(t))
    /\ UNCHANGED <<dwptVars, poolVars, byteVars, fullVars, listVars, mine, out, seen>>
    /\ UNCHANGED <<todo, calls, dwLock>>

-----------------------------------------------------------------------------
(* FlushAllThreads and FinishFullFlush.                                    *)

\* MarkForFullFlush, its first c.mu section, inside DocumentsWriter.lock.
StartFullFlush ==
    /\ pc[Flusher] = "idle"
    /\ ~closed /\ queueGen <= MaxFullFlushes
    /\ dwLock = None
    /\ IF fullFlush \/ markDone THEN PanicWith("panic")
       ELSE /\ dwLock' = Flusher
            /\ fullFlush' = TRUE
            /\ queueGen' = queueGen + 1
            /\ Goto(Flusher, "filter")
            /\ UNCHANGED <<dwptVars, poolVars, byteVars, markDone, closed, buffer, listVars>>
            /\ UNCHANGED <<mine, out, seen, todo, calls>>

\* FilterAndLock goes over a copy of the pool, outside c.mu.
Filter ==
    /\ pc[Flusher] = "filter"
    /\ todo' = [todo EXCEPT ![Flusher] = {d \in registered : gen[d] = queueGen - 1}]
    /\ Goto(Flusher, "lockAll")
    /\ UNCHANGED <<dwptVars, poolVars, byteVars, fullVars, listVars, mine, out, seen, calls>>
    /\ UNCHANGED dwLock

\* Seeded mistake: a DWPT that is in use is passed over.
MutantFilterTryLock(d) ==
    /\ pc[Flusher] \in {"lockAll", "abortAll"}
    /\ d \in todo[Flusher]
    /\ todo' = [todo EXCEPT ![Flusher] = @ \ {d}]
    /\ lock' = IF d \in registered /\ lock[d] = None THEN [lock EXCEPT ![d] = Flusher] ELSE lock
    /\ UNCHANGED <<gen, docs, poolVars, byteVars, fullVars, listVars, pc, mine, out, seen>>
    /\ UNCHANGED <<calls, dwLock>>

\* It waits for the lock of each DWPT and keeps it if the DWPT is still registered;
\* in a full flush and in Abort.
FilterAndLock(d) ==
    /\ pc[Flusher] \in {"lockAll", "abortAll"}
    /\ d \in todo[Flusher] /\ lock[d] = None
    /\ todo' = [todo EXCEPT ![Flusher] = @ \ {d}]
    /\ lock' = IF d \in registered THEN [lock EXCEPT ![d] = Flusher] ELSE lock
    /\ UNCHANGED <<gen, docs, poolVars, byteVars, fullVars, listVars, pc, mine, out>>
    /\ UNCHANGED <<seen, calls, dwLock>>

Locked == {d \in DWPTs : lock[d] = Flusher}

\* One DWPT of the older generation is checked out, or dropped if it is empty.
MarkOne(d) ==
    /\ pc[Flusher] = "lockAll" /\ todo[Flusher] = {}
    /\ d \in Locked
    /\ IF docs[d] > 0
       THEN /\ CheckOutForFlush(d, {d} \ pending)
            /\ buffer' = Append(buffer, d)
       ELSE /\ Checkout(d)
            /\ UNCHANGED <<pending, flushBytes, activeBytes, flushing, numPending>>
            /\ UNCHANGED <<stalled, buffer>>
    /\ lock' = [lock EXCEPT ![d] = None]
    /\ UNCHANGED <<gen, docs, committed, queueGen, fullFlush, markDone, closed>>
    /\ UNCHANGED <<flushQueue, blocked, historyVars, goVars, dwLock>>

\* pruneBlockedQueueLocked for the queue of generation g.
Pruned(g) == Keep(blocked, {d \in DWPTs : gen[d] = g})

\* The last c.mu section of MarkForFullFlush; DocumentsWriter.lock is let go.
FullFlushMarkDone ==
    LET old == queueGen - 1
        rest == Keep(blocked, {d \in DWPTs : gen[d] # old})
    IN
    /\ pc[Flusher] = "lockAll" /\ todo[Flusher] = {} /\ Locked = {}
    /\ IF \E d \in ToSet(rest) : gen[d] # queueGen THEN PanicWith("panic")
       ELSE /\ blocked' = rest
            /\ flushing' = flushing \cup ToSet(Pruned(old))
            /\ flushQueue' = flushQueue \o Pruned(old) \o buffer
            /\ buffer' = <<>>
            /\ stalled' = Stall(activeBytes, flushBytes)
            /\ markDone' = TRUE
            /\ dwLock' = None
            /\ Goto(Flusher, "next")
            /\ UNCHANGED <<dwptVars, poolVars, committed, pending, activeBytes, flushBytes>>
            /\ UNCHANGED <<numPending, queueGen, fullFlush, closed, historyVars, mine, out>>
            /\ UNCHANGED <<seen, todo, calls>>

WaitForFlush ==
    /\ pc[Flusher] = "wait"
    /\ flushing = {}
    /\ Goto(Flusher, "finish")
    /\ UNCHANGED <<dwptVars, poolVars, byteVars, fullVars, listVars, mine, out, seen>>
    /\ UNCHANGED <<todo, calls, dwLock>>

\* Seeded mistake: a DWPT that is let go is not entered in flushingWriters.
MutantPruneNotFlushing ==
    /\ pc[Flusher] = "finish"
    /\ flushQueue = <<>> /\ flushing = {}
    /\ flushQueue' = blocked
    /\ blocked' = <<>>
    /\ fullFlush' = FALSE /\ markDone' = FALSE
    /\ stalled' = Stall(activeBytes, flushBytes)
    /\ Goto(Flusher, "idle")
    /\ UNCHANGED <<dwptVars, poolVars, committed, pending, activeBytes, flushBytes>>
    /\ UNCHANGED flushing
    /\ UNCHANGED <<numPending, queueGen, closed, buffer, historyVars, mine, out, seen>>
    /\ UNCHANGED <<todo, calls>>
    /\ UNCHANGED dwLock

\* The segments were published.
FinishFullFlush ==
    /\ pc[Flusher] = "finish"
    /\ IF flushQueue # <<>> \/ flushing # {} THEN PanicWith("panicFinish")
       ELSE IF \E d \in ToSet(blocked) : gen[d] # queueGen THEN PanicWith("panic")
       ELSE /\ flushQueue' = blocked
            /\ flushing' = ToSet(blocked)
            /\ blocked' = <<>>
            /\ fullFlush' = FALSE /\ markDone' = FALSE
            /\ stalled' = Stall(activeBytes, flushBytes)
            /\ Goto(Flusher, "idle")
            /\ UNCHANGED <<dwptVars, poolVars, committed, pending, activeBytes, flushBytes>>
            /\ UNCHANGED <<numPending, queueGen, closed, buffer, historyVars, mine, out>>
            /\ UNCHANGED <<seen, todo, calls>>
            /\ UNCHANGED dwLock

\* Seeded mistake: flushes that goroutines are running are forgotten too.
MutantAbortForgetsFlushing ==
    /\ flushing' = {}
    /\ flushBytes' = flushBytes - Bytes(ToSet(flushQueue) \cup ToSet(blocked))
    /\ flushQueue' = <<>> /\ blocked' = <<>>
    /\ aborted' = aborted \cup ToSet(flushQueue) \cup ToSet(blocked)
    /\ stalled' = Stall(activeBytes, flushBytes')

\* abortPendingFlushesLocked: what is queued or blocked is aborted and let go.
AbortPending ==
    /\ flushing' = flushing \ ToSet(flushQueue)
    /\ flushBytes' = flushBytes - Bytes(ToSet(flushQueue) \cup ToSet(blocked))
    /\ flushQueue' = <<>> /\ blocked' = <<>>
    /\ aborted' = aborted \cup ToSet(flushQueue) \cup ToSet(blocked)
    /\ stalled' = Stall(activeBytes, flushBytes')

\* They were not published: AbortFullFlushes.
AbortFullFlushes ==
    /\ pc[Flusher] = "finish"
    /\ AbortPending
    /\ fullFlush' = FALSE /\ markDone' = FALSE
    /\ Goto(Flusher, "idle")
    /\ UNCHANGED <<dwptVars, poolVars, committed, pending, activeBytes, numPending>>
    /\ UNCHANGED <<queueGen, closed, buffer, flushed, mine, out, seen, todo, calls, dwLock>>

-----------------------------------------------------------------------------
(* A rollback: DocumentsWriter.Close, whose three flags are one step here, *)
(* and then Abort.                                                         *)

Close ==
    /\ pc[Flusher] = "idle" /\ Rollbacks
    /\ closed' = TRUE /\ stalled' = FALSE
    /\ Goto(Flusher, "abort")
    /\ UNCHANGED <<dwptVars, poolVars, committed, pending, activeBytes, flushBytes>>
    /\ UNCHANGED numPending
    /\ UNCHANGED <<queueGen, fullFlush, markDone, buffer, listVars, mine, out, seen>>
    /\ UNCHANGED <<todo, calls, dwLock>>

Abort ==
    /\ pc[Flusher] = "abort"
    /\ dwLock = None
    /\ dwLock' = Flusher
    /\ todo' = [todo EXCEPT ![Flusher] = registered]
    /\ Goto(Flusher, "abortAll")
    /\ UNCHANGED <<dwptVars, poolVars, byteVars, fullVars, listVars, mine, out, seen>>
    /\ UNCHANGED calls

\* DoOnAbort, and the DWPT's lock is let go.  numPending keeps counting it.
DoOnAbort(d) ==
    /\ pc[Flusher] = "abortAll" /\ todo[Flusher] = {}
    /\ d \in Locked
    /\ IF d \in pending
       THEN flushBytes' = flushBytes - committed[d] /\ UNCHANGED activeBytes
       ELSE activeBytes' = activeBytes - committed[d] /\ UNCHANGED flushBytes
    /\ stalled' = Stall(activeBytes', flushBytes')
    /\ Checkout(d)
    /\ lock' = [lock EXCEPT ![d] = None]
    /\ aborted' = aborted \cup {d}
    /\ UNCHANGED <<gen, docs, committed, pending, numPending, fullVars, flushQueue, blocked>>
    /\ UNCHANGED <<flushing, flushed, goVars, dwLock>>

AbortPendingFlushes ==
    /\ pc[Flusher] = "abortAll" /\ todo[Flusher] = {} /\ Locked = {}
    /\ AbortPending
    /\ Goto(Flusher, "abortWait")
    /\ UNCHANGED <<dwptVars, poolVars, committed, pending, activeBytes, numPending>>
    /\ UNCHANGED fullVars
    /\ UNCHANGED <<flushed, mine, out, seen, todo, calls, dwLock>>

\* Seeded mistake: Abort does not wait for the flushes under way.
MutantAbortNoWait ==
    /\ pc[Flusher] = "abortWait"
    /\ dwLock' = None
    /\ Goto(Flusher, "done")
    /\ UNCHANGED <<dwptVars, poolVars, byteVars, fullVars, listVars, mine, out, seen>>
    /\ UNCHANGED <<todo, calls>>

\* WaitForFlush, still inside DocumentsWriter.lock.
AbortDone ==
    /\ pc[Flusher] = "abortWait"
    /\ flushing = {}
    /\ dwLock' = None
    /\ Goto(Flusher, "done")
    /\ UNCHANGED <<dwptVars, poolVars, byteVars, fullVars, listVars, mine, out, seen>>
    /\ UNCHANGED <<todo, calls>>

-----------------------------------------------------------------------------
Obtain(t) == PreUpdate(t) \/ PreUpdateQueued(t) \/ PreUpdateStalled(t) \/ ObtainAndLock(t)
             \/ LockAndPoll(t) \/ NewWriter(t) \/ CheckQueue(t)

Update(t) == IndexDocument(t) \/ IndexClosed(t) \/ DoAfterDocument(t) \/ Release(t)
             \/ MarksAsFreeAndUnlock(t) \/ PostUpdate(t)

DoFlush(t) == DoAfterFlush(t) \/ NextPendingFlush(t) \/ Iter(t) \/ ScanPool(t) \/ ScanDone(t)

FullFlush == Filter \/ (\E d \in DWPTs : FilterAndLock(d) \/ MarkOne(d))
             \/ FullFlushMarkDone \/ WaitForFlush \/ FinishFullFlush \/ AbortFullFlushes

Rollback == Abort \/ (\E d \in DWPTs : DoOnAbort(d)) \/ AbortPendingFlushes \/ AbortDone

Next ==
    \/ \E t \in Threads : Obtain(t) \/ Update(t)
    \/ \E t \in Actors : DoFlush(t)
    \/ StartFullFlush \/ FullFlush
    \/ Close \/ Rollback

Spec == Init /\ [][Next]_vars

\* What a goroutine does once it is inside a call.  The mutexes starve nobody.
Step(t) ==
    \/ PreUpdateQueued(t) \/ PreUpdateStalled(t) \/ ObtainAndLock(t) \/ LockAndPoll(t)
    \/ NewWriter(t) \/ CheckQueue(t) \/ Update(t) \/ DoFlush(t)

\* Calls that have begun go on.  A stalled goroutine comes back after 100 ms, so
\* that PreUpdateStalled is not left out for ever.
FairSpec ==
    /\ Spec
    /\ \A t \in Threads : SF_vars(Step(t))
    /\ SF_vars(DoFlush(Flusher) \/ FullFlush \/ Rollback)

-----------------------------------------------------------------------------
(* Properties.                                                             *)

Panicked ==
    \E t \in Actors :
       pc[t] \in {"panicStale", "panicFree", "panicFinish", "panicError", "panic"}

InFlush == flushing \cup ToSet(blocked)

(* activeBytes, which the flush policy compares with the RAM buffer, and   *)
(* flushBytes are the bytes of the DWPTs that are active, and of those     *)
(* that are pending, blocked or flushing, although a DWPT is marked        *)
(* pending by goroutines that do not hold its lock.                        *)
BytesAccounted ==
    /\ activeBytes = Bytes(registered \ pending)
    /\ flushBytes = Bytes((registered \cap pending) \cup InFlush)

(* NextPendingFlush, which does not look at the pool when numPending is 0, *)
(* misses no pending DWPT.                                                 *)
PendingCounted == numPending >= Cardinality(registered \cap pending)

(* The counters of the flush control are natural numbers (and the rest of  *)
(* the state has its types), and count what they stand for.                *)
Accounted == TypeOK /\ BytesAccounted /\ PendingCounted

(* A DWPT that left the pool is flushed once and not forgotten: it is in   *)
(* flushingWriters or in blockedFlushes, not in both; one that is flushing *)
(* is in the queue, in the buffer of MarkForFullFlush, or in the hands of  *)
(* exactly one goroutine; one is blocked only while a full flush, which    *)
(* will let it go, is under way.                                           *)
OneFlushEach ==
    /\ registered \cap InFlush = {} /\ flushing \cap ToSet(blocked) = {}
    /\ flushed \cap (registered \cup InFlush) = {}
    /\ ToSet(flushQueue) \subseteq flushing
    /\ \A d \in flushing :
          Cardinality({t \in Actors : out[t] = d})
            + Cardinality({i \in DOMAIN flushQueue : flushQueue[i] = d})
            + Cardinality({i \in DOMAIN buffer : buffer[i] = d}) = 1
    /\ blocked # <<>> => fullFlush

(* DWPT.Flush, which does not take the DWPT's lock, never runs while       *)
(* another goroutine indexes into the DWPT.                                *)
NoIndexingWhileFlushed ==
    \A t, u \in Actors : (pc[t] = "flush" /\ pc[u] \in {"index", "after"}) => out[t] # mine[u]

(* When FlushAllThreads returns, every document of a DWPT bound to an      *)
(* advanced delete queue has been through a flush, whoever did it, unless  *)
(* it was dropped with an earlier full flush that failed: this is what a   *)
(* commit relies on.                                                       *)
OldGenerationFlushed ==
    pc[Flusher] = "finish" =>
       \A d \in DWPTs :
          (gen[d] \in 1..(queueGen - 1) /\ docs[d] > 0) => d \in flushed \cup aborted

(* None of the other assertions of the flush control and of the pool       *)
(* fails: an already pending DWPT, a wrong queue in blockedFlushes, a      *)
(* flush that ends twice, a free DWPT the pool does not know.              *)
NoOtherPanic == \A t \in Actors : pc[t] # "panic"

(* A rollback leaves nothing behind: no DWPT in the pool, no bytes         *)
(* accounted, no flush under way, whatever was going on when it began.     *)
RollbackDrains ==
    pc[Flusher] = "done" => registered = {} /\ InFlush = {} /\ activeBytes = 0 /\ flushBytes = 0

(* A stalled session, in which preUpdate lets no document in, is released  *)
(* in the end (or the process panics).                                     *)
StallEnds == stalled ~> (~stalled \/ Panicked)

(* "Unless the stall control kicks in to block indexing threads flushes    *)
(* are happening concurrently to actual index requests." (DocumentsWriter) *)
(* A full flush ends, also when documents are being indexed as it begins.  *)
FullFlushEnds == fullFlush ~> (~fullFlush \/ Panicked)

-----------------------------------------------------------------------------
(* What comments and tests of the code say and the code does not do: TLC   *)
(* reports each of these violated, with the constants README.md gives.     *)

(* "Stale DWPT: must be the result of a full flush in progress."           *)
(* (ObtainAndLock): its panic is never reached.                            *)
NoStaleDWPT == \A t \in Actors : pc[t] # "panicStale"

(* "DWPT cannot be marked as free if flush is pending or aborted"          *)
(* (MarksAsFreeAndUnlock): its panic is never reached.                     *)
NoPendingFree == \A t \in Actors : pc[t] # "panicFree"

(* "flushQueue and flushingWriters must already be empty."                 *)
(* (FinishFullFlush): its panic is never reached.                          *)
FinishFindsNothing == \A t \in Actors : pc[t] # "panicFinish"
=============================================================================
