----------------------------- MODULE DeleteQueue ----------------------------
(***************************************************************************)
(* DocumentsWriterDeleteQueue (index/documents_writer_delete_queue.go) in  *)
(* one generation, from its creation to its close, with the goroutines     *)
(* that share it:                                                          *)
(*   - a DWPT finishes documents (finishDocuments) and is flushed          *)
(*     (PrepareFlush inside the ticket queue's AddTicket);                 *)
(*   - a deleter runs DocumentsWriter.applyDeleteOrUpdate and              *)
(*     applyAllDeletes;                                                    *)
(*   - the flusher runs FlushAllThreads (advance, drain, close) or         *)
(*     LockAndAbortAll.                                                    *)
(*                                                                         *)
(* The linked list is the sequence of its nodes 1, 2, ..., tail; 0 is the  *)
(* sentinel.  A slice is the pair of its head and its tail.  What a node   *)
(* deletes or updates is not looked into: applying it to a buffer records  *)
(* the node, and for a DWPT's buffer the bound docIDUpto.  A document      *)
(* stands for the block of documents of one UpdateDocuments call.          *)
(***************************************************************************)
EXTENDS Integers, Sequences, FiniteSets

CONSTANTS Writers,   \* the DWPTs bound to this queue
          Deleters,  \* goroutines in deleteDocuments and updateDocValues
          Flusher,   \* the goroutine in FlushAllThreads or LockAndAbortAll
          MaxNodes,  \* bound on the nodes added to the queue
          MaxDocs,   \* bound on the documents of one DWPT
          TakeBound, \* bound on nextSeqNo for TakeSeqNo and LockAndAbortAll
          MaxSeqNo,  \* the maxSeqNo of a queue not yet advanced: the largest int64
          None       \* no goroutine

Adders == Writers \cup Deleters
Actors == Adders \cup {Flusher}

ASSUME DeleteQueueAssumption ==
    /\ Writers \cap Deleters = {}
    /\ Flusher \notin Adders
    /\ None \notin Actors
    /\ IsFiniteSet(Writers)
    /\ MaxNodes \in Nat /\ MaxDocs \in Nat /\ TakeBound \in Nat /\ MaxSeqNo \in Nat

Nodes == 1..MaxNodes

VARIABLES mu,        \* the holder of d.mu
          tail,      \* d.tail
          seqOf,     \* the sequence number each node was given, 0 for none yet
          nextSeqNo, \* d.nextSeqNo
          maxSeqNo,  \* d.maxSeqNo
          advanced,  \* d.advanced
          closed,    \* d.closed
          gLock,     \* the holder of d.globalBufferLock
          gHead,     \* d.globalSlice.sliceHead
          gTail,     \* d.globalSlice.sliceTail
          gBuf,      \* the nodes in d.globalBufferedUpdates
          qMu,       \* the holder of the ticket queue's mutex, inside AddTicket
          tickets,   \* the tickets issued: the DWPT, or None, and the frozen deletes
          dwLock,    \* the holder of DocumentsWriter.lock
          head,      \* of each DWPT: deleteSlice.sliceHead
          slice,     \* of each DWPT: deleteSlice.sliceTail
          upto,      \* of each DWPT: the docIDUpto of each node in pendingUpdates
          docs,      \* of each DWPT: the sequence number of each document, 0 if it failed
          pc,        \* what each goroutine is about to do
          loc,       \* the node a goroutine has added
          flushed,   \* anythingFlushed of FlushAllThreads
          packet,    \* the deletes a goroutine has frozen
          dropped    \* history: the nodes discarded by Clear

vars == <<mu, tail, seqOf, nextSeqNo, maxSeqNo, advanced, closed, gLock, gHead, gTail, gBuf,
          qMu, tickets, dwLock, head, slice, upto, docs, pc, loc, flushed, packet,
          dropped>>

seqVars == <<mu, tail, seqOf, nextSeqNo, maxSeqNo, advanced, closed>>
globalVars == <<gLock, gHead, gTail, gBuf, dropped>>
ticketVars == <<qMu, tickets, packet, flushed>>
writerVars == <<head, slice, upto, docs>>

States == {"new", "free", "index", "add", "store", "number", "sliceTail", "try", "apply",
           "private", "checkedOut", "prepare", "freeze", "ticket", "flushed", "gone",
           "idle", "size", "naked", "nakedFreeze", "nakedTicket",
           "aborting", "mark", "drain", "closing", "done", "panic"}

Ticket == [writer : Writers \cup {None}, deletes : SUBSET Nodes]

TypeOK ==
    /\ mu \in Adders \cup {None}
    /\ tail \in 0..MaxNodes
    /\ seqOf \in [Nodes -> Nat]
    /\ nextSeqNo \in Nat \ {0}
    /\ maxSeqNo \in Nat
    /\ advanced \in BOOLEAN /\ closed \in BOOLEAN /\ flushed \in BOOLEAN
    /\ gLock \in Actors \cup {None}
    /\ gHead \in 0..MaxNodes /\ gTail \in 0..MaxNodes
    /\ gBuf \in SUBSET Nodes /\ dropped \in SUBSET Nodes
    /\ qMu \in Actors \cup {None}
    /\ tickets \in Seq(Ticket)
    /\ dwLock \in Deleters \cup {Flusher, None}
    /\ head \in [Writers -> 0..MaxNodes] /\ slice \in [Writers -> 0..MaxNodes]
    /\ upto \in [Writers -> [Nodes -> Nat]]
    /\ docs \in [Writers -> Seq(Nat)]
    /\ pc \in [Actors -> States]
    /\ loc \in [Adders -> 0..MaxNodes]
    /\ packet \in [Actors -> SUBSET Nodes]

Init ==
    /\ mu = None /\ tail = 0 /\ seqOf = [n \in Nodes |-> 0]
    /\ nextSeqNo = 1 /\ maxSeqNo = MaxSeqNo
    /\ advanced = FALSE /\ closed = FALSE /\ flushed = FALSE
    /\ gLock = None /\ gHead = 0 /\ gTail = 0 /\ gBuf = {} /\ dropped = {}
    /\ qMu = None /\ tickets = <<>> /\ dwLock = None
    /\ head = [w \in Writers |-> 0] /\ slice = [w \in Writers |-> 0]
    /\ upto = [w \in Writers |-> [n \in Nodes |-> 0]]
    /\ docs = [w \in Writers |-> <<>>]
    /\ pc = [a \in Actors |-> IF a \in Writers THEN "new" ELSE "idle"]
    /\ loc = [a \in Adders |-> 0]
    /\ packet = [a \in Actors |-> {}]

Goto(a, state) == pc' = [pc EXCEPT ![a] = state]

\* A panic ends the process: no goroutine takes a step after it.
Panic ==
    /\ pc' = [a \in Actors |-> "panic"]
    /\ UNCHANGED <<seqVars, globalVars, ticketVars, writerVars, dwLock, loc>>

-----------------------------------------------------------------------------
(* The sequence numbers and the linked list.                               *)

\* getNextSequenceNumber gave out s.  Before AdvanceQueue maxSeqNo is the largest
\* int64, and no number is above it.
Exhausted(s) == advanced /\ s > maxSeqNo

\* Seeded mistake: AddNode does not take d.mu.
MutantAddNodeUnlocked(a) ==
    /\ pc[a] = "add"
    /\ tail < MaxNodes
    /\ Goto(a, "store")
    /\ UNCHANGED <<seqVars, globalVars, ticketVars, writerVars, dwLock, loc>>

\* AddNode takes d.mu and sets tail.next; anyChangesLocked can see this.
AddNodeLink(a) ==
    /\ pc[a] = "add"
    /\ mu = None
    /\ tail < MaxNodes
    /\ IF closed THEN Panic
       ELSE /\ mu' = a
            /\ Goto(a, "store")
            /\ UNCHANGED <<tail, seqOf, nextSeqNo, maxSeqNo, advanced, closed>>
            /\ UNCHANGED <<globalVars, ticketVars, writerVars, dwLock, loc>>

\* storeTail: from here on the node is in every slice that is cut at the tail.
AddNodeStore(a) ==
    /\ pc[a] = "store"
    /\ tail' = tail + 1
    /\ loc' = [loc EXCEPT ![a] = tail + 1]
    /\ Goto(a, "number")
    /\ UNCHANGED <<mu, seqOf, nextSeqNo, maxSeqNo, advanced, closed>>
    /\ UNCHANGED <<globalVars, ticketVars, writerVars, dwLock>>

AddNodeNumber(a) ==
    /\ pc[a] = "number"
    /\ IF Exhausted(nextSeqNo) THEN Panic
       ELSE /\ seqOf' = [seqOf EXCEPT ![loc[a]] = nextSeqNo]
            /\ nextSeqNo' = nextSeqNo + 1
            /\ mu' = None
            /\ Goto(a, IF a \in Writers THEN "sliceTail" ELSE "try")
            /\ UNCHANGED <<tail, maxSeqNo, advanced, closed>>
            /\ UNCHANGED <<globalVars, ticketVars, writerVars, dwLock, loc>>

\* DocumentsWriter.GetNextSequenceNumber, under dw.lock but not under d.mu.
TakeSeqNo(a) ==
    /\ a \in Deleters /\ pc[a] = "idle"
    /\ dwLock = None /\ ~advanced
    /\ nextSeqNo < TakeBound
    /\ IF Exhausted(nextSeqNo) THEN Panic
       ELSE /\ nextSeqNo' = nextSeqNo + 1
            /\ UNCHANGED <<mu, tail, seqOf, maxSeqNo, advanced, closed, pc, loc>>
            /\ UNCHANGED <<globalVars, ticketVars, writerVars, dwLock>>

-----------------------------------------------------------------------------
(* The global slice.  gLock is held over two steps: the tail is read in    *)
(* the first one, the slice applied up to that tail in the second.         *)

\* updateSliceNoSeqNo, or the read of currentTail: takes globalBufferLock.
CutGlobalSlice(a) ==
    /\ gLock = None
    /\ gLock' = a
    /\ gTail' = tail

\* globalSlice.apply(globalBufferedUpdates, maxInt), which also resets the slice.
Applied == gBuf \cup (gHead + 1)..gTail

\* tryApplyGlobalSlice takes globalBufferLock if it is free ...
TryApplyGlobalSlice(a) ==
    /\ pc[a] = "try"
    /\ gLock = None
    /\ IF closed THEN Panic
       ELSE /\ CutGlobalSlice(a)
            /\ Goto(a, "apply")
            /\ UNCHANGED <<gHead, gBuf, dropped, dwLock, seqVars, ticketVars, writerVars, loc>>

\* ... and gives up if it is taken.  A deleter lets dw.lock go.
SkipGlobalSlice(a) ==
    /\ pc[a] = "try"
    /\ gLock # None
    /\ Goto(a, IF a \in Writers THEN "private" ELSE "idle")
    /\ dwLock' = IF a \in Deleters THEN None ELSE dwLock
    /\ UNCHANGED <<seqVars, globalVars, ticketVars, writerVars, loc>>

\* Seeded mistake: the global slice is reset to the tail as it is by now.
MutantApplyResetsToTail(a) ==
    /\ pc[a] \in {"apply", "size"}
    /\ gBuf' = Applied
    /\ gHead' = tail
    /\ gTail' = tail
    /\ gLock' = None
    /\ Goto(a, IF a \in Writers THEN "private" ELSE "idle")
    /\ dwLock' = IF pc[a] = "apply" /\ a \in Deleters THEN None ELSE dwLock
    /\ UNCHANGED <<dropped, loc, seqVars, ticketVars, writerVars>>

\* The end of tryApplyGlobalSlice and of getBufferedUpdatesTermsSize.
ApplyGlobalSlice(a) ==
    /\ pc[a] \in {"apply", "size"}
    /\ gBuf' = Applied
    /\ gHead' = gTail
    /\ gLock' = None
    /\ Goto(a, IF a \in Writers THEN "private" ELSE "idle")
    /\ dwLock' = IF pc[a] = "apply" /\ a \in Deleters THEN None ELSE dwLock
    /\ UNCHANGED <<gTail, dropped, loc>>
    /\ UNCHANGED <<seqVars, ticketVars, writerVars>>

\* GetBufferedUpdatesTermsSize waits for globalBufferLock.
GetBufferedUpdatesTermsSize(a) ==
    /\ a \in Deleters /\ pc[a] = "idle"
    /\ CutGlobalSlice(a)
    /\ Goto(a, "size")
    /\ UNCHANGED <<gHead, gBuf, dropped, dwLock, loc>>
    /\ UNCHANGED <<seqVars, ticketVars, writerVars>>

AnyChangesLocked ==
    \/ gBuf # {} \/ gHead # gTail \/ gTail # tail
    \/ \E a \in Adders : pc[a] = "store"

-----------------------------------------------------------------------------
(* A deleter: AddDelete, AddDeleteTerms and AddDocValuesUpdates.           *)

ApplyDeleteOrUpdate(a) ==
    /\ a \in Deleters /\ pc[a] = "idle"
    /\ dwLock = None /\ ~advanced
    /\ dwLock' = a
    /\ Goto(a, "add")
    /\ UNCHANGED <<seqVars, globalVars, ticketVars, writerVars, loc>>

-----------------------------------------------------------------------------
(* A DWPT.                                                                 *)

\* NewDocumentsWriterPerThread: LockNewWriters keeps it out of the other two phases.
NewSlice(w) ==
    /\ w \in Writers /\ pc[w] = "new"
    /\ ~advanced /\ pc[Flusher] = "idle"
    /\ head' = [head EXCEPT ![w] = tail]
    /\ slice' = [slice EXCEPT ![w] = tail]
    /\ Goto(w, "free")
    /\ UNCHANGED <<seqVars, globalVars, ticketVars, upto, docs, dwLock, loc>>

\* ObtainAndLock found the DWPT's queue to be the current one.
ObtainAndLock(w) ==
    /\ w \in Writers /\ pc[w] = "free"
    /\ ~advanced /\ Len(docs[w]) < MaxDocs
    /\ Goto(w, "index")
    /\ UNCHANGED <<seqVars, globalVars, ticketVars, writerVars, dwLock, loc>>

\* ProcessDocument failed: the document is counted, and deleted by deleteLastDocs.
DeleteLastDocs(w) ==
    /\ pc[w] = "index"
    /\ docs' = [docs EXCEPT ![w] = Append(@, 0)]
    /\ Goto(w, "free")
    /\ UNCHANGED <<seqVars, globalVars, ticketVars, head, slice, upto, dwLock, loc>>

\* DeleteSlice.apply(pendingUpdates, docIDUpto) of the slice head[w]..t, and its reset.
ApplySlice(w, t, docIDUpto) ==
    /\ upto' = [upto EXCEPT ![w] =
                   [n \in Nodes |-> IF n \in (head[w] + 1)..t THEN docIDUpto ELSE @[n]]]
    /\ head' = [head EXCEPT ![w] = t]
    /\ slice' = [slice EXCEPT ![w] = t]

\* finishDocuments without a delete node: UpdateSlice runs inside d.mu.
UpdateSlice(w) ==
    /\ pc[w] = "index"
    /\ mu = None
    /\ IF closed \/ Exhausted(nextSeqNo) THEN Panic
       ELSE /\ nextSeqNo' = nextSeqNo + 1
            /\ ApplySlice(w, tail, Len(docs[w]))
            /\ docs' = [docs EXCEPT ![w] = Append(@, nextSeqNo)]
            /\ Goto(w, "free")
            /\ UNCHANGED <<mu, tail, seqOf, maxSeqNo, advanced, closed, dwLock, loc>>
            /\ UNCHANGED <<globalVars, ticketVars>>

\* finishDocuments with a delete node: AddWithSlice.
AddWithSlice(w) ==
    /\ w \in Writers /\ pc[w] = "index"
    /\ Goto(w, "add")
    /\ UNCHANGED <<seqVars, globalVars, ticketVars, writerVars, dwLock, loc>>

\* The slice ends at the DWPT's own node, wherever the tail is by now.
SetSliceTail(w) ==
    /\ pc[w] = "sliceTail"
    /\ IF head[w] = loc[w] THEN Panic
       ELSE /\ slice' = [slice EXCEPT ![w] = loc[w]]
            /\ Goto(w, "try")
            /\ UNCHANGED <<seqVars, globalVars, ticketVars, head, upto, docs, dwLock, loc>>

\* The document's own delete does not reach the document: docIDUpto is docsInRamBefore.
FinishUpdate(w) ==
    /\ pc[w] = "private"
    /\ IF slice[w] < head[w] THEN Panic
       ELSE /\ ApplySlice(w, slice[w], Len(docs[w]))
            /\ docs' = [docs EXCEPT ![w] = Append(@, seqOf[loc[w]])]
            /\ Goto(w, "free")
            /\ UNCHANGED <<seqVars, globalVars, ticketVars, dwLock, loc>>

-----------------------------------------------------------------------------
(* The flush of a DWPT: AddTicket runs PrepareFlush inside the ticket      *)
(* queue's mutex.                                                          *)

\* The DWPT leaves the pool: DoAfterDocument before a full flush (one that ends a
\* document during the full flush is blocked), MarkForFullFlush and doFlush in it.
Checkout(w) ==
    /\ w \in Writers /\ pc[w] = "free"
    /\ docs[w] # <<>>
    /\ \/ ~advanced /\ UNCHANGED flushed
       \/ pc[Flusher] = "drain" /\ flushed' \in {flushed, TRUE}
    /\ Goto(w, "checkedOut")
    /\ UNCHANGED <<seqVars, globalVars, qMu, tickets, packet, writerVars, dwLock, loc>>

\* Seeded mistake: PrepareFlush runs before the ticket queue's mutex is taken.
MutantPrepareUnlocked(w) ==
    /\ pc[w] = "checkedOut"
    /\ Goto(w, "prepare")
    /\ UNCHANGED <<seqVars, globalVars, ticketVars, writerVars, dwLock, loc>>

AddTicket(w) ==
    /\ pc[w] = "checkedOut"
    /\ qMu = None
    /\ qMu' = w
    /\ Goto(w, "prepare")
    /\ UNCHANGED <<seqVars, globalVars, tickets, packet, flushed, writerVars, dwLock, loc>>

\* FreezeGlobalBuffer: one read of the tail ends the global and the private slice.
FreezeGlobalBuffer(w) ==
    /\ pc[w] = "prepare"
    /\ gLock = None
    /\ IF closed THEN Panic
       ELSE /\ CutGlobalSlice(w)
            /\ slice' = [slice EXCEPT ![w] = tail]
            /\ Goto(w, "freeze")
            /\ UNCHANGED <<seqVars, gHead, gBuf, dropped, ticketVars, head, upto, docs>>
            /\ UNCHANGED <<dwLock, loc>>

\* freezeGlobalBufferInternal, for a DWPT and for a naked ticket.
FreezeGlobalBufferInternal(a) ==
    /\ pc[a] \in {"freeze", "nakedFreeze"}
    /\ packet' = [packet EXCEPT ![a] = Applied]
    /\ gBuf' = {}
    /\ gHead' = gTail
    /\ gLock' = None
    /\ Goto(a, IF pc[a] = "freeze" THEN "ticket" ELSE "nakedTicket")
    /\ UNCHANGED <<seqVars, gTail, dropped, qMu, tickets, flushed, writerVars, dwLock, loc>>

\* The end of PrepareFlush and of AddTicket.
PrepareFlush(w) ==
    /\ pc[w] = "ticket"
    /\ IF slice[w] < head[w] THEN Panic
       ELSE /\ ApplySlice(w, slice[w], Len(docs[w]))
            /\ tickets' = Append(tickets, [writer |-> w, deletes |-> packet[w]])
            /\ packet' = [packet EXCEPT ![w] = {}]
            /\ qMu' = None
            /\ Goto(w, "flushed")
            /\ UNCHANGED <<seqVars, globalVars, flushed, docs, dwLock, loc>>

-----------------------------------------------------------------------------
(* A ticket without a segment.                                             *)

\* applyAllDeletes looks at the full flush and at IsOpen; what follows may
\* happen after the queue was advanced, drained and closed.
ApplyAllDeletes(a) ==
    /\ a \in Deleters /\ pc[a] = "idle"
    /\ ~advanced /\ ~closed
    /\ Goto(a, "naked")
    /\ UNCHANGED <<seqVars, globalVars, ticketVars, writerVars, dwLock, loc>>

MaybeFreezeGlobalBuffer(a) ==
    /\ pc[a] = "naked"
    /\ qMu = None /\ gLock = None
    /\ IF closed
       THEN IF AnyChangesLocked THEN Panic
            ELSE /\ Goto(a, "idle")
                 /\ UNCHANGED <<seqVars, globalVars, ticketVars, writerVars, dwLock, loc>>
       ELSE /\ qMu' = a
            /\ CutGlobalSlice(a)
            /\ Goto(a, "nakedFreeze")
            /\ UNCHANGED <<seqVars, gHead, gBuf, dropped, tickets, packet, flushed, writerVars>>
            /\ UNCHANGED <<dwLock, loc>>

\* No ticket when nothing was frozen.
AddNakedTicket(a) ==
    /\ pc[a] = "nakedTicket"
    /\ tickets' = IF packet[a] = {} THEN tickets
                  ELSE Append(tickets, [writer |-> None, deletes |-> packet[a]])
    /\ packet' = [packet EXCEPT ![a] = {}]
    /\ qMu' = None
    /\ Goto(a, IF a = Flusher THEN "closing" ELSE "idle")
    /\ UNCHANGED <<seqVars, globalVars, flushed, writerVars, dwLock, loc>>

-----------------------------------------------------------------------------
(* FlushAllThreads.                                                        *)

\* The DWPTs in the pool: the ones not checked out for a flush, nor aborted.
Pool == {w \in Writers : pc[w] \in {"free", "index", "add", "store", "number", "sliceTail",
                                    "try", "apply", "private"}}

\* Seeded mistake: no number is left for the flush itself.
MutantMaxSeqNoTooSmall(maxNumPendingOps) == (nextSeqNo - 1) + maxNumPendingOps

\* The largest sequence number the operations that are under way may use.
MaxPendingSeqNo(maxNumPendingOps) == (nextSeqNo - 1) + maxNumPendingOps + 1

\* MarkForFullFlush, its first half: ResetDeleteQueue under dw.lock, with new DWPTs
\* locked out.  From here on only operations that are under way use this queue.
AdvanceQueue ==
    /\ pc[Flusher] = "idle"
    /\ dwLock = None /\ mu = None
    /\ IF advanced THEN Panic
       ELSE /\ advanced' = TRUE
            /\ maxSeqNo' = MaxPendingSeqNo(Cardinality(Pool))
            /\ Goto(Flusher, "mark")
            /\ UNCHANGED <<mu, tail, seqOf, nextSeqNo, closed, globalVars, ticketVars, writerVars>>
            /\ UNCHANGED <<dwLock, loc>>

\* Its second half: FilterAndLock has got the lock of every DWPT in the pool; the
\* ones without documents are dropped, and the sequence numbers used are looked at.
MarkDone ==
    /\ pc[Flusher] = "mark"
    /\ \A w \in Pool : pc[w] = "free"
    /\ IF nextSeqNo - 1 > maxSeqNo THEN Panic
       ELSE /\ pc' = [a \in Actors |->
                        IF a = Flusher THEN "drain"
                        ELSE IF a \in Pool /\ docs[a] = <<>> THEN "gone" ELSE pc[a]]
            /\ UNCHANGED <<seqVars, globalVars, ticketVars, writerVars, dwLock, loc>>

\* Seeded mistake: deletes without documents are not frozen.
MutantNoNakedFreeze ==
    /\ pc[Flusher] = "drain"
    /\ \A w \in Writers : pc[w] \in {"new", "flushed", "gone"}
    /\ Goto(Flusher, "closing")
    /\ UNCHANGED <<seqVars, globalVars, ticketVars, writerVars, dwLock, loc>>

\* WaitForFlush returned.  The deletes are frozen on their own if this goroutine
\* flushed no DWPT.
FlushedAll ==
    /\ pc[Flusher] = "drain"
    /\ \A w \in Writers : pc[w] \in {"new", "flushed", "gone"}
    /\ gLock = None
    /\ Goto(Flusher, IF ~flushed /\ AnyChangesLocked THEN "naked" ELSE "closing")
    /\ UNCHANGED <<seqVars, globalVars, ticketVars, writerVars, dwLock, loc>>

\* FlushAllThreads ignores the error Close returns when it finds changes.
Close ==
    /\ pc[Flusher] = "closing"
    /\ gLock = None
    /\ IF AnyChangesLocked
       THEN Goto(Flusher, "done") /\ UNCHANGED <<nextSeqNo, closed>>
       ELSE /\ closed' = TRUE
            /\ IF nextSeqNo > maxSeqNo
               THEN pc' = [a \in Actors |-> "panic"] /\ UNCHANGED nextSeqNo
               ELSE Goto(Flusher, "done") /\ nextSeqNo' = maxSeqNo + 1
    /\ UNCHANGED <<mu, tail, seqOf, maxSeqNo, advanced, globalVars, ticketVars, writerVars>>
    /\ UNCHANGED <<dwLock, loc>>

-----------------------------------------------------------------------------
(* LockAndAbortAll, which holds dw.lock.                                   *)

Clear ==
    /\ gLock = None
    /\ gHead' = tail /\ gTail' = tail /\ gBuf' = {}
    /\ dropped' = dropped \cup gBuf \cup (gHead + 1)..tail
    /\ UNCHANGED gLock

\* At most one LockAndAbortAll that finds DWPTs.
LockAndAbortAll ==
    /\ pc[Flusher] = "idle" /\ ~advanced
    /\ nextSeqNo < TakeBound /\ \A w \in Writers : pc[w] # "gone"
    /\ dwLock = None
    /\ dwLock' = Flusher
    /\ Clear
    /\ Goto(Flusher, "aborting")
    /\ UNCHANGED <<seqVars, ticketVars, writerVars, loc>>

\* FilterAndLock got the DWPT's lock; its documents and its private deletes go.
AbortWriter(w) ==
    /\ pc[Flusher] = "aborting"
    /\ w \in Writers /\ pc[w] = "free"
    /\ docs' = [docs EXCEPT ![w] = <<>>]
    /\ Goto(w, "gone")
    /\ UNCHANGED <<seqVars, globalVars, ticketVars, head, slice, upto, dwLock, loc>>

Gone == {w \in Writers : pc[w] = "gone"}

\* Seeded mistake: only the first Clear.
MutantAbortClearsOnce ==
    /\ pc[Flusher] = "aborting"
    /\ Pool = {}
    /\ nextSeqNo' = nextSeqNo + Cardinality(Gone) + 1
    /\ dwLock' = None
    /\ Goto(Flusher, "idle")
    /\ UNCHANGED <<mu, tail, seqOf, maxSeqNo, advanced, closed, globalVars, ticketVars>>
    /\ UNCHANGED <<writerVars, loc>>

\* What an operation added after the first Clear is discarded by the second one.
FinishAbortAll ==
    /\ pc[Flusher] = "aborting"
    /\ Pool = {}
    /\ Clear
    /\ nextSeqNo' = nextSeqNo + Cardinality(Gone) + 1
    /\ dwLock' = None
    /\ Goto(Flusher, "idle")
    /\ UNCHANGED <<mu, tail, seqOf, maxSeqNo, advanced, closed, ticketVars, writerVars>>
    /\ UNCHANGED <<loc>>

-----------------------------------------------------------------------------
Add(a) == AddNodeLink(a) \/ AddNodeStore(a) \/ AddNodeNumber(a)
          \/ TryApplyGlobalSlice(a) \/ SkipGlobalSlice(a) \/ ApplyGlobalSlice(a)

Delete(a) == ApplyDeleteOrUpdate(a) \/ TakeSeqNo(a) \/ GetBufferedUpdatesTermsSize(a)
             \/ ApplyAllDeletes(a)

Naked(a) == MaybeFreezeGlobalBuffer(a) \/ FreezeGlobalBufferInternal(a) \/ AddNakedTicket(a)

Index(w) == NewSlice(w) \/ ObtainAndLock(w) \/ DeleteLastDocs(w) \/ UpdateSlice(w)
            \/ AddWithSlice(w) \/ SetSliceTail(w) \/ FinishUpdate(w)

Flush(w) == Checkout(w) \/ AddTicket(w) \/ FreezeGlobalBuffer(w) \/ PrepareFlush(w)

FlushAllThreads == AdvanceQueue \/ MarkDone \/ FlushedAll \/ Close

AbortAll == LockAndAbortAll \/ FinishAbortAll \/ \E w \in Writers : AbortWriter(w)

Next ==
    \/ \E a \in Adders : Add(a)
    \/ \E a \in Deleters : Delete(a)
    \/ \E a \in Actors : Naked(a)
    \/ \E w \in Writers : Index(w) \/ Flush(w)
    \/ FlushAllThreads
    \/ AbortAll

Spec == Init /\ [][Next]_vars

-----------------------------------------------------------------------------
(* Properties.                                                             *)

\* The deletes frozen by the first k tickets.
Frozen(k) == UNION {tickets[j].deletes : j \in 1..k}

\* The deletes frozen by the tickets, and by the goroutine inside AddTicket: who
\* takes the ticket queue's mutex later finds them in a ticket.
FrozenByAll == Frozen(Len(tickets)) \cup UNION {packet[a] : a \in Actors}

(* The sequence numbers returned to the callers show the effective order   *)
(* of all operations (the comment of nextSeqNo).  The segment of ticket k  *)
(* gets the DWPT's private deletes, up to their docIDUpto, and every       *)
(* global delete frozen by a later ticket.  Together they are exactly the  *)
(* updates with a number larger than the document's: an update that comes  *)
(* later never misses the document, one that came earlier never hits it,   *)
(* and a document's own delete term does not hit it.                       *)
SerializedBySeqNo ==
    \A k \in 1..Len(tickets) :
        LET w == tickets[k].writer
        IN  w \in Writers =>
              \A i \in 1..Len(docs[w]) : docs[w][i] > 0 =>
                 \A n \in (1..tail) \ dropped : seqOf[n] > 0 =>
                    (seqOf[n] > docs[w][i] <=> (i <= upto[w][n] \/ n \notin Frozen(k)))

(* An update is applied to a segment once: what a DWPT applied privately   *)
(* is not in a packet that is published after its segment.                 *)
NotAppliedTwice ==
    \A k \in 1..Len(tickets) :
        LET w == tickets[k].writer
        IN  w \in Writers => \A n \in Nodes : upto[w][n] > 0 =>
                                 \A j \in (k + 1)..Len(tickets) : n \notin tickets[j].deletes

(* Every update added to the queue is in exactly one place of the global   *)
(* stream: still in the list, in the global buffer, in one packet, or      *)
(* discarded by Clear; the goroutines that find globalBufferLock taken     *)
(* lose nothing.                                                           *)
GlobalExactlyOnce ==
    /\ \A j, k \in 1..Len(tickets) :
          j # k => tickets[j].deletes \cap tickets[k].deletes = {}
    /\ \A a \in Actors : packet[a] \cap Frozen(Len(tickets)) = {}
    /\ gBuf \cap (FrozenByAll \cup dropped) = {} /\ FrozenByAll \cap dropped = {}
    /\ 1..gHead = gBuf \cup FrozenByAll \cup dropped

(* The nodes of the list carry increasing sequence numbers, although       *)
(* TakeSeqNo and UpdateSlice draw from the same counter.                   *)
SeqNoOrder ==
    \A m, n \in 1..tail : (m < n /\ seqOf[n] > 0) => 0 < seqOf[m] /\ seqOf[m] < seqOf[n]

(* The state has its types and the list is in the order of its numbers.    *)
ListOK == TypeOK /\ SeqNoOrder

(* An update passes through the global stream once, and meets a segment    *)
(* either there or in the slice of the segment's DWPT.                     *)
ExactlyOnce == NotAppliedTwice /\ GlobalExactlyOnce

(* No panic of the queue is reached: an operation on a closed queue, a     *)
(* sequence number above the maxSeqNo that AdvanceQueue computed from the  *)
(* size of the pool, a slice whose ends are out of order, or a closed      *)
(* queue with changes.                                                     *)
NoPanic == \A a \in Actors : pc[a] # "panic"

(* Close, whose error FlushAllThreads ignores, finds every update of the   *)
(* generation in a ticket.                                                 *)
NothingLostAtClose ==
    pc[Flusher] = "done" => closed /\ 1..tail = FrozenByAll \cup dropped

(* A document update that was under way when LockAndAbortAll began leaves  *)
(* no delete behind: when it is over, nothing is buffered but what came    *)
(* later (checked in the state of the last step of LockAndAbortAll).       *)
AbortDropsAll ==
    [][pc[Flusher] = "aborting" /\ pc'[Flusher] = "idle" =>
          /\ gBuf' = {} /\ gTail' = tail'
          /\ 1..tail' = FrozenByAll' \cup dropped']_vars

=============================================================================
