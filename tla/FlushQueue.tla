----------------------------- MODULE FlushQueue -----------------------------
(***************************************************************************)
(* DocumentsWriterFlushQueue (index/documents_writer_flush_queue.go): the  *)
(* queue of flush tickets through which flushed segments and frozen global *)
(* deletes reach the index.  The clients are the goroutines that run       *)
(* DocumentsWriter.doFlush (one segment ticket per DWPT),                  *)
(* DocumentsWriter.applyAllDeletes (a ticket without a segment) and        *)
(* IndexWriter.publishFlushedSegments (TryPurge or ForcePurge).            *)
(*                                                                         *)
(* A ticket is named by its position in the order of creation; its frozen  *)
(* deletes and its segment are not looked into.  Every step is what one    *)
(* goroutine does while it holds q.mu, or between two such sections.       *)
(***************************************************************************)
EXTENDS Naturals, Sequences, FiniteSets

CONSTANTS Threads,        \* the goroutines that flush and publish
          MaxTickets,     \* bound on the tickets created
          FlushMayFail,   \* whether DWPT.Flush may return an error
          PublishMayFail, \* whether the purge consumer may return an error
          None            \* no goroutine

ASSUME FlushQueueAssumption ==
    /\ None \notin Threads
    /\ MaxTickets \in Nat
    /\ FlushMayFail \in BOOLEAN
    /\ PublishMayFail \in BOOLEAN

VARIABLES queue,       \* q.queue
          ticketCount, \* q.ticketCount, read without q.mu by HasTickets
          tickets,     \* every ticket ever created, in order of creation
          qMu,         \* the goroutine inside q.mu, where it is held over two steps
          purgeMu,     \* the holder of q.purgeMu
          pc,          \* what each goroutine is about to do
          cur,         \* the ticket a goroutine is flushing, or has peeked
          log          \* history: the tickets handed to the consumer, in order

vars == <<queue, ticketCount, tickets, qMu, purgeMu, pc, cur, log>>

\* hasSegment: a segment is expected; segment: it has been set.
Ticket == [hasSegment : BOOLEAN, segment : BOOLEAN, failed : BOOLEAN, published : BOOLEAN]

NewFlushTicket(hasSegment) ==
    [hasSegment |-> hasSegment, segment |-> FALSE, failed |-> FALSE, published |-> FALSE]

CanPublish(ticket) == ~ticket.hasSegment \/ ticket.segment \/ ticket.failed

States == {"idle", "supplySegment", "supplyDeletes", "flush", "flushed", "event",
           "peek", "consume", "pop", "dec", "unlock", "panic"}

TypeOK ==
    /\ queue \in Seq(Nat \ {0})
    /\ ticketCount \in Nat
    /\ tickets \in Seq(Ticket)
    /\ qMu \in Threads \cup {None}
    /\ purgeMu \in Threads \cup {None}
    /\ pc \in [Threads -> States]
    /\ cur \in [Threads -> Nat]
    /\ log \in Seq(Nat \ {0})

Init ==
    /\ queue = <<>>
    /\ ticketCount = 0
    /\ tickets = <<>>
    /\ qMu = None
    /\ purgeMu = None
    /\ pc = [t \in Threads |-> "idle"]
    /\ cur = [t \in Threads |-> 0]
    /\ log = <<>>

-----------------------------------------------------------------------------
(* AddTicket: q.mu is held from incTickets to the end of the supplier.     *)

\* Seeded mistake: AddTicket forgets incTickets.
MutantAddTicketUncounted(t) ==
    /\ qMu = None
    /\ Len(tickets) < MaxTickets
    /\ pc[t] \in {"idle", "flushed"}
    /\ pc' = [pc EXCEPT ![t] = "supplySegment"]
    /\ qMu' = t
    /\ UNCHANGED <<queue, ticketCount, tickets, purgeMu, cur, log>>

\* doFlush starts on a DWPT ("idle"), or goes on to the next pending one
\* ("flushed"); applyAllDeletes and the full flush ask for a naked ticket.
AddTicketInc(t) ==
    /\ qMu = None
    /\ Len(tickets) < MaxTickets
    /\ \/ /\ pc[t] \in {"idle", "flushed"}
          /\ pc' = [pc EXCEPT ![t] = "supplySegment"]
       \/ /\ pc[t] = "idle"
          /\ pc' = [pc EXCEPT ![t] = "supplyDeletes"]
    /\ qMu' = t
    /\ ticketCount' = ticketCount + 1
    /\ UNCHANGED <<queue, tickets, purgeMu, cur, log>>

\* The supplier returned a ticket: it is appended before q.mu is released.
AddTicketAppend(t) ==
    /\ qMu = t
    /\ pc[t] \in {"supplySegment", "supplyDeletes"}
    /\ tickets' = Append(tickets, NewFlushTicket(pc[t] = "supplySegment"))
    /\ queue' = Append(queue, Len(tickets) + 1)
    /\ cur' = [cur EXCEPT ![t] = IF pc[t] = "supplySegment" THEN Len(tickets) + 1 ELSE 0]
    /\ pc' = [pc EXCEPT ![t] = IF pc[t] = "supplySegment" THEN "flush" ELSE "event"]
    /\ qMu' = None
    /\ UNCHANGED <<ticketCount, purgeMu, log>>

\* Seeded mistake: a ticket that was not issued is counted down twice.
MutantNilUncountedTwice(t) ==
    /\ qMu = t
    /\ pc[t] \in {"supplySegment", "supplyDeletes"}
    /\ ticketCount' = ticketCount - 2
    /\ pc' = [pc EXCEPT ![t] = "idle"]
    /\ qMu' = None
    /\ UNCHANGED <<queue, tickets, purgeMu, cur, log>>

\* The supplier returned nil (nothing was frozen) or an error.
AddTicketNil(t) ==
    /\ qMu = t
    /\ pc[t] \in {"supplySegment", "supplyDeletes"}
    /\ ticketCount' = ticketCount - 1
    /\ pc' = [pc EXCEPT ![t] = "idle"]
    /\ qMu' = None
    /\ UNCHANGED <<queue, tickets, purgeMu, cur, log>>

-----------------------------------------------------------------------------
(* The end of a flush, in doFlushOne and flushAndAddSegment.               *)

AddSegment(t) ==
    /\ pc[t] = "flush"
    /\ qMu = None
    /\ tickets' = [tickets EXCEPT ![cur[t]].segment = TRUE]
    /\ pc' = [pc EXCEPT ![t] = "flushed"]
    /\ UNCHANGED <<queue, ticketCount, qMu, purgeMu, cur, log>>

\* Seeded mistake: the failed flush leaves its ticket as it is.
MutantTicketNotFailed(t) ==
    /\ FlushMayFail
    /\ pc[t] = "flush"
    /\ qMu = None
    /\ pc' = [pc EXCEPT ![t] = "idle"]
    /\ UNCHANGED <<queue, ticketCount, tickets, qMu, purgeMu, cur, log>>

\* doFlush returns the error: AfterSegmentsFlushed is not called.
MarkTicketFailed(t) ==
    /\ FlushMayFail
    /\ pc[t] = "flush"
    /\ qMu = None
    /\ tickets' = [tickets EXCEPT ![cur[t]].failed = TRUE]
    /\ pc' = [pc EXCEPT ![t] = "idle"]
    /\ UNCHANGED <<queue, ticketCount, qMu, purgeMu, cur, log>>

-----------------------------------------------------------------------------
(* Purging.  purgeMu makes innerPurge run in one goroutine at a time.      *)

\* Seeded mistake: purging without purgeMu.
MutantPurgeUnguarded(t) ==
    /\ pc[t] = "flushed"
    /\ pc' = [pc EXCEPT ![t] = "peek"]
    /\ UNCHANGED <<queue, ticketCount, tickets, qMu, purgeMu, cur, log>>

\* AfterSegmentsFlushed -> publishFlushedSegments(false).
TryPurge(t) ==
    /\ pc[t] = "flushed"
    /\ IF purgeMu = None
       THEN /\ purgeMu' = t
            /\ pc' = [pc EXCEPT ![t] = "peek"]
       ELSE /\ pc' = [pc EXCEPT ![t] = "idle"]
            /\ UNCHANGED purgeMu
    /\ UNCHANGED <<queue, ticketCount, tickets, qMu, cur, log>>

\* publishFlushedSegments(true): an event, IndexWriter.doFlush or a rollback.
ForcePurge(t) ==
    /\ pc[t] \in {"idle", "event"}
    /\ purgeMu = None
    /\ purgeMu' = t
    /\ pc' = [pc EXCEPT ![t] = "peek"]
    /\ UNCHANGED <<queue, ticketCount, tickets, qMu, cur, log>>

\* Seeded mistake: a ready ticket overtakes a head that is not ready.
MutantPeekAnyReady(t) ==
    /\ pc[t] = "peek"
    /\ qMu = None
    /\ \E i \in 1..Len(queue) :
          /\ CanPublish(tickets[queue[i]])
          /\ cur' = [cur EXCEPT ![t] = queue[i]]
    /\ pc' = [pc EXCEPT ![t] = "consume"]
    /\ UNCHANGED <<queue, ticketCount, tickets, qMu, purgeMu, log>>

\* Seeded mistake: the head is published whether or not its flush has ended.
MutantPeekUnready(t) ==
    /\ pc[t] = "peek"
    /\ qMu = None
    /\ queue # <<>>
    /\ cur' = [cur EXCEPT ![t] = Head(queue)]
    /\ pc' = [pc EXCEPT ![t] = "consume"]
    /\ UNCHANGED <<queue, ticketCount, tickets, qMu, purgeMu, log>>

\* innerPurge looks at the head under q.mu and then lets q.mu go.
Peek(t) ==
    /\ pc[t] = "peek"
    /\ qMu = None
    /\ IF queue # <<>> /\ CanPublish(tickets[Head(queue)])
       THEN /\ cur' = [cur EXCEPT ![t] = Head(queue)]
            /\ pc' = [pc EXCEPT ![t] = "consume"]
       ELSE /\ pc' = [pc EXCEPT ![t] = "unlock"]
            /\ UNCHANGED cur
    /\ UNCHANGED <<queue, ticketCount, tickets, qMu, purgeMu, log>>

\* The consumer of IndexWriter.publishFlushedSegments.  MarkPublished panics on
\* a ticket that was published before, which ends the process: no goroutine takes
\* a step after it.  If publishing returns an error the ticket stays at the head
\* of the queue.
Consume(t) ==
    /\ pc[t] = "consume"
    /\ IF tickets[cur[t]].published
       THEN /\ pc' = [u \in Threads |-> "panic"]
            /\ UNCHANGED <<tickets, log>>
       ELSE /\ tickets' = [tickets EXCEPT ![cur[t]].published = TRUE]
            /\ log' = Append(log, cur[t])
            /\ \/ pc' = [pc EXCEPT ![t] = "pop"]
               \/ PublishMayFail /\ pc' = [pc EXCEPT ![t] = "unlock"]
    /\ UNCHANGED <<queue, ticketCount, qMu, purgeMu, cur>>

PopHead(t) ==
    /\ pc[t] = "pop"
    /\ qMu = None
    /\ IF queue # <<>> /\ Head(queue) = cur[t]
       THEN /\ queue' = Tail(queue)
            /\ qMu' = t
            /\ pc' = [pc EXCEPT ![t] = "dec"]
       ELSE /\ pc' = [pc EXCEPT ![t] = "peek"]
            /\ UNCHANGED <<queue, qMu>>
    /\ UNCHANGED <<ticketCount, tickets, purgeMu, cur, log>>

PopDec(t) ==
    /\ pc[t] = "dec"
    /\ ticketCount' = ticketCount - 1
    /\ qMu' = None
    /\ pc' = [pc EXCEPT ![t] = "peek"]
    /\ UNCHANGED <<queue, tickets, purgeMu, cur, log>>

\* The deferred purgeMu.Unlock, a step of its own: a TryPurge that comes
\* between the last Peek and this step gives up although a ticket became ready.
PurgeUnlock(t) ==
    /\ pc[t] = "unlock"
    /\ purgeMu' = None
    /\ pc' = [pc EXCEPT ![t] = "idle"]
    /\ UNCHANGED <<queue, ticketCount, tickets, qMu, cur, log>>

-----------------------------------------------------------------------------
Flush(t) == AddTicketInc(t) \/ AddTicketAppend(t) \/ AddTicketNil(t)
            \/ AddSegment(t) \/ MarkTicketFailed(t)

Purge(t) == Peek(t) \/ Consume(t) \/ PopHead(t) \/ PopDec(t) \/ PurgeUnlock(t)

Next == \E t \in Threads : Flush(t) \/ TryPurge(t) \/ ForcePurge(t) \/ Purge(t)

Spec == Init /\ [][Next]_vars

\* A goroutine that is inside doFlush or innerPurge goes on; one that waits for
\* q.mu or purgeMu gets it in the end (sync.Mutex starves nobody).
Step(t) ==
    \/ AddTicketAppend(t) \/ AddTicketNil(t) \/ AddSegment(t) \/ MarkTicketFailed(t)
    \/ TryPurge(t) \/ Purge(t)
    \/ pc[t] = "event" /\ ForcePurge(t)

\* The application keeps calling Commit or Flush, which always force a purge.
FairSpec ==
    /\ Spec
    /\ \A t \in Threads : SF_vars(Step(t))
    /\ SF_vars(\E t \in Threads : ForcePurge(t))

-----------------------------------------------------------------------------
(* Properties.                                                             *)

(* HasTickets, which reads ticketCount without q.mu, never answers "no"    *)
(* while a ticket is queued: AddTicket counts before it appends and        *)
(* innerPurge removes before it counts down.                               *)
CountCoversQueue == Len(queue) <= ticketCount

(* The panic "ticket was already published - can not publish twice" of     *)
(* FlushTicket.MarkPublished is never reached.                             *)
NoDoublePublish == \A t \in Threads : pc[t] # "panic"

(* Tickets reach the consumer in the order of their creation, each one     *)
(* after its flush has ended: what doFlushOne's comment on flushes A and B *)
(* asks for.                                                               *)
PublishedInOrder ==
    \A i \in 1..Len(log) : log[i] = i /\ i <= Len(tickets) /\ CanPublish(tickets[i])

(* What the queue promises to the index, as a specification of its own.    *)
Order == INSTANCE TicketOrder
             WITH issued <- Len(tickets),
                  ended <- {i \in 1..Len(tickets) : CanPublish(tickets[i])},
                  published <- log

(* The ticket queue implements TicketOrder, whatever AddTicket, AddSegment,*)
(* MarkTicketFailed and the purging goroutines interleave to.              *)
ImplementsTicketOrder == Order!Spec

(* Every ticket is handed to the consumer in the end, also when the flush  *)
(* it stands for failed, when a TryPurge found purgeMu taken, and when a   *)
(* later flush ended first.                                                *)
EveryTicketPublished ==
    \A i \in 1..MaxTickets : (Len(tickets) >= i) ~> (Len(log) >= i)

=============================================================================
