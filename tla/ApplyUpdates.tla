----------------------------- MODULE ApplyUpdates -----------------------------
(***************************************************************************)
(* How IndexWriter resolves packets of deletes against segments: flushed   *)
(* tickets are published (a packet is pushed to the stream, an event that  *)
(* applies it is queued, the segment joins segmentInfos), goroutines drain *)
(* the event queue, and doFlush waits for every packet.  With AddIndexes,  *)
(* which adds segments of other indexes, and GetReader.                    *)
(*                                                                         *)
(* A packet is named by its generation, a flushed segment by the           *)
(* generation that publishing gave it, an imported one by a negative       *)
(* number.  A goroutine runs the steps in pc[p] in order.  What a packet   *)
(* deletes inside a segment is left out: hits records which segments it    *)
(* was run against.  Tickets are those FlushQueue lets through, in order.  *)
(***************************************************************************)
EXTENDS Integers, Sequences, FiniteSets

CONSTANTS
  None,        \* no goroutine
  Procs,       \* goroutines that use the writer
  Shapes,      \* the tickets flushes produce: subsets of {"global", "seg", "private"}
  Cap,         \* capacity of the event queue (1024 in the code)
  MaxTickets,  \* bound: tickets
  MaxFlushes,  \* bound: calls of Flush, AddIndexes and GetReader
  MaxImports,  \* bound: calls of AddIndexes
  MaxMissed    \* bound: segments packets missed

ASSUME NoneAssumption  == None \notin Procs
ASSUME ShapeAssumption ==
  \A s \in Shapes : s \in (SUBSET {"global", "seg", "private"}) \ {{}}
ASSUME BoundAssumption ==
  /\ Cap \in Nat \ {0} /\ MaxTickets \in Nat /\ MaxFlushes \in Nat
  /\ MaxImports \in Nat /\ MaxMissed \in Nat

Gens  == 1 .. 2 * MaxTickets
Locks == {"fullFlushLock", "purgeMu"}

VARIABLES
  nextGen,   \* BufferedUpdatesStream.nextGen
  updates,   \* BufferedUpdatesStream.updates
  pushed,    \* history: the packets that were pushed
  private,   \* the packets that belong to one segment
  segs,      \* IndexWriter.segmentInfos
  hits,      \* packet -> history: the segments it was applied to
  missed,    \* history: <<packet, segment>>, skipped when the packet was applied
  queue,     \* IndexWriter.eventQueue: packets to apply, and 0 for a purge
  owner,     \* packet -> the goroutine that holds its apply lock
  tickets,   \* flushed tickets, oldest first
  tragedy,   \* IndexWriter.tragedy is set
  lock,      \* lock -> the goroutine that holds it
  pc,        \* goroutine -> the steps it still has to take
  view,      \* goroutine -> the segments applyPacketLocked collected
  late,      \* goroutine -> packets waitApply found locked, in order
  due,       \* goroutine -> history: packets and segments when its wait began
  born,      \* imported segment -> history: nextGen when it was added
  made, flushes  \* counts of tickets and flushes

stream == <<nextGen, updates, pushed, private>>
local  == <<pc, view, late, due>>
vars   == <<stream, segs, hits, missed, queue, owner, tickets, tragedy, lock, local, born, made, flushes>>

Init ==
  /\ nextGen = 1 /\ updates = {} /\ pushed = {} /\ private = {}
  /\ segs = {} /\ hits = [g \in Gens |-> {}] /\ missed = {}
  /\ queue = <<>> /\ owner = [g \in Gens |-> None] /\ tickets = <<>>
  /\ tragedy = FALSE /\ lock = [l \in Locks |-> None]
  /\ pc = [p \in Procs |-> <<>>] /\ view = [p \in Procs |-> {}]
  /\ late = [p \in Procs |-> <<>>]
  /\ due = [p \in Procs |-> [packets |-> {}, segs |-> {}]]
  /\ born = <<>> /\ made = 0 /\ flushes = 0

\* SegmentCommitInfo.GetBufferedDeletesGen: an imported segment has none.
DelGen(s) == IF s > 0 THEN s ELSE -1

At(p, step) == pc[p] # <<>> /\ Head(pc[p])[1] = step
Arg(p)      == Head(pc[p])[2]
\* Go on with these steps, and then with the rest of the operation.
Then(p, steps) == pc' = [pc EXCEPT ![p] = steps \o Tail(@)]
Step(s) == <<s, 0>>

-----------------------------------------------------------------------------
(* The operations *)

\* doFlush(true).  The tickets of FlushAllThreads are added by "flushAll".
FlushSteps == <<Step("fullFlush"), Step("flushAll"), Step("forcePurge"), Step("events"),
                Step("endFull"), Step("waitAll")>>

\* Some DWPT is flushed: its ticket is complete.
NewTicket == \E s \in Shapes : "seg" \in s /\ tickets' = Append(tickets, s)

\* UpdateDocuments that flushed a DWPT: AfterSegmentsFlushed, then the events.
FlushDWPT(p) ==
  /\ pc[p] = <<>> /\ made < MaxTickets
  /\ NewTicket /\ made' = made + 1
  /\ pc' = [pc EXCEPT ![p] = <<Step("tryPurge"), Step("maybeEvents")>>]
  /\ UNCHANGED <<stream, segs, hits, missed, queue, owner, tragedy, lock, view, late, due, born, flushes>>

\* DeleteDocuments that froze the global buffer: a ticket without a segment,
\* and OnDeletesApplied, which queues a purge.
ApplyAllDeletes(p) ==
  /\ pc[p] = <<>> /\ made < MaxTickets
  /\ tickets' = Append(tickets, {"global"}) /\ made' = made + 1
  /\ pc' = [pc EXCEPT ![p] = <<<<"addEvent", 0>>, Step("maybeEvents")>>]
  /\ UNCHANGED <<stream, segs, hits, missed, queue, owner, tragedy, lock, view, late, due, born, flushes>>

\* Flush, and doFlush at the start of AddIndexes and GetReader.
StartFlush(p, before, after) ==
  /\ pc[p] = <<>> /\ flushes < MaxFlushes /\ ~tragedy
  /\ pc' = [pc EXCEPT ![p] = before \o FlushSteps \o after]
  /\ flushes' = flushes + 1
  /\ UNCHANGED <<stream, segs, hits, missed, queue, owner, tickets, tragedy, lock, view, late, due, born, made>>

Flush(p)      == StartFlush(p, <<>>, <<Step("return")>>)
AddIndexes(p) == Len(born) < MaxImports /\ StartFlush(p, <<>>, <<Step("import")>>)
GetReader(p)  == StartFlush(p, <<Step("fullFlush")>>, <<Step("return")>>)

\* fullFlushLock.Lock: a sync.Mutex is not reentrant.
FullFlush(p) ==
  /\ At(p, "fullFlush") /\ lock["fullFlushLock"] = None
  /\ lock' = [lock EXCEPT !["fullFlushLock"] = p]
  /\ Then(p, <<>>)
  /\ UNCHANGED <<stream, segs, hits, missed, queue, owner, tickets, tragedy, view, late, due, born, made, flushes>>

\* FlushAllThreads: a DWPT with documents, if there is one, becomes a ticket.
FlushAll(p) ==
  /\ At(p, "flushAll")
  /\ \/ made < MaxTickets /\ NewTicket /\ made' = made + 1
     \/ UNCHANGED <<tickets, made>>
  /\ Then(p, <<>>)
  /\ UNCHANGED <<stream, segs, hits, missed, queue, owner, tragedy, lock, view, late, due, born, flushes>>

\* The deferred unlock, before the wait for the packets.
EndFull(p) ==
  /\ At(p, "endFull")
  /\ lock' = [lock EXCEPT !["fullFlushLock"] = None]
  /\ Then(p, <<>>)
  /\ UNCHANGED <<stream, segs, hits, missed, queue, owner, tickets, tragedy, view, late, due, born, made, flushes>>

-----------------------------------------------------------------------------
(* publishFlushedSegments *)

\* ForcePurge waits for purgeMu, TryPurge gives up.
Purge(p) ==
  /\ \/ At(p, "forcePurge") /\ lock["purgeMu"] = None
     \/ At(p, "tryPurge")
  /\ IF lock["purgeMu"] = None
     THEN lock' = [lock EXCEPT !["purgeMu"] = p] /\ Then(p, <<Step("publish")>>)
     ELSE UNCHANGED lock /\ Then(p, <<>>)
  /\ UNCHANGED <<stream, segs, hits, missed, queue, owner, tickets, tragedy, view, late, due, born, made, flushes>>

\* The steps that publish a ticket: its global packet, then its segment.
TicketSteps(t) ==
  (IF "global" \in t THEN <<Step("push")>> ELSE <<>>)
  \o (IF "private" \in t THEN <<Step("pushPrivate")>>
      ELSE IF "seg" \in t THEN <<Step("nextGen")>> ELSE <<>>)

\* Mutant: the end of the purge keeps purgeMu.
MutantPurgeKeepsLock(p) ==
  /\ At(p, "publish")
  /\ Then(p, IF tickets # <<>> THEN TicketSteps(Head(tickets)) \o <<Step("pop")>> ELSE <<>>)
  /\ UNCHANGED <<stream, segs, hits, missed, queue, owner, tickets, tragedy, lock, view, late, due, born, made, flushes>>

\* innerPurge: the head of the queue, or the end of the purge.
PublishHead(p) ==
  /\ At(p, "publish")
  /\ IF tickets # <<>>
     THEN /\ Then(p, TicketSteps(Head(tickets)) \o <<Step("pop")>>) /\ UNCHANGED lock
     ELSE /\ Then(p, <<>>) /\ lock' = [lock EXCEPT !["purgeMu"] = None]
  /\ UNCHANGED <<stream, segs, hits, missed, queue, owner, tickets, tragedy, view, late, due, born, made, flushes>>

PopTicket(p) ==
  /\ At(p, "pop")
  /\ tickets' = Tail(tickets)
  /\ Then(p, <<Step("publish")>>)
  /\ UNCHANGED <<stream, segs, hits, missed, queue, owner, tragedy, lock, view, late, due, born, made, flushes>>

\* publishFrozenUpdates: Push, then the event that applies the packet.
Push(p) ==
  /\ At(p, "push") \/ At(p, "pushPrivate")
  /\ nextGen' = nextGen + 1
  /\ updates' = updates \cup {nextGen} /\ pushed' = pushed \cup {nextGen}
  /\ IF At(p, "push")
     THEN Then(p, <<<<"addEvent", nextGen>>>>) /\ UNCHANGED private
     ELSE /\ Then(p, <<<<"addEvent", nextGen>>, <<"addSegment", nextGen>>>>)
          /\ private' = private \cup {nextGen}
  /\ UNCHANGED <<segs, hits, missed, queue, owner, tickets, tragedy, lock, view, late, due, born, made, flushes>>

\* Without a packet the generation is finished as soon as it is handed out.
NextGen(p) ==
  /\ At(p, "nextGen")
  /\ nextGen' = nextGen + 1
  /\ Then(p, <<<<"addSegment", nextGen>>>>)
  /\ UNCHANGED <<updates, pushed, private, segs, hits, missed, queue, owner, tickets, tragedy, lock, view, late, due, born, made, flushes>>

\* eventQueue.add blocks while the channel is full.
AddEvent(p) ==
  /\ At(p, "addEvent") /\ Len(queue) < Cap
  /\ queue' = Append(queue, Arg(p))
  /\ Then(p, <<>>)
  /\ UNCHANGED <<stream, segs, hits, missed, owner, tickets, tragedy, lock, view, late, due, born, made, flushes>>

\* SetBufferedDeletesGen and segmentInfos.Add.
AddSegment(p) ==
  /\ At(p, "addSegment")
  /\ segs' = segs \cup {Arg(p)}
  /\ Then(p, <<>>)
  /\ UNCHANGED <<stream, hits, missed, queue, owner, tickets, tragedy, lock, view, late, due, born, made, flushes>>

-----------------------------------------------------------------------------
(* Events and the application of packets *)

\* IndexWriter.processEvents does nothing after a tragic event.
MaybeEvents(p) ==
  /\ At(p, "maybeEvents")
  /\ Then(p, IF tragedy THEN <<>> ELSE <<Step("events")>>)
  /\ UNCHANGED <<stream, segs, hits, missed, queue, owner, tickets, tragedy, lock, view, late, due, born, made, flushes>>

\* eventQueue.processEvents: one event, or the end when the queue is empty.
ProcessEvents(p) ==
  /\ At(p, "events")
  /\ IF queue = <<>>
     THEN Then(p, <<>>) /\ UNCHANGED queue
     ELSE /\ queue' = Tail(queue)
          /\ Then(p, IF Head(queue) = 0
                     THEN <<Step("forcePurge"), Step("events")>>
                     ELSE <<<<"tryEvent", Head(queue)>>, Step("events")>>)
  /\ UNCHANGED <<stream, segs, hits, missed, owner, tickets, tragedy, lock, view, late, due, born, made, flushes>>

\* TryApply: gives up when another goroutine holds the packet's lock.
\* waitApply remembers the packets it gave up.
TryApply(p) ==
  /\ At(p, "tryEvent") \/ At(p, "tryWait")
  /\ IF owner[Arg(p)] = None
     THEN /\ owner' = [owner EXCEPT ![Arg(p)] = p]
          /\ Then(p, <<<<"collect", Arg(p)>>,
                       <<IF At(p, "tryEvent") THEN "applyEvent" ELSE "apply", Arg(p)>>>>)
          /\ UNCHANGED late
     ELSE /\ Then(p, <<>>) /\ UNCHANGED owner
          /\ late' = IF At(p, "tryWait") THEN [late EXCEPT ![p] = Append(@, Arg(p))] ELSE late
  /\ UNCHANGED <<stream, segs, hits, missed, queue, tickets, tragedy, lock, view, due, born, made, flushes>>

\* ForceApply waits for the packet's lock.
ForceApply(p) ==
  /\ At(p, "force") /\ owner[Arg(p)] = None
  /\ owner' = [owner EXCEPT ![Arg(p)] = p]
  /\ Then(p, <<<<"collect", Arg(p)>>, <<"apply", Arg(p)>>>>)
  /\ UNCHANGED <<stream, segs, hits, missed, queue, tickets, tragedy, lock, view, late, due, born, made, flushes>>

\* applyPacketLocked: the live segments, collected under segmentInfos.mu.  A
\* segment without a pooled instance or a reader is skipped: no error.
Collect(p) ==
  /\ At(p, "collect")
  /\ \E skipped \in SUBSET segs :
       /\ view' = [view EXCEPT ![p] = segs \ skipped]
       /\ missed' = missed \cup ({Arg(p)} \X skipped)
       /\ skipped = {} \/ Cardinality(missed') <= MaxMissed
  /\ Then(p, <<>>)
  /\ UNCHANGED <<stream, segs, hits, queue, owner, tickets, tragedy, lock, late, due, born, made, flushes>>

\* Apply refuses a private packet when it is not given exactly one segment.
Refused(p) == Arg(p) \in private /\ Cardinality(view[p]) # 1

\* Mutant: a packet is taken for finished after the first time it was applied.
MutantApplyFinishes(p) ==
  /\ At(p, "apply") \/ At(p, "applyEvent")
  /\ ~Refused(p)
  /\ hits' = [hits EXCEPT ![Arg(p)] = @ \cup {s \in view[p] : DelGen(s) <= Arg(p)}]
  /\ owner' = [owner EXCEPT ![Arg(p)] = None]
  /\ updates' = updates \ {Arg(p)}
  /\ view' = [view EXCEPT ![p] = {}]
  /\ Then(p, <<>>)
  /\ UNCHANGED <<nextGen, pushed, private, segs, missed, queue, tickets, tragedy, lock, late, due, born, made, flushes>>

\* FrozenBufferedUpdates.Apply: segments newer than the packet are skipped.
Apply(p) ==
  /\ At(p, "apply") \/ At(p, "applyEvent")
  /\ ~Refused(p)
  /\ hits' = [hits EXCEPT ![Arg(p)] = @ \cup {s \in view[p] : DelGen(s) <= Arg(p)}]
  /\ owner' = [owner EXCEPT ![Arg(p)] = None]
  /\ view' = [view EXCEPT ![p] = {}]
  /\ Then(p, <<>>)
  /\ UNCHANGED <<stream, segs, missed, queue, tickets, tragedy, lock, late, due, born, made, flushes>>

\* The error ends the operation, which gives its locks back.  In an event it
\* is a tragic event of the writer.
ApplyFails(p) ==
  /\ At(p, "apply") \/ At(p, "applyEvent")
  /\ Refused(p)
  /\ tragedy' = (tragedy \/ At(p, "applyEvent"))
  /\ owner' = [owner EXCEPT ![Arg(p)] = None]
  /\ view' = [view EXCEPT ![p] = {}]
  /\ lock' = [l \in Locks |-> IF lock[l] = p THEN None ELSE lock[l]]
  /\ late' = [late EXCEPT ![p] = <<>>]
  /\ pc' = [pc EXCEPT ![p] = <<>>]
  /\ UNCHANGED <<stream, segs, hits, missed, queue, tickets, due, born, made, flushes>>

\* waitApply: the second loop, over the packets others had locked.
ForceLate(p) ==
  /\ At(p, "forceLate")
  /\ Then(p, [i \in DOMAIN late[p] |-> <<"force", late[p][i]>>])
  /\ late' = [late EXCEPT ![p] = <<>>]
  /\ UNCHANGED <<stream, segs, hits, missed, queue, owner, tickets, tragedy, lock, view, due, born, made, flushes>>

\* The packets of a set in the order of their generations.
Sorted(S) ==
  [i \in 1 .. Cardinality(S) |-> CHOOSE g \in S : Cardinality({h \in S : h <= g}) = i]

\* WaitApplyAll: the tracked packets, in the order of their generations.
WaitApplyAll(p) ==
  /\ At(p, "waitAll")
  /\ LET waitFor == Sorted(updates)
     IN  Then(p, [i \in DOMAIN waitFor |-> <<"tryWait", waitFor[i]>>] \o <<Step("forceLate")>>)
  /\ due' = [due EXCEPT ![p] = [packets |-> pushed, segs |-> segs]]
  /\ UNCHANGED <<stream, segs, hits, missed, queue, owner, tickets, tragedy, lock, view, late, born, made, flushes>>

\* AddIndexes: the copied segments join segmentInfos with no generation.
Import(p) ==
  /\ At(p, "import")
  /\ born' = Append(born, nextGen)
  /\ segs' = segs \cup {-(Len(born) + 1)}
  /\ Then(p, <<Step("return")>>)
  /\ UNCHANGED <<stream, hits, missed, queue, owner, tickets, tragedy, lock, view, late, due, made, flushes>>

\* The operation returns; GetReader has deferred an unlock.
Return(p) ==
  /\ At(p, "return")
  /\ lock' = [l \in Locks |-> IF lock[l] = p THEN None ELSE lock[l]]
  /\ due' = [due EXCEPT ![p] = [packets |-> {}, segs |-> {}]]
  /\ Then(p, <<>>)
  /\ UNCHANGED <<stream, segs, hits, missed, queue, owner, tickets, tragedy, view, late, born, made, flushes>>

\* A goroutine that is idle or waits: for a place in the event queue (add
\* waits with eventQueue.mu), for a mutex, for a packet.
Waits(p) ==
  \/ pc[p] = <<>>
  \/ At(p, "addEvent") /\ Len(queue) = Cap
  \/ At(p, "forcePurge") /\ lock["purgeMu"] # None
  \/ At(p, "fullFlush") /\ lock["fullFlushLock"] # None
  \/ At(p, "force") /\ owner[Arg(p)] # None

\* The event queue is full, an event is to be added, and nobody drains it.
Clogged ==
  /\ Len(queue) = Cap /\ \E p \in Procs : At(p, "addEvent")
  /\ \A p \in Procs : Waits(p)

\* The application has stopped calling.
Quiet == \A p \in Procs : pc[p] = <<>>
Rest  == (Quiet \/ Clogged) /\ UNCHANGED vars

Work(p) ==
  \/ FullFlush(p) \/ FlushAll(p) \/ EndFull(p)
  \/ Purge(p) \/ PublishHead(p) \/ PopTicket(p) \/ Push(p) \/ NextGen(p)
  \/ AddEvent(p) \/ AddSegment(p) \/ MaybeEvents(p) \/ ProcessEvents(p)
  \/ TryApply(p) \/ ForceApply(p) \/ Collect(p) \/ Apply(p) \/ ApplyFails(p)
  \/ ForceLate(p) \/ WaitApplyAll(p) \/ Import(p) \/ Return(p)

Next ==
  \/ \E p \in Procs :
       FlushDWPT(p) \/ ApplyAllDeletes(p) \/ Flush(p) \/ AddIndexes(p) \/ Work(p)
  \/ Rest

Spec     == Init /\ [][Next]_vars
\* A goroutine inside an operation goes on, and a mutex does not starve it.
Fairness == \A p \in Procs : SF_vars(Work(p))
FairSpec == Spec /\ Fairness
\* The application calls GetReader too.
ReaderSpec == Init /\ [][Next \/ \E p \in Procs : GetReader(p)]_vars /\ Fairness

-----------------------------------------------------------------------------
\* Types of the state, and who holds what: a packet's lock is held by the
\* goroutine that applies it.
TypeOK ==
  /\ nextGen \in 1 .. 2 * MaxTickets + 1
  /\ updates \subseteq pushed /\ pushed \subseteq Gens /\ private \subseteq pushed
  /\ segs \subseteq Gens \cup {-i : i \in 1 .. MaxFlushes}
  /\ \A g \in Gens : hits[g] \subseteq segs
  /\ \A i \in DOMAIN queue : queue[i] \in pushed \cup {0}
  /\ \A g \in Gens : owner[g] # None =>
       /\ g \in pushed /\ pc[owner[g]] # <<>>
       /\ Head(pc[owner[g]]) \in {"collect", "apply", "applyEvent"} \X {g}
  /\ lock["purgeMu"] # None => pc[lock["purgeMu"]] # <<>>

\* When Flush returns without an error, every packet published before its
\* wait was applied to every older segment published before it, the private
\* packets to their own segments too, whoever applied it and however events,
\* purges and other flushes interleaved; or applying it skipped that segment,
\* for want of a reader.
DeletesResolved ==
  \A p \in Procs : At(p, "return") \/ At(p, "import") =>
    \A g \in due[p].packets, s \in due[p].segs :
      DelGen(s) <= g => s \in hits[g] \/ <<g, s>> \in missed

\* The state has its types, a packet's lock its owner, and a wait that is over
\* left no packet unresolved where its segments could be read.
PacketsResolved == TypeOK /\ DeletesResolved

\* Every operation that was called returns: nobody waits for a lock or for a
\* packet that nobody will free, nor for a place in the event queue, with
\* purgeMu held or without, unless everybody else is idle or waits (Clogged).
OpsReturn == \A p \in Procs : pc[p] # <<>> ~> pc[p] = <<>> \/ Clogged

-----------------------------------------------------------------------------
(* What comments and tests of the code say and the code does not do: TLC   *)
(* reports each of these violated, with the constants README.md gives.     *)

\* A segment never sees the deletes of a packet older than itself.
DeletesInOrder ==
  \A g \in Gens : \A s \in hits[g] : IF s > 0 THEN s <= g ELSE born[-s] <= g

\* A packet is resolved against every live segment.
AllResolved ==
  \A p \in Procs : At(p, "return") =>
    \A g \in due[p].packets, s \in due[p].segs : DelGen(s) <= g => s \in hits[g]

\* Applying a packet is no tragic event.
NoTragedy == ~tragedy

\* A packet that is applied is finished: the stream forgets it.
AppliedIsFinished ==
  Quiet => \A g \in updates : \E s \in segs : DelGen(s) <= g /\ s \notin hits[g]
=============================================================================
