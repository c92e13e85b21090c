-------------------------- MODULE FlushQueueProofs --------------------------
(***************************************************************************)
(* Proofs about FlushQueue for any number of goroutines and tickets: the   *)
(* order of publication, the lock-free ticket count, and the refinement of *)
(* TicketOrder.                                                            *)
(***************************************************************************)
EXTENDS FlushQueue, SequenceTheorems, TLAPS

\* The queue holds the last Len(queue) tickets created, oldest first.
Popped == Len(tickets) - Len(queue)

Window ==
    /\ Len(queue) <= Len(tickets)
    /\ \A i \in 1..Len(queue) : queue[i] = Popped + i

\* At most the head of the queue is published and not yet popped.
LogInv ==
    /\ Len(log) \in {Popped, Popped + 1}
    /\ Len(log) <= Len(tickets)
    /\ \A i \in 1..Len(log) : log[i] = i
    /\ \A i \in 1..Len(tickets) : tickets[i].published <=> i <= Len(log)
    /\ \A i \in 1..Len(log) : CanPublish(tickets[i])

\* A goroutine inside q.mu has counted one ticket more than the queue holds.
CountInv ==
    /\ ticketCount = Len(queue) + (IF qMu = None THEN 0 ELSE 1)
    /\ \A t \in Threads : pc[t] # "panic" =>
          (qMu = t <=> pc[t] \in {"supplySegment", "supplyDeletes", "dec"})

Purging == {"peek", "consume", "pop", "dec", "unlock"}

PurgeInv ==
    \A t \in Threads :
        /\ pc[t] \in Purging => purgeMu = t
        /\ pc[t] \in {"consume", "pop"} =>
              /\ queue # <<>>
              /\ cur[t] = Popped + 1
              /\ CanPublish(tickets[cur[t]])
        /\ pc[t] = "pop" => Len(log) = Popped + 1

\* The goroutines in DWPT.Flush work on different tickets that are not ready.
FlushInv ==
    \A t \in Threads : pc[t] = "flush" =>
        /\ cur[t] \in 1..Len(tickets)
        /\ ~CanPublish(tickets[cur[t]])
        /\ \A u \in Threads : (u # t /\ pc[u] = "flush") => cur[u] # cur[t]

IInv == TypeOK /\ Window /\ LogInv /\ CountInv /\ PurgeInv /\ FlushInv

-----------------------------------------------------------------------------
(* What the two updates of the ticket table do.                            *)

\* Append: a new ticket at the end, the others as they were.
LEMMA AppendTicket ==
    ASSUME NEW S, NEW s \in Seq(S), NEW e \in S
    PROVE  /\ Append(s, e) \in Seq(S)
           /\ Len(Append(s, e)) = Len(s) + 1
           /\ \A i \in 1..Len(s) : Append(s, e)[i] = s[i]
           /\ Append(s, e)[Len(s) + 1] = e
  BY AppendProperties

\* Setting one field of one ticket keeps the table's type, its length and
\* every other ticket.
LEMMA UpdateTicket ==
    ASSUME NEW s \in Seq(Ticket), NEW i \in 1..Len(s), NEW e \in Ticket
    PROVE  /\ [s EXCEPT ![i] = e] \in Seq(Ticket)
           /\ Len([s EXCEPT ![i] = e]) = Len(s)
           /\ \A j \in 1..Len(s) : [s EXCEPT ![i] = e][j] = IF j = i THEN e ELSE s[j]
  BY ExceptSeq

-----------------------------------------------------------------------------
\* The empty queue satisfies IInv.
LEMMA InitIInv == Init => IInv
  BY FlushQueueAssumption, EmptySeq
     DEF Init, IInv, TypeOK, Window, LogInv, CountInv, PurgeInv, FlushInv, Popped,
         Purging, States, Ticket

\* IInv is inductive: one step per action of Next.
LEMMA NextIInv == IInv /\ [Next]_vars => IInv'
  <1> SUFFICES ASSUME IInv, [Next]_vars PROVE IInv'
    OBVIOUS
  <1> USE FlushQueueAssumption
  <1>a. /\ pc \in [Threads -> States]
        /\ cur \in [Threads -> Nat]
        /\ Len(queue) \in Nat /\ Len(tickets) \in Nat /\ Len(log) \in Nat
    BY LenProperties DEF IInv, TypeOK
  <1>q. queue \in Seq(Nat \ {0}) /\ tickets \in Seq(Ticket) /\ log \in Seq(Nat \ {0})
    BY DEF IInv, TypeOK
  <1>s. {"idle", "supplySegment", "supplyDeletes", "flush", "flushed", "event",
         "peek", "consume", "pop", "dec", "unlock", "panic"} \subseteq States
    BY DEF States
  <1> USE <1>a DEF IInv, Popped
  <1>1. ASSUME NEW t \in Threads, AddTicketInc(t) PROVE IInv'
    <2>1. pc' \in [Threads -> States]
      BY <1>1, <1>s DEF AddTicketInc
    <2>5. TypeOK'
      BY <1>1, <2>1 DEF TypeOK, AddTicketInc
    <2>6. Window'
      BY <1>1 DEF AddTicketInc, Window
    <2>7. LogInv'
      BY <1>1 DEF AddTicketInc, LogInv
    <2>8. CountInv'
      BY <1>1 DEF AddTicketInc, CountInv
    <2>9. PurgeInv'
      BY <1>1 DEF AddTicketInc, PurgeInv, Purging
    <2>10. FlushInv'
      BY <1>1 DEF AddTicketInc, FlushInv
    <2> QED
      BY <2>5, <2>6, <2>7, <2>8, <2>9, <2>10
  <1>2. ASSUME NEW t \in Threads, AddTicketAppend(t) PROVE IInv'
    <2> DEFINE e == NewFlushTicket(pc[t] = "supplySegment")
    <2>1. /\ e \in Ticket
          /\ ~e.published
          /\ pc[t] = "supplySegment" => ~CanPublish(e)
      BY DEF NewFlushTicket, Ticket, CanPublish
    <2>2. /\ tickets' = Append(tickets, e)
          /\ tickets' \in Seq(Ticket)
          /\ Len(tickets') = Len(tickets) + 1
          /\ \A i \in 1..Len(tickets) : tickets'[i] = tickets[i]
          /\ tickets'[Len(tickets) + 1] = e
      BY <1>2, <1>q, <2>1, AppendTicket DEF AddTicketAppend
    <2>3. /\ queue' \in Seq(Nat \ {0})
          /\ Len(queue') = Len(queue) + 1
          /\ \A i \in 1..Len(queue) : queue'[i] = queue[i]
          /\ queue'[Len(queue) + 1] = Len(tickets) + 1
          /\ queue' # <<>>
      <3>1. Len(tickets) + 1 \in Nat \ {0}
        BY LenProperties
      <3>2. queue' = Append(queue, Len(tickets) + 1)
        BY <1>2 DEF AddTicketAppend
      <3> QED
        BY <1>q, <3>1, <3>2, AppendTicket, EmptySeq, SMTT(30)
    <2>4. TypeOK'
      BY <1>2, <2>2, <2>3, <1>s DEF TypeOK, AddTicketAppend
    <2>5. Window'
      <3>1. Popped' = Popped
        BY <2>2, <2>3
      <3>2. Len(queue') <= Len(tickets')
        BY <2>2, <2>3 DEF Window
      <3>3. ASSUME NEW i \in 1..Len(queue') PROVE queue'[i] = Popped + i
        <4>1. CASE i \in 1..Len(queue)
          BY <2>3, <4>1 DEF Window
        <4>2. CASE i = Len(queue) + 1
          BY <2>3, <4>2
        <4> QED
          BY <2>3, <4>1, <4>2
      <3> QED
        BY <3>1, <3>2, <3>3 DEF Window
    <2>6. LogInv'
      <3>1. Popped' = Popped /\ log' = log
        BY <1>2, <2>2, <2>3 DEF AddTicketAppend
      <3>2. /\ Len(log') \in {Popped', Popped' + 1}
            /\ Len(log') <= Len(tickets')
            /\ \A i \in 1..Len(log') : log'[i] = i
        BY <2>2, <3>1 DEF LogInv
      <3>3. ASSUME NEW i \in 1..Len(tickets')
            PROVE  tickets'[i].published <=> i <= Len(log')
        <4>1. CASE i \in 1..Len(tickets)
          BY <2>2, <3>1, <4>1 DEF LogInv
        <4>2. CASE i = Len(tickets) + 1
          BY <2>1, <2>2, <3>1, <4>2 DEF LogInv
        <4> QED
          BY <2>2, <4>1, <4>2
      <3>4. \A i \in 1..Len(log') : CanPublish(tickets'[i])
        BY <2>2, <3>1 DEF LogInv
      <3> QED
        BY <3>2, <3>3, <3>4 DEF LogInv
    <2>7. CountInv'
      BY <1>2, <2>3 DEF AddTicketAppend, CountInv
    <2>8. PurgeInv'
      <3>1. Popped' = Popped /\ log' = log /\ purgeMu' = purgeMu
        BY <1>2, <2>2, <2>3 DEF AddTicketAppend
      <3>2. pc'[t] \in {"flush", "event"}
        BY <1>2 DEF AddTicketAppend
      <3>3. \A u \in Threads \ {t} : pc'[u] = pc[u] /\ cur'[u] = cur[u]
        BY <1>2 DEF AddTicketAppend
      <3>4. \A u \in Threads : pc[u] \in {"consume", "pop"} => cur[u] \in 1..Len(tickets)
        BY <1>q, EmptySeq DEF PurgeInv, Window
      <3> QED
        BY <2>2, <2>3, <3>1, <3>2, <3>3, <3>4 DEF PurgeInv, Purging
    <2>9. FlushInv'
      BY <1>2, <2>1, <2>2 DEF AddTicketAppend, FlushInv
    <2> QED
      BY <2>4, <2>5, <2>6, <2>7, <2>8, <2>9
  <1>3. ASSUME NEW t \in Threads, AddTicketNil(t) PROVE IInv'
    <2>1. ticketCount' \in Nat
      BY <1>3, LenProperties DEF AddTicketNil, CountInv
    <2>5. TypeOK'
      BY <1>3, <2>1, <1>s DEF TypeOK, AddTicketNil
    <2>6. Window'
      BY <1>3, <2>1 DEF AddTicketNil, Window
    <2>7. LogInv'
      BY <1>3, <2>1 DEF AddTicketNil, LogInv
    <2>8. CountInv'
      BY <1>3, <2>1 DEF AddTicketNil, CountInv
    <2>9. PurgeInv'
      BY <1>3, <2>1 DEF AddTicketNil, PurgeInv, Purging
    <2>10. FlushInv'
      BY <1>3, <2>1 DEF AddTicketNil, FlushInv
    <2> QED
      BY <2>5, <2>6, <2>7, <2>8, <2>9, <2>10
  <1>4. ASSUME NEW t \in Threads, pc[t] = "flush", qMu = None,
               NEW e \in Ticket,
               e.published = tickets[cur[t]].published,
               CanPublish(e),
               tickets' = [tickets EXCEPT ![cur[t]] = e],
               pc' \in {[pc EXCEPT ![t] = "flushed"], [pc EXCEPT ![t] = "idle"]},
               UNCHANGED <<queue, ticketCount, qMu, purgeMu, cur, log>>
        PROVE  IInv'
    <2>1. cur[t] \in 1..Len(tickets)
      BY <1>4 DEF FlushInv
    <2>2. /\ tickets' \in Seq(Ticket)
          /\ Len(tickets') = Len(tickets)
          /\ \A j \in 1..Len(tickets) : tickets'[j] = IF j = cur[t] THEN e ELSE tickets[j]
      BY <1>4, <1>q, <2>1, UpdateTicket
    <2>3. TypeOK'
      BY <1>4, <2>2, <1>s DEF TypeOK
    <2>4. Window'
      BY <1>4, <2>2 DEF Window
    <2>5. LogInv'
      <3>1. Popped' = Popped /\ log' = log
        BY <1>4, <2>2
      <3>2. \A i \in 1..Len(tickets) : tickets'[i].published = tickets[i].published
        BY <1>4, <2>2
      <3>3. \A i \in 1..Len(tickets) : CanPublish(tickets[i]) => CanPublish(tickets'[i])
        BY <1>4, <2>2
      <3>4. \A i \in 1..Len(tickets') : tickets'[i].published <=> i <= Len(log')
        BY <2>2, <3>1, <3>2 DEF LogInv
      <3>5. \A i \in 1..Len(log') : CanPublish(tickets'[i])
        BY <2>2, <3>1, <3>3 DEF LogInv
      <3>6. /\ Len(log') \in {Popped', Popped' + 1}
            /\ Len(log') <= Len(tickets')
            /\ \A i \in 1..Len(log') : log'[i] = i
        BY <2>2, <3>1 DEF LogInv
      <3> QED
        BY <3>4, <3>5, <3>6 DEF LogInv
    <2>6. CountInv'
      BY <1>4 DEF CountInv
    <2>7. PurgeInv'
      BY <1>4, <2>2 DEF PurgeInv, Purging, Window
    <2>8. FlushInv'
      BY <1>4, <2>2 DEF FlushInv
    <2> QED
      BY <2>3, <2>4, <2>5, <2>6, <2>7, <2>8
  <1>5. ASSUME NEW t \in Threads, AddSegment(t) PROVE IInv'
    <2> DEFINE e == [tickets[cur[t]] EXCEPT !.segment = TRUE]
    <2>1. tickets[cur[t]] \in Ticket
      BY <1>5, <1>q, ElementOfSeq DEF AddSegment, FlushInv
    <2>2. e \in Ticket /\ e.published = tickets[cur[t]].published /\ CanPublish(e)
      BY <2>1 DEF Ticket, CanPublish
    <2> QED
      BY <1>4, <1>5, <2>2 DEF AddSegment
  <1>6. ASSUME NEW t \in Threads, MarkTicketFailed(t) PROVE IInv'
    <2> DEFINE e == [tickets[cur[t]] EXCEPT !.failed = TRUE]
    <2>1. tickets[cur[t]] \in Ticket
      BY <1>6, <1>q, ElementOfSeq DEF MarkTicketFailed, FlushInv
    <2>2. e \in Ticket /\ e.published = tickets[cur[t]].published /\ CanPublish(e)
      BY <2>1 DEF Ticket, CanPublish
    <2> QED
      BY <1>4, <1>6, <2>2 DEF MarkTicketFailed
  <1>7. ASSUME NEW t \in Threads, TryPurge(t) PROVE IInv'
    <2>5. TypeOK'
      BY <1>7, <1>s DEF TypeOK, TryPurge
    <2>6. Window'
      BY <1>7 DEF TryPurge, Window
    <2>7. LogInv'
      BY <1>7 DEF TryPurge, LogInv
    <2>8. CountInv'
      BY <1>7 DEF TryPurge, CountInv
    <2>9. PurgeInv'
      BY <1>7 DEF TryPurge, PurgeInv, Purging
    <2>10. FlushInv'
      BY <1>7 DEF TryPurge, FlushInv
    <2> QED
      BY <2>5, <2>6, <2>7, <2>8, <2>9, <2>10
  <1>8. ASSUME NEW t \in Threads, ForcePurge(t) PROVE IInv'
    <2>5. TypeOK'
      BY <1>8, <1>s DEF TypeOK, ForcePurge
    <2>6. Window'
      BY <1>8 DEF ForcePurge, Window
    <2>7. LogInv'
      BY <1>8 DEF ForcePurge, LogInv
    <2>8. CountInv'
      BY <1>8 DEF ForcePurge, CountInv
    <2>9. PurgeInv'
      BY <1>8 DEF ForcePurge, PurgeInv, Purging
    <2>10. FlushInv'
      BY <1>8 DEF ForcePurge, FlushInv
    <2> QED
      BY <2>5, <2>6, <2>7, <2>8, <2>9, <2>10
  <1>9. ASSUME NEW t \in Threads, Peek(t) PROVE IInv'
    <2>1. queue # <<>> => Head(queue) = Popped + 1 /\ Head(queue) \in Nat
      BY EmptySeq, LenProperties DEF Window
    <2>5. TypeOK'
      BY <1>9, <2>1, <1>s DEF TypeOK, Peek
    <2>6. Window'
      BY <1>9, <2>1 DEF Peek, Window
    <2>7. LogInv'
      BY <1>9, <2>1 DEF Peek, LogInv
    <2>8. CountInv'
      BY <1>9, <2>1 DEF Peek, CountInv
    <2>9. PurgeInv'
      BY <1>9, <2>1 DEF Peek, PurgeInv, Purging
    <2>10. FlushInv'
      BY <1>9, <2>1 DEF Peek, FlushInv
    <2> QED
      BY <2>5, <2>6, <2>7, <2>8, <2>9, <2>10
  <1>10. ASSUME NEW t \in Threads, Consume(t) PROVE IInv'
    <2>1. CASE tickets[cur[t]].published
      <3>1. /\ pc' = [u \in Threads |-> "panic"]
            /\ UNCHANGED <<queue, ticketCount, tickets, qMu, purgeMu, cur, log>>
        BY <1>10, <2>1 DEF Consume
      <3>2. TypeOK'
        BY <1>s, <3>1 DEF TypeOK
      <3>3. Window' /\ LogInv'
        BY <3>1 DEF Window, LogInv
      <3>4. CountInv'
        BY <1>10, <3>1 DEF CountInv, Consume
      <3>5. PurgeInv'
        BY <3>1 DEF PurgeInv, Purging
      <3>6. FlushInv'
        BY <3>1 DEF FlushInv
      <3> QED
        BY <3>2, <3>3, <3>4, <3>5, <3>6
    <2>2. CASE ~tickets[cur[t]].published
      <3> DEFINE e == [tickets[cur[t]] EXCEPT !.published = TRUE]
      <3>1. /\ cur[t] = Popped + 1
            /\ cur[t] \in 1..Len(tickets)
            /\ CanPublish(tickets[cur[t]])
            /\ Len(log) = Popped
        <4>1. Len(queue) \in Nat \ {0}
          BY <1>10, EmptySeq DEF Consume, PurgeInv
        <4> QED
          BY <1>10, <2>2, <4>1, LenProperties DEF Consume, PurgeInv, LogInv, Window
      <3>2. /\ e \in Ticket
            /\ e.published
            /\ CanPublish(e)
        <4>1. tickets[cur[t]] \in Ticket
          BY <1>q, <3>1, ElementOfSeq
        <4> QED
          BY <3>1, <4>1 DEF Ticket, CanPublish
      <3>3. /\ tickets' \in Seq(Ticket)
            /\ Len(tickets') = Len(tickets)
            /\ \A j \in 1..Len(tickets) : tickets'[j] = IF j = cur[t] THEN e ELSE tickets[j]
        <4>1. tickets' = [tickets EXCEPT ![cur[t]] = e]
          BY <1>10, <2>2 DEF Consume
        <4> HIDE DEF e
        <4> QED
          BY <1>q, <3>1, <3>2, <4>1, UpdateTicket
      <3>4. /\ log' \in Seq(Nat \ {0})
            /\ Len(log') = Len(log) + 1
            /\ \A i \in 1..Len(log) : log'[i] = log[i]
            /\ log'[Len(log) + 1] = cur[t]
        <4>1. log' = Append(log, cur[t])
          BY <1>10, <2>2 DEF Consume
        <4>2. cur[t] \in Nat \ {0}
          BY <3>1
        <4> QED
          BY <1>q, <4>1, <4>2, AppendTicket
      <3>5. TypeOK'
        BY <1>10, <2>2, <3>3, <3>4, <1>s DEF TypeOK, Consume
      <3>6. Window'
        BY <1>10, <3>3 DEF Consume, Window
      <3>7. LogInv'
        <4> HIDE DEF e
        <4>0. Len(log') = Len(log) + 1 /\ cur[t] = Len(log) + 1 /\ cur[t] <= Len(tickets)
          BY <3>1, <3>4
        <4>1. Popped' = Popped
          BY <1>10, <3>3 DEF Consume
        <4>2. ASSUME NEW i \in 1..Len(log') PROVE log'[i] = i
          <5>1. CASE i \in 1..Len(log)
            BY <3>4, <5>1 DEF LogInv
          <5>2. CASE i = Len(log) + 1
            BY <3>1, <3>4, <5>2
          <5> QED
            BY <3>4, <5>1, <5>2
        <4>3. ASSUME NEW i \in 1..Len(tickets')
              PROVE  tickets'[i].published <=> i <= Len(log')
          <5>1. CASE i = cur[t]
            <6>1. tickets'[i].published
              BY <3>1, <3>2, <3>3, <5>1
            <6>2. i <= Len(log')
              BY <4>0, <5>1
            <6> QED
              BY <6>1, <6>2
          <5>2. CASE i # cur[t]
            <6>1. tickets'[i].published <=> tickets[i].published
              BY <3>3, <5>2
            <6>2. tickets[i].published <=> i <= Len(log)
              BY <3>3 DEF LogInv
            <6>3. i <= Len(log) <=> i <= Len(log')
              BY <4>0, <5>2, <3>3
            <6> QED
              BY <6>1, <6>2, <6>3
          <5> QED
            BY <5>1, <5>2
        <4>4. \A i \in 1..Len(log') : CanPublish(tickets'[i])
          <5>1. ASSUME NEW i \in 1..Len(log) PROVE CanPublish(tickets'[i])
            <6>1. i \in 1..Len(tickets) /\ i # cur[t]
              BY <4>0, <3>1
            <6>2. CanPublish(tickets[i])
              BY DEF LogInv
            <6> QED
              BY <3>3, <6>1, <6>2
          <5>2. CanPublish(tickets'[Len(log) + 1])
            BY <3>1, <3>2, <3>3, <4>0
          <5> QED
            BY <3>4, <5>1, <5>2
        <4>5. Len(log') \in {Popped', Popped' + 1} /\ Len(log') <= Len(tickets')
          BY <3>1, <3>3, <4>0, <4>1
        <4> QED
          BY <4>2, <4>3, <4>4, <4>5 DEF LogInv
      <3>8. CountInv'
        BY <1>10, <2>2 DEF Consume, CountInv
      <3>9. PurgeInv'
        BY <1>10, <2>2, <3>1, <3>2, <3>3, <3>4 DEF Consume, PurgeInv, Purging
      <3>10. FlushInv'
        BY <1>10, <2>2, <3>1, <3>2, <3>3, SMTT(30) DEF Consume, FlushInv
      <3> QED
        BY <3>5, <3>6, <3>7, <3>8, <3>9, <3>10
    <2> QED
      BY <2>1, <2>2
  <1>11. ASSUME NEW t \in Threads, PopHead(t) PROVE IInv'
    <2>1. queue # <<>> /\ Head(queue) = cur[t]
      <3>1. queue # <<>> /\ cur[t] = Popped + 1
        BY <1>11 DEF PopHead, PurgeInv
      <3> QED
        BY <3>1, EmptySeq, LenProperties DEF Window
    <2>2. /\ Tail(queue) \in Seq(Nat \ {0})
          /\ Len(Tail(queue)) = Len(queue) - 1
          /\ \A i \in 1..Len(Tail(queue)) : Tail(queue)[i] = queue[i + 1]
      BY <1>q, <2>1, HeadTailProperties
    <2>3. queue' = Tail(queue) /\ qMu' = t /\ pc' = [pc EXCEPT ![t] = "dec"]
      BY <1>11, <2>1 DEF PopHead
    <2>4. TypeOK'
      BY <1>11, <2>2, <2>3, <1>s DEF TypeOK, PopHead
    <2>5. Window'
      BY <1>11, <2>1, <2>2, <2>3, LenProperties DEF PopHead, Window
    <2>6. LogInv'
      <3>1. log' = log /\ tickets' = tickets /\ Len(log) = Popped + 1
        BY <1>11 DEF PopHead, PurgeInv
      <3>2. Popped' = Popped + 1
        BY <2>2, <2>3, <3>1
      <3> QED
        BY <3>1, <3>2 DEF LogInv
    <2>7. CountInv'
      BY <1>11, <2>2, <2>3, LenProperties DEF PopHead, CountInv
    <2>8. PurgeInv'
      BY <1>11, <2>3 DEF PopHead, PurgeInv, Purging
    <2>9. FlushInv'
      BY <1>11, <2>3 DEF PopHead, FlushInv
    <2> QED
      BY <2>4, <2>5, <2>6, <2>7, <2>8, <2>9
  <1>12. ASSUME NEW t \in Threads, PopDec(t) PROVE IInv'
    <2>1. ticketCount' \in Nat
      BY <1>12, LenProperties DEF PopDec, CountInv
    <2>5. TypeOK'
      BY <1>12, <2>1, <1>s DEF TypeOK, PopDec
    <2>6. Window'
      BY <1>12, <2>1 DEF PopDec, Window
    <2>7. LogInv'
      BY <1>12, <2>1 DEF PopDec, LogInv
    <2>8. CountInv'
      BY <1>12, <2>1 DEF PopDec, CountInv
    <2>9. PurgeInv'
      BY <1>12, <2>1 DEF PopDec, PurgeInv, Purging
    <2>10. FlushInv'
      BY <1>12, <2>1 DEF PopDec, FlushInv
    <2> QED
      BY <2>5, <2>6, <2>7, <2>8, <2>9, <2>10
  <1>13. ASSUME NEW t \in Threads, PurgeUnlock(t) PROVE IInv'
    <2>5. TypeOK'
      BY <1>13, <1>s DEF TypeOK, PurgeUnlock
    <2>6. Window'
      BY <1>13 DEF PurgeUnlock, Window
    <2>7. LogInv'
      BY <1>13 DEF PurgeUnlock, LogInv
    <2>8. CountInv'
      BY <1>13 DEF PurgeUnlock, CountInv
    <2>9. PurgeInv'
      BY <1>13 DEF PurgeUnlock, PurgeInv, Purging
    <2>10. FlushInv'
      BY <1>13 DEF PurgeUnlock, FlushInv
    <2> QED
      BY <2>5, <2>6, <2>7, <2>8, <2>9, <2>10
  <1>14. CASE UNCHANGED vars
    <2>1. TypeOK'
      BY <1>14 DEF vars, TypeOK
    <2>2. Window' /\ LogInv'
      BY <1>14 DEF vars, Window, LogInv
    <2>3. CountInv' /\ PurgeInv' /\ FlushInv'
      BY <1>14 DEF vars, CountInv, PurgeInv, FlushInv, Purging
    <2> QED
      BY <2>1, <2>2, <2>3
  <1> QED
    BY <1>1, <1>2, <1>3, <1>5, <1>6, <1>7, <1>8, <1>9, <1>10, <1>11, <1>12, <1>13, <1>14
       DEF Next, Flush, Purge

(* The strengthened invariant holds in every reachable state: the queue is *)
(* a window on the tickets issued, of which at most the head is published. *)
THEOREM IInvariant == Spec => []IInv
  BY InitIInv, NextIInv, PTL DEF Spec

(* The values of the queue, the ticket table and the locks keep their      *)
(* types, ticketCount not going below zero included.                       *)
THEOREM TypeCorrect == Spec => []TypeOK
  BY IInvariant, PTL DEF IInv

(* HasTickets never misses a queued ticket, for any number of goroutines.  *)
THEOREM CountCovers == Spec => []CountCoversQueue
  <1>1. IInv => CountCoversQueue
    BY LenProperties DEF IInv, TypeOK, CountInv, CountCoversQueue
  <1> QED
    BY <1>1, IInvariant, PTL

(* Segments and frozen deletes are published in the order of the tickets   *)
(* and after their flush has ended, also when publishing returns an error. *)
THEOREM InOrder == Spec => []PublishedInOrder
  <1>1. IInv => PublishedInOrder
    BY LenProperties DEF IInv, TypeOK, LogInv, PublishedInOrder
  <1> QED
    BY <1>1, IInvariant, PTL

-----------------------------------------------------------------------------
(* When publishing does not fail.                                          *)

\* Unless a goroutine is between publishing the head and popping it, the head has
\* not been published.
OnceInv ==
    ~PublishMayFail =>
        /\ NoDoublePublish
        /\ (\A t \in Threads : pc[t] # "pop") => Len(log) = Popped

\* The actions other than Consume and PopHead publish nothing, pop nothing, and leave
\* no goroutine in "pop" or "panic" that was not there.
LEMMA QuietOnce ==
    ASSUME IInv, OnceInv,
           Len(log') = Len(log), Popped' = Popped,
           \A t \in Threads : pc'[t] \in {"pop", "panic"} <=> pc[t] \in {"pop", "panic"},
           \A t \in Threads : pc'[t] = "pop" <=> pc[t] = "pop"
    PROVE  OnceInv'
  BY DEF OnceInv, NoDoublePublish

\* OnceInv is inductive relative to IInv.
LEMMA NextOnce == IInv /\ OnceInv /\ [Next]_vars => OnceInv'
  <1> SUFFICES ASSUME IInv, OnceInv, [Next]_vars, ~PublishMayFail PROVE OnceInv'
    BY DEF OnceInv
  <1>q. /\ queue \in Seq(Nat \ {0}) /\ tickets \in Seq(Ticket)
        /\ Len(queue) \in Nat /\ Len(tickets) \in Nat /\ Len(log) \in Nat
        /\ pc \in [Threads -> States]
    BY LenProperties DEF IInv, TypeOK
  <1>1. ASSUME NEW t \in Threads, AddTicketInc(t) PROVE OnceInv'
    BY <1>1, <1>q, QuietOnce DEF AddTicketInc, Popped
  <1>2. ASSUME NEW t \in Threads, AddTicketAppend(t) PROVE OnceInv'
    <2> DEFINE e == NewFlushTicket(pc[t] = "supplySegment")
    <2>1. e \in Ticket
      BY DEF NewFlushTicket, Ticket
    <2>2. Len(tickets') = Len(tickets) + 1
      BY <1>2, <1>q, <2>1, AppendTicket DEF AddTicketAppend
    <2>3. Len(tickets) + 1 \in Nat \ {0}
      BY <1>q
    <2>4. Len(queue') = Len(queue) + 1
      BY <1>2, <1>q, <2>3, AppendTicket DEF AddTicketAppend
    <2>5. Len(log') = Len(log) /\ Popped' = Popped
      BY <1>2, <1>q, <2>2, <2>4 DEF AddTicketAppend, Popped
    <2> QED
      BY <1>2, <1>q, <2>5, QuietOnce DEF AddTicketAppend
  <1>3. ASSUME NEW t \in Threads, AddTicketNil(t) PROVE OnceInv'
    BY <1>3, <1>q, QuietOnce DEF AddTicketNil, Popped
  <1>4. ASSUME NEW t \in Threads, AddSegment(t) PROVE OnceInv'
    <2>1. Len(tickets') = Len(tickets)
      BY <1>4, <1>q, ExceptSeq DEF AddSegment, IInv, FlushInv
    <2> QED
      BY <1>4, <1>q, <2>1, QuietOnce DEF AddSegment, Popped
  <1>5. ASSUME NEW t \in Threads, MarkTicketFailed(t) PROVE OnceInv'
    <2>1. Len(tickets') = Len(tickets)
      BY <1>5, <1>q, ExceptSeq DEF MarkTicketFailed, IInv, FlushInv
    <2> QED
      BY <1>5, <1>q, <2>1, QuietOnce DEF MarkTicketFailed, Popped
  <1>6. ASSUME NEW t \in Threads, TryPurge(t) PROVE OnceInv'
    BY <1>6, <1>q, QuietOnce DEF TryPurge, Popped
  <1>7. ASSUME NEW t \in Threads, ForcePurge(t) PROVE OnceInv'
    BY <1>7, <1>q, QuietOnce DEF ForcePurge, Popped
  <1>8. ASSUME NEW t \in Threads, Peek(t) PROVE OnceInv'
    BY <1>8, <1>q, QuietOnce DEF Peek, Popped
  \* The only goroutine in innerPurge is t: the head it peeked is not in the log.
  <1>9. ASSUME NEW t \in Threads, Consume(t) PROVE OnceInv'
    <2>1. pc[t] = "consume" /\ purgeMu = t
      BY <1>9 DEF Consume, IInv, PurgeInv, Purging
    <2>2. ASSUME NEW u \in Threads PROVE pc[u] # "pop"
      BY <2>1 DEF IInv, PurgeInv, Purging
    <2>3. Len(log) = Popped
      BY <2>2 DEF OnceInv
    <2>4. queue # <<>> /\ cur[t] = Popped + 1
      BY <2>1 DEF IInv, PurgeInv
    <2>5. Len(queue) > 0
      BY <1>q, <2>4, EmptySeq
    <2>6. cur[t] \in 1..Len(tickets)
      BY <1>q, <2>4, <2>5 DEF IInv, Window, Popped
    <2>7. ~tickets[cur[t]].published
      <3>1. ~(cur[t] <= Len(log))
        BY <1>q, <2>3, <2>4 DEF Popped
      <3>2. \A i \in 1..Len(tickets) : tickets[i].published <=> i <= Len(log)
        BY DEF IInv, LogInv
      <3> QED
        BY <2>6, <3>1, <3>2, Zenon
    <2>8. pc' = [pc EXCEPT ![t] = "pop"]
      BY <1>9, <2>7 DEF Consume
    <2> QED
      BY <1>q, <2>8 DEF OnceInv, NoDoublePublish
  <1>10. ASSUME NEW t \in Threads, PopHead(t) PROVE OnceInv'
    <2>1. pc[t] = "pop" /\ queue # <<>> /\ cur[t] = Popped + 1 /\ Len(log) = Popped + 1
      BY <1>10 DEF PopHead, IInv, PurgeInv
    <2>2. Head(queue) = cur[t]
      BY <1>q, <2>1, EmptySeq DEF IInv, Window
    <2>3. Len(queue') = Len(queue) - 1
      BY <1>10, <1>q, <2>1, <2>2, HeadTailProperties DEF PopHead
    <2>4. Len(log') = Len(log) /\ Len(tickets') = Len(tickets)
      BY <1>10 DEF PopHead
    <2>5. Len(log') = Popped'
      BY <1>q, <2>1, <2>3, <2>4 DEF Popped
    <2>6. pc' = [pc EXCEPT ![t] = "dec"]
      BY <1>10, <2>1, <2>2 DEF PopHead
    <2> QED
      BY <1>q, <2>5, <2>6 DEF OnceInv, NoDoublePublish
  <1>11. ASSUME NEW t \in Threads, PopDec(t) PROVE OnceInv'
    BY <1>11, <1>q, QuietOnce DEF PopDec, Popped
  <1>12. ASSUME NEW t \in Threads, PurgeUnlock(t) PROVE OnceInv'
    BY <1>12, <1>q, QuietOnce DEF PurgeUnlock, Popped
  <1>13. CASE UNCHANGED vars
    BY <1>13, QuietOnce DEF vars, Popped
  <1> QED
    BY <1>1, <1>2, <1>3, <1>4, <1>5, <1>6, <1>7, <1>8, <1>9, <1>10, <1>11, <1>12, <1>13
       DEF Next, Flush, Purge

(* While publishing a ticket returns no error, the panic of MarkPublished  *)
(* is not reached, however many goroutines purge.                          *)
THEOREM OnceEach == Spec => [](~PublishMayFail => NoDoublePublish)
  <1>1. Init => OnceInv
    BY DEF Init, OnceInv, NoDoublePublish, Popped
  <1>2. OnceInv => (~PublishMayFail => NoDoublePublish)
    BY DEF OnceInv
  <1> QED
    BY <1>1, <1>2, NextOnce, IInvariant, PTL DEF Spec

-----------------------------------------------------------------------------
(* Refinement.                                                             *)

\* The refinement mapping of ended.
Ended == {i \in 1..Len(tickets) : CanPublish(tickets[i])}

\* Every step is an Issue, an EndFlush or a Publish of TicketOrder, or changes nothing
\* of what TicketOrder sees.
LEMMA StepRefines == IInv /\ IInv' /\ [Next]_vars => [Order!Next]_(Order!vars)
  <1> SUFFICES ASSUME IInv, IInv', [Next]_vars PROVE [Order!Next]_(Order!vars)
    OBVIOUS
  <1>q. /\ tickets \in Seq(Ticket) /\ log \in Seq(Nat \ {0})
        /\ Len(tickets) \in Nat /\ Len(log) \in Nat
        /\ \A i \in 1..Len(tickets) : tickets[i] \in Ticket
    BY LenProperties, ElementOfSeq DEF IInv, TypeOK
  <1>1. ASSUME UNCHANGED <<tickets, log>> PROVE UNCHANGED Order!vars
    BY <1>1 DEF Order!vars
  <1>2. ASSUME NEW t \in Threads, AddTicketAppend(t) PROVE Order!Next
    <2> DEFINE e == NewFlushTicket(pc[t] = "supplySegment")
    <2>1. e \in Ticket
      BY DEF NewFlushTicket, Ticket
    <2>2. tickets' = Append(tickets, e) /\ log' = log
      BY <1>2 DEF AddTicketAppend
    <2> HIDE DEF e
    <2>3. /\ Len(tickets') = Len(tickets) + 1
          /\ \A i \in 1..Len(tickets) : tickets'[i] = tickets[i]
      BY <1>q, <2>1, <2>2, AppendTicket
    <2>4. Ended' \in {Ended, Ended \cup {Len(tickets) + 1}}
      <3>1. CASE CanPublish(tickets'[Len(tickets) + 1])
        <4>1. Ended' = Ended \cup {Len(tickets) + 1}
          BY <1>q, <2>3, <3>1 DEF Ended
        <4> QED
          BY <4>1
      <3>2. CASE ~CanPublish(tickets'[Len(tickets) + 1])
        <4>1. Ended' = Ended
          BY <1>q, <2>3, <3>2 DEF Ended
        <4> QED
          BY <4>1
      <3> QED
        BY <3>1, <3>2
    <2>5. Order!Issue
      BY <2>2, <2>3, <2>4 DEF Order!Issue, Ended
    <2> QED
      BY <2>5 DEF Order!Next
  <1>3. ASSUME NEW t \in Threads, pc[t] = "flush", NEW e \in Ticket, CanPublish(e),
               tickets' = [tickets EXCEPT ![cur[t]] = e], log' = log
        PROVE  Order!Next
    <2>1. cur[t] \in 1..Len(tickets) /\ ~CanPublish(tickets[cur[t]])
      BY <1>3 DEF IInv, FlushInv
    <2>2. /\ Len(tickets') = Len(tickets)
          /\ \A j \in 1..Len(tickets) : tickets'[j] = IF j = cur[t] THEN e ELSE tickets[j]
      BY <1>3, <1>q, <2>1, UpdateTicket
    <2>3. cur[t] \in (1..Len(tickets)) \ Ended
      BY <2>1 DEF Ended
    <2>4. Ended' = Ended \cup {cur[t]}
      BY <1>3, <2>1, <2>2 DEF Ended
    <2>5. Order!EndFlush
      BY <1>3, <2>2, <2>3, <2>4 DEF Order!EndFlush, Ended
    <2> QED
      BY <2>5 DEF Order!Next
  <1>4. ASSUME NEW t \in Threads, AddSegment(t) PROVE Order!Next
    <2> DEFINE e == [tickets[cur[t]] EXCEPT !.segment = TRUE]
    <2>1. tickets[cur[t]] \in Ticket
      BY <1>4, <1>q DEF IInv, FlushInv, AddSegment
    <2>2. e \in Ticket /\ CanPublish(e)
      BY <2>1 DEF Ticket, CanPublish
    <2> QED
      BY <1>3, <1>4, <2>2 DEF AddSegment
  <1>5. ASSUME NEW t \in Threads, MarkTicketFailed(t) PROVE Order!Next
    <2> DEFINE e == [tickets[cur[t]] EXCEPT !.failed = TRUE]
    <2>1. tickets[cur[t]] \in Ticket
      BY <1>5, <1>q DEF IInv, FlushInv, MarkTicketFailed
    <2>2. e \in Ticket /\ CanPublish(e)
      BY <2>1 DEF Ticket, CanPublish
    <2> QED
      BY <1>3, <1>5, <2>2 DEF MarkTicketFailed
  <1>6. ASSUME NEW t \in Threads, Consume(t), ~tickets[cur[t]].published PROVE Order!Next
    <2> DEFINE e == [tickets[cur[t]] EXCEPT !.published = TRUE]
    <2>1. /\ cur[t] = Popped + 1
          /\ CanPublish(tickets[cur[t]])
          /\ cur[t] \in 1..Len(tickets)
      <3>1. Len(queue) \in Nat \ {0}
        BY <1>6, EmptySeq, LenProperties DEF IInv, TypeOK, Consume, PurgeInv
      <3> QED
        BY <1>6, <1>q, <3>1 DEF IInv, Consume, PurgeInv, Window, Popped
    <2>2. cur[t] = Len(log) + 1
      BY <1>6, <1>q, <2>1 DEF IInv, LogInv
    <2>3. e \in Ticket /\ CanPublish(e)
      <3>1. tickets[cur[t]] \in Ticket
        BY <1>q, <2>1
      <3> QED
        BY <2>1, <3>1 DEF Ticket, CanPublish
    <2>4. tickets' = [tickets EXCEPT ![cur[t]] = e] /\ log' = Append(log, cur[t])
      BY <1>6 DEF Consume
    <2> HIDE DEF e
    <2>5. /\ Len(tickets') = Len(tickets)
          /\ \A j \in 1..Len(tickets) : tickets'[j] = IF j = cur[t] THEN e ELSE tickets[j]
      BY <1>q, <2>1, <2>3, <2>4, UpdateTicket
    <2>6. Ended' = Ended
      BY <2>1, <2>3, <2>5 DEF Ended
    <2>7. cur[t] \in Ended
      BY <2>1 DEF Ended
    <2>8. Order!Publish
      BY <2>2, <2>4, <2>5, <2>6, <2>7 DEF Order!Publish, Ended
    <2> QED
      BY <2>8 DEF Order!Next
  <1>7. ASSUME NEW t \in Threads, Consume(t), tickets[cur[t]].published
        PROVE  UNCHANGED <<tickets, log>>
    BY <1>7 DEF Consume
  <1>8. ASSUME NEW t \in Threads,
               \/ AddTicketInc(t) \/ AddTicketNil(t) \/ TryPurge(t) \/ ForcePurge(t)
               \/ Peek(t) \/ PopHead(t) \/ PopDec(t) \/ PurgeUnlock(t)
        PROVE  UNCHANGED <<tickets, log>>
    BY <1>8 DEF AddTicketInc, AddTicketNil, TryPurge, ForcePurge, Peek, PopHead, PopDec,
                PurgeUnlock
  <1>9. CASE UNCHANGED vars
    BY <1>1, <1>9 DEF vars
  <1> QED
    BY <1>1, <1>2, <1>4, <1>5, <1>6, <1>7, <1>8, <1>9 DEF Next, Flush, Purge

(* Every behaviour of the ticket queue is a behaviour of TicketOrder.      *)
THEOREM Refinement == Spec => ImplementsTicketOrder
  <1>1. Init => Order!Init
    <2>1. SUFFICES ASSUME Init PROVE Order!Init
      OBVIOUS
    <2>2. Len(tickets) = 0 /\ log = <<>>
      BY <2>1, EmptySeq DEF Init
    <2> QED
      BY <2>2 DEF Order!Init
  <1> QED
    BY <1>1, StepRefines, IInvariant, PTL DEF Spec, ImplementsTicketOrder, Order!Spec

=============================================================================
