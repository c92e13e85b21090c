-------------------------- MODULE ApplyUpdatesProofs --------------------------
(***************************************************************************)
(* Proofs about the application of packets of deletes, for any number of   *)
(* goroutines, tickets, flushes, imports and places in the event queue.    *)
(***************************************************************************)
EXTENDS ApplyUpdates, FiniteSetTheorems, SequenceTheorems, TLAPS

-----------------------------------------------------------------------------
(* The steps a goroutine still has to take.                                *)

AllSteps ==
  {"fullFlush", "flushAll", "forcePurge", "events", "endFull", "waitAll", "tryPurge", "maybeEvents",
   "addEvent", "return", "import", "publish", "push", "pushPrivate", "nextGen", "pop", "addSegment",
   "tryEvent", "tryWait", "force", "forceLate", "collect", "apply", "applyEvent"}

\* Steps that are about a packet, that hand out a generation, and that can end
\* an operation.
PacketSteps == {"tryEvent", "tryWait", "force", "collect", "apply", "applyEvent"}
GenSteps == {"push", "pushPrivate", "nextGen"}
EndSteps == {"events", "maybeEvents", "return", "import"}

\* A step with its argument: a packet of P, a packet or 0 for a purge, a segment.
StepOf(a, P) ==
  /\ a \in AllSteps \X Int
  /\ a[1] \in PacketSteps => a[2] \in P
  /\ a[1] = "addEvent" => a[2] \in P \cup {0}
  /\ a[1] = "addSegment" => a[2] \in Gens

\* Step b can stand behind step a.
Follows(a, b) ==
  /\ a[1] = "fullFlush" => b[1] = "flushAll"
  /\ a[1] = "flushAll" => b[1] = "forcePurge"
  /\ a[1] = "forcePurge" => b[1] = "events"
  /\ a[1] = "events" => b[1] = "endFull"
  /\ a[1] = "endFull" => b[1] = "waitAll"
  /\ a[1] = "waitAll" => b[1] \in {"return", "import"}
  /\ a[1] = "tryPurge" => b[1] = "maybeEvents"
  /\ a[1] \in {"publish", "pop"} => b[1] \in {"events", "maybeEvents"}
  /\ a[1] = "push" => b[1] \in {"pushPrivate", "nextGen", "pop"}
  /\ a[1] \in {"pushPrivate", "nextGen", "addSegment"} => b[1] = "pop"
  /\ a[1] = "addEvent" => IF a[2] = 0 THEN b[1] = "maybeEvents"
                          ELSE b[1] \in {"pushPrivate", "nextGen", "addSegment", "pop"}
  /\ a[1] \in {"tryEvent", "applyEvent"} => b[1] = "events"
  /\ a[1] = "tryWait" => b[1] \in {"tryWait", "forceLate"}
  /\ a[1] = "forceLate" => b[1] \in {"return", "import"}
  /\ a[1] = "force" => b[1] \in {"force", "return", "import"}
  /\ a[1] = "collect" => b[1] \in {"apply", "applyEvent"} /\ b[2] = a[2]
  /\ a[1] = "apply" => b[1] \in {"tryWait", "force", "forceLate", "return", "import"}
  /\ a[1] \notin {"maybeEvents", "return", "import"}

\* The second loop of waitApply is still to come.
HasLate(k) == \E i \in 1 .. Len(k) : k[i][1] = "forceLate"

\* k is what is left of an operation.
Plan(k, P) ==
  /\ k \in Seq(AllSteps \X Int)
  /\ \A i \in 1 .. Len(k) : StepOf(k[i], P)
  /\ \A i \in 1 .. Len(k) - 1 : Follows(k[i], k[i + 1])
  /\ k # <<>> => k[Len(k)][1] \in EndSteps
  /\ (\E i \in 1 .. Len(k) : k[i][1] = "tryWait") => HasLate(k)

\* The step a goroutine is at, the one behind it, and the last.
NoStep == <<"end", 0>>
First(k)  == IF k = <<>> THEN NoStep ELSE Head(k)
Second(k) == IF k = <<>> THEN NoStep ELSE First(Tail(k))
Final(k)  == IF k = <<>> THEN NoStep ELSE k[Len(k)]

\* It is applying the packet; it is publishing, with a ticket in hand; it is
\* in waitApply or past it.
Holds(k, g) == First(k)[1] \in {"collect", "apply", "applyEvent"} /\ First(k)[2] = g
Busy(k) ==
  \/ First(k)[1] \in GenSteps \cup {"addSegment", "pop"}
  \/ First(k)[1] = "addEvent" /\ First(k)[2] # 0
Purging(k) == First(k)[1] = "publish" \/ Busy(k)
InWait(k) ==
  \/ First(k)[1] \in {"tryWait", "force", "forceLate", "apply", "return", "import"}
  \/ First(k)[1] = "collect" /\ Second(k)[1] = "apply"

\* The generations the ticket in hand will still be given.
One(a)  == IF a[1] \in GenSteps THEN 1 ELSE 0
Owed(k) == One(First(k)) + One(Second(k))

\* waitApply is going to visit the packet.
Visits(k, g) == \E i \in 1 .. Len(k) : k[i][1] \in {"tryWait", "force"} /\ k[i][2] = g

-----------------------------------------------------------------------------
(* The inductive invariant.                                                *)

\* A goroutine in waitApply has resolved the packets it found against the
\* segments it found, or is going to.
ToCome(p, g) ==
  \/ Visits(pc[p], g)
  \/ HasLate(pc[p]) /\ \E i \in 1 .. Len(late[p]) : late[p][i] = g
  \/ First(pc[p]) = <<"collect", g>>
  \/ First(pc[p]) = <<"apply", g>> /\ \A s \in due[p].segs : s \in view[p] \/ <<g, s>> \in missed
Resolving(p) ==
  \A g \in due[p].packets, s \in due[p].segs :
    DelGen(s) <= g => s \in hits[g] \/ <<g, s>> \in missed \/ ToCome(p, g)

\* What a goroutine has in hand: the lock of the packet it applies, purgeMu
\* while it publishes, and packets and segments that exist.
Local(p) ==
  /\ Plan(pc[p], pushed)
  /\ \A g \in Gens : owner[g] = p <=> Holds(pc[p], g)
  /\ lock["purgeMu"] = p <=> Purging(pc[p])
  /\ view[p] \subseteq segs /\ due[p].segs \subseteq segs /\ due[p].packets \subseteq pushed
  /\ late[p] \in Seq(pushed)
  /\ InWait(pc[p]) => Resolving(p)

\* The state, apart from what goroutines are doing.
Shared ==
  /\ nextGen \in Nat \ {0} /\ made \in 0 .. MaxTickets /\ flushes \in 0 .. MaxFlushes
  /\ updates = pushed /\ private \subseteq pushed
  /\ \A g \in pushed : g \in Gens
  /\ segs \subseteq Gens \cup {-i : i \in 1 .. MaxFlushes}
  /\ hits \in [Gens -> SUBSET segs]
  /\ queue \in Seq(pushed \cup {0})
  /\ owner \in [Gens -> Procs \cup {None}]
  /\ lock \in [Locks -> Procs \cup {None}]
  /\ tickets \in Seq(Shapes \cup {{"global"}})
  /\ born \in Seq(Int)
  /\ DOMAIN pc = Procs /\ DOMAIN view = Procs /\ DOMAIN late = Procs /\ DOMAIN due = Procs

\* A ticket is given at most two generations: those handed out, those the
\* ticket in hand is still to be given, and two for each ticket waiting.
Budget ==
  /\ (\A p \in Procs : ~Busy(pc[p])) => nextGen - 1 + 2 * Len(tickets) <= 2 * made
  /\ \A p \in Procs : Busy(pc[p]) =>
       tickets # <<>> /\ nextGen - 1 + Owed(pc[p]) + 2 * (Len(tickets) - 1) <= 2 * made

\* Every import belongs to a flush that was counted.
Importing == {p \in Procs : Final(pc[p])[1] = "import"}
Imports == IsFiniteSet(Importing) /\ Len(born) + Cardinality(Importing) <= flushes

ApplyInv == Shared /\ (\A p \in Procs : Local(p)) /\ Budget /\ Imports

-----------------------------------------------------------------------------
(* Sequences of steps.                                                     *)

\* A sequence without elements.
LEMMA NoElements ==
  ASSUME NEW A, NEW s \in Seq(A)
  PROVE  Len(s) \in Nat /\ (s = <<>> <=> Len(s) = 0)
  OBVIOUS

\* A sequence after its first element.
LEMMA TailOf ==
  ASSUME NEW A, NEW k \in Seq(A), k # <<>>
  PROVE  /\ Tail(k) \in Seq(A) /\ Len(Tail(k)) = Len(k) - 1 /\ Len(k) \in Nat \ {0}
         /\ \A i \in 1 .. Len(k) - 1 : Tail(k)[i] = k[i + 1]
         /\ Head(k) = k[1] /\ k[1] \in A
         /\ Len(k) = 1 => Tail(k) = <<>>
         /\ Len(k) > 1 => Tail(k) # <<>> /\ Head(Tail(k)) = k[2]
<1> DEFINE t == Tail(k)
<1>1. t \in Seq(A) /\ Len(t) = Len(k) - 1 /\ \A i \in 1 .. Len(k) - 1 : t[i] = k[i + 1]
  OBVIOUS
<1>2. Len(k) \in Nat \ {0} /\ Head(k) = k[1] /\ k[1] \in A
  OBVIOUS
<1> HIDE DEF t
<1>3. Len(k) = 1 => t = <<>>
  BY <1>1, NoElements
<1>4. Len(k) > 1 => t # <<>>
  BY <1>1, NoElements
<1>5. Len(k) > 1 => Head(t) = k[2]
  BY <1>1, <1>2, <1>4
<1> QED BY <1>1, <1>2, <1>3, <1>4, <1>5 DEF t

\* A sequence with an element in front.
Before(a, k) == <<a>> \o k
Fronted(c, s, k, A) ==
  /\ c \in Seq(A) /\ Len(c) = Len(k) + 1 /\ c # <<>>
  /\ c[1] = s /\ \A i \in 2 .. Len(k) + 1 : c[i] = k[i - 1]
  /\ Head(c) = s /\ Tail(c) = k

\* What such a sequence is, element by element.
LEMMA ConsOf ==
  ASSUME NEW A, NEW k \in Seq(A), NEW s \in A, NEW c, c = Before(s, k)
  PROVE  Fronted(c, s, k, A)
<1>1. <<s>> \o k \in Seq(A)
  <2>1. \A t \in Seq(A) : t \o k \in Seq(A)
    OBVIOUS
  <2>2. <<s>> \in Seq(A)
    OBVIOUS
  <2> QED BY <2>1, <2>2, Zenon
<1>2. Len(<<s>> \o k) = Len(k) + 1
  OBVIOUS
<1>3. (<<s>> \o k)[1] = s
  OBVIOUS
<1>4. \A i \in 2 .. Len(k) + 1 : (<<s>> \o k)[i] = k[i - 1]
  OBVIOUS
<1>5. Tail(<<s>> \o k) = k
  OBVIOUS
<1>6. /\ c \in Seq(A) /\ Len(c) = Len(k) + 1 /\ c[1] = s /\ Tail(c) = k
      /\ \A i \in 2 .. Len(k) + 1 : c[i] = k[i - 1]
  BY <1>1, <1>2, <1>3, <1>4, <1>5, Zenon DEF Before
<1>7. c # <<>> /\ Head(c) = s
  BY <1>6, NoElements
<1> QED BY <1>6, <1>7 DEF Fronted

\* Two elements in front are one and one.
LEMMA TwoOf ==
  ASSUME NEW A, NEW k \in Seq(A), NEW a \in A, NEW b \in A
  PROVE  <<a, b>> \o k = <<a>> \o (<<b>> \o k)
<1> DEFINE c == <<b>> \o k
           l == <<a, b>> \o k
           r == <<a>> \o c
<1>1. c \in Seq(A) /\ Len(c) = Len(k) + 1 /\ c[1] = b /\ \A i \in 2 .. Len(k) + 1 : c[i] = k[i - 1]
  <2>1. c = Before(b, k)
    BY DEF Before
  <2> HIDE DEF c
  <2>2. Fronted(c, b, k, A)
    BY <2>1, ConsOf
  <2> QED BY <2>2 DEF Fronted
<1>2. r \in Seq(A) /\ Len(r) = Len(c) + 1 /\ r[1] = a /\ \A i \in 2 .. Len(c) + 1 : r[i] = c[i - 1]
  <2>1. r = Before(a, c)
    BY DEF Before
  <2> HIDE DEF c, r
  <2>2. Fronted(r, a, c, A)
    BY <1>1, <2>1, ConsOf
  <2> QED BY <2>2 DEF Fronted
<1>3. l \in Seq(A) /\ Len(l) = Len(k) + 2 /\ l[1] = a /\ l[2] = b /\ \A i \in 3 .. Len(k) + 2 : l[i] = k[i - 2]
  <2>1. <<a, b>> \in Seq(A) /\ Len(<<a, b>>) = 2
    OBVIOUS
  <2>2. l \in Seq(A) /\ Len(l) = Len(k) + 2
    BY <2>1
  <2> QED BY <2>1, <2>2
<1> HIDE DEF c, l, r
<1>4. Len(k) \in Nat
  OBVIOUS
<1>5. Len(l) = Len(r)
  BY <1>1, <1>2, <1>3, <1>4
<1>6. ASSUME NEW i \in 1 .. Len(l) PROVE l[i] = r[i]
  <2>1. CASE i = 1
    BY <1>2, <1>3, <2>1
  <2>2. CASE i = 2
    <3>1. 2 \in 2 .. Len(c) + 1 /\ 2 - 1 = 1
      BY <1>1, <1>4
    <3> QED BY <1>1, <1>2, <1>3, <2>2, <3>1
  <2>3. CASE i > 2
    <3>1. /\ i \in 3 .. Len(k) + 2 /\ i \in 2 .. Len(c) + 1 /\ i - 1 \in 2 .. Len(k) + 1 /\ (i - 1) - 1 = i - 2
      BY <1>1, <1>3, <1>4, <2>3
    <3>2. r[i] = c[i - 1] /\ c[i - 1] = k[(i - 1) - 1]
      BY <1>1, <1>2, <3>1
    <3> QED BY <1>3, <3>1, <3>2
  <2>4. i = 1 \/ i = 2 \/ i > 2
    BY <1>3, <1>4
  <2> QED BY <2>1, <2>2, <2>3, <2>4
<1>7. l = r
  <2>1. l \in Seq(A) /\ r \in Seq(A)
    BY <1>2, <1>3
  <2> QED BY <1>5, <1>6, <2>1
<1> QED BY <1>7, Zenon DEF l, r, c

\* The rest of an operation after its first step.
LEMMA PlanTail ==
  ASSUME NEW P, NEW k, Plan(k, P), k # <<>>
  PROVE  /\ Plan(Tail(k), P) /\ StepOf(Head(k), P)
         /\ First(k) = Head(k) /\ Second(k) = First(Tail(k))
         /\ Tail(k) = <<>> => Head(k)[1] \in EndSteps /\ Final(k) = Head(k)
         /\ Tail(k) # <<>> => /\ Follows(Head(k), First(Tail(k))) /\ Final(Tail(k)) = Final(k)
                              /\ StepOf(First(Tail(k)), P)
         /\ HasLate(k) /\ Head(k)[1] # "forceLate" => HasLate(Tail(k))
         /\ \A g : Visits(k, g) => \/ Visits(Tail(k), g)
                                   \/ Head(k)[1] \in {"tryWait", "force"} /\ Head(k)[2] = g
<1> DEFINE t == Tail(k)
           n == Len(k)
<1>1. /\ k \in Seq(AllSteps \X Int) /\ n \in Nat \ {0} /\ Head(k) = k[1]
      /\ t \in Seq(AllSteps \X Int) /\ Len(t) = n - 1
      /\ \A i \in 1 .. n - 1 : t[i] = k[i + 1]
  BY TailOf DEF Plan
<1>2. (n = 1 => t = <<>>) /\ (n > 1 => t # <<>> /\ Head(t) = k[2])
  BY <1>1, TailOf
<1>3. /\ \A i \in 1 .. n : StepOf(k[i], P)
      /\ \A i \in 1 .. n - 1 : Follows(k[i], k[i + 1])
      /\ k[n][1] \in EndSteps
      /\ (\E i \in 1 .. n : k[i][1] = "tryWait") => HasLate(k)
  BY DEF Plan
<1>4. First(k) = k[1] /\ Second(k) = First(t) /\ Final(k) = k[n]
  BY <1>1 DEF First, Second, Final
<1> HIDE DEF t, n
<1>5. 1 \in 1 .. n /\ n \in 1 .. n
  BY <1>1
<1>6. ASSUME n > 1 PROVE First(t) = k[2] /\ Final(t) = k[n] /\ Follows(k[1], k[2]) /\ StepOf(k[2], P)
  <2>1. t # <<>> /\ Len(t) \in 1 .. n - 1 /\ Len(t) + 1 = n /\ 1 \in 1 .. n - 1 /\ 2 \in 1 .. n /\ 1 + 1 = 2
    BY <1>1, <1>2, <1>6
  <2>2. t[Len(t)] = k[n]
    BY <1>1, <2>1
  <2> QED BY <1>2, <1>3, <1>6, <2>1, <2>2 DEF First, Final
<1>7. \A i \in 2 .. n : i - 1 \in 1 .. Len(t) /\ t[i - 1] = k[i]
  <2>1. SUFFICES ASSUME NEW i \in 2 .. n PROVE i - 1 \in 1 .. Len(t) /\ t[i - 1] = k[i]
    OBVIOUS
  <2>2. i - 1 \in 1 .. n - 1 /\ (i - 1) + 1 = i
    BY <1>1
  <2> QED BY <1>1, <2>2
<1>8. HasLate(k) /\ k[1][1] # "forceLate" => HasLate(t)
  <2>1. SUFFICES ASSUME NEW i \in 1 .. n, k[i][1] = "forceLate", k[1][1] # "forceLate" PROVE HasLate(t)
    BY DEF HasLate, n
  <2>2. i \in 2 .. n
    BY <1>1, <2>1
  <2> QED BY <1>7, <2>1, <2>2 DEF HasLate
<1>9. \A g : Visits(k, g) => Visits(t, g) \/ (k[1][1] \in {"tryWait", "force"} /\ k[1][2] = g)
  <2>1. SUFFICES ASSUME NEW g, NEW i \in 1 .. n, k[i][1] \in {"tryWait", "force"}, k[i][2] = g
                 PROVE  Visits(t, g) \/ (k[1][1] \in {"tryWait", "force"} /\ k[1][2] = g)
    BY DEF Visits, n
  <2>2. CASE i = 1
    BY <2>1, <2>2
  <2>3. CASE i # 1
    <3>1. i \in 2 .. n
      BY <1>1, <2>3
    <3> QED BY <1>7, <2>1, <3>1 DEF Visits
  <2> QED BY <2>2, <2>3
<1>10. Plan(t, P)
  <2>1. ASSUME NEW i \in 1 .. Len(t) PROVE StepOf(t[i], P)
    <3>1. i \in 1 .. n - 1 /\ i + 1 \in 1 .. n
      BY <1>1
    <3>2. t[i] = k[i + 1] /\ StepOf(k[i + 1], P)
      BY <1>1, <1>3, <3>1
    <3> QED BY <3>2
  <2>2. ASSUME NEW i \in 1 .. Len(t) - 1 PROVE Follows(t[i], t[i + 1])
    <3>1. i \in 1 .. n - 1 /\ i + 1 \in 1 .. n - 1
      BY <1>1
    <3>2. Follows(k[i + 1], k[i + 1 + 1]) /\ t[i] = k[i + 1] /\ t[i + 1] = k[i + 1 + 1]
      BY <1>1, <1>3, <3>1
    <3> QED BY <3>2
  <2>3. t # <<>> => t[Len(t)][1] \in EndSteps
    <3>1. t # <<>> => n > 1
      BY <1>1, <1>2
    <3>2. t # <<>> => Final(t) = t[Len(t)]
      BY DEF Final
    <3> QED BY <1>3, <1>6, <3>1, <3>2
  <2>4. ASSUME NEW i \in 1 .. Len(t), t[i][1] = "tryWait" PROVE HasLate(t)
    <3>1. i + 1 \in 1 .. n /\ k[i + 1][1] = "tryWait" /\ n > 1
      BY <1>1, <2>4
    <3>2. CASE k[1][1] # "forceLate"
      BY <1>3, <1>8, <3>1, <3>2
    <3>3. CASE k[1][1] = "forceLate"
      <4>1. k[2][1] \in {"return", "import"}
        BY <1>6, <3>1, <3>3 DEF Follows
      <4>2. n = 2
        <5>1. n > 2 => 2 \in 1 .. n - 1
          BY <1>1
        <5>2. n > 2 => Follows(k[2], k[2 + 1])
          BY <1>3, <5>1
        <5> QED BY <1>1, <3>1, <4>1, <5>2 DEF Follows
      <4>3. i + 1 = 2
        BY <1>1, <4>2
      <4> QED BY <3>1, <4>1, <4>3
    <3> QED BY <3>2, <3>3
  <2> QED BY <1>1, <2>1, <2>2, <2>3, <2>4 DEF Plan
<1>11. t = <<>> => n = 1
  BY <1>1, <1>2
<1>12. t # <<>> => n > 1
  BY <1>1, <1>2
<1> QED BY <1>1, <1>3, <1>4, <1>5, <1>6, <1>8, <1>9, <1>10, <1>11, <1>12 DEF t

\* A step in front of the rest of an operation.
LEMMA PlanCons ==
  ASSUME NEW P, NEW k, Plan(k, P), NEW a, StepOf(a, P),
         k = <<>> => a[1] \in EndSteps, k # <<>> => Follows(a, First(k)),
         a[1] = "tryWait" => HasLate(k), NEW c, c = Before(a, k)
  PROVE  /\ Plan(c, P) /\ c # <<>> /\ First(c) = a /\ Second(c) = First(k) /\ Tail(c) = k
         /\ (k = <<>> => Final(c) = a) /\ (k # <<>> => Final(c) = Final(k))
         /\ HasLate(k) \/ a[1] = "forceLate" => HasLate(c)
         /\ \A g : Visits(k, g) => Visits(c, g)
<1> DEFINE n == Len(k)
<1>1. k \in Seq(AllSteps \X Int) /\ a \in AllSteps \X Int
  BY DEF Plan, StepOf
<1>2. /\ c \in Seq(AllSteps \X Int) /\ Len(c) = n + 1 /\ c # <<>> /\ c[1] = a
      /\ \A i \in 2 .. n + 1 : c[i] = k[i - 1]
      /\ Head(c) = a /\ Tail(c) = k
  <2>1. ASSUME NEW A, k \in Seq(A), a \in A
        PROVE  /\ c \in Seq(A) /\ Len(c) = Len(k) + 1 /\ c # <<>> /\ c[1] = a
               /\ \A i \in 2 .. Len(k) + 1 : c[i] = k[i - 1]
               /\ Head(c) = a /\ Tail(c) = k
    <3>1. Fronted(c, a, k, A)
      BY <2>1, ConsOf
    <3> QED BY <3>1 DEF Fronted
  <2> QED BY <1>1, <2>1
<1>3. n \in Nat /\ (k = <<>> <=> n = 0) /\ (k # <<>> => Head(k) = k[1])
  BY <1>1, NoElements, TailOf
<1>4. First(c) = a /\ Second(c) = First(k)
  BY <1>2 DEF First, Second
<1>5. /\ \A i \in 1 .. n : StepOf(k[i], P)
      /\ \A i \in 1 .. n - 1 : Follows(k[i], k[i + 1])
      /\ k # <<>> => k[n][1] \in EndSteps
      /\ (\E i \in 1 .. n : k[i][1] = "tryWait") => HasLate(k)
  BY DEF Plan
<1> HIDE DEF n
<1>6. \A i \in 1 .. n : i + 1 \in 1 .. Len(c) /\ c[i + 1] = k[i]
  <2>1. SUFFICES ASSUME NEW i \in 1 .. n PROVE i + 1 \in 1 .. Len(c) /\ c[i + 1] = k[i]
    OBVIOUS
  <2>2. i + 1 \in 2 .. n + 1 /\ (i + 1) - 1 = i
    BY <1>3
  <2> QED BY <1>2, <1>3, <2>2
<1>7. HasLate(k) \/ a[1] = "forceLate" => HasLate(c)
  <2>1. HasLate(k) => HasLate(c)
    BY <1>6 DEF HasLate, n
  <2>2. 1 \in 1 .. Len(c) /\ c[1] = a
    BY <1>2, <1>3
  <2> QED BY <2>1, <2>2 DEF HasLate
<1>8. \A g : Visits(k, g) => Visits(c, g)
  BY <1>6 DEF Visits, n
<1>9. (k = <<>> => Final(c) = a) /\ (k # <<>> => Final(c) = Final(k))
  <2>1. n > 0 => c[n + 1] = k[n]
    BY <1>3, <1>6
  <2>2. n = 0 => c[n + 1] = a
    BY <1>2
  <2> QED BY <1>2, <1>3, <2>1, <2>2 DEF Final, n
<1>10. ASSUME NEW i \in 1 .. Len(c) PROVE i = 1 \/ (i - 1 \in 1 .. n /\ c[i] = k[i - 1])
  BY <1>2, <1>3
<1>11. Plan(c, P)
  <2>1. \A i \in 1 .. Len(c) : StepOf(c[i], P)
    BY <1>2, <1>5, <1>10
  <2>2. ASSUME NEW i \in 1 .. Len(c) - 1 PROVE Follows(c[i], c[i + 1])
    <3>1. CASE i = 1
      <4>1. n > 0 /\ 1 \in 1 .. n /\ 1 + 1 = 2
        BY <1>2, <1>3, <3>1
      <4>2. c[i + 1] = k[1] /\ First(k) = k[1] /\ k # <<>>
        BY <1>3, <1>6, <3>1, <4>1 DEF First
      <4> QED BY <1>2, <3>1, <4>2
    <3>2. CASE i # 1
      <4>1. i - 1 \in 1 .. n - 1 /\ (i - 1) + 1 = i /\ i \in 1 .. n /\ i - 1 \in 1 .. n
        BY <1>2, <1>3, <3>2
      <4>2. c[i] = k[i - 1] /\ c[i + 1] = k[i]
        <5>1. c[(i - 1) + 1] = k[i - 1] /\ c[i + 1] = k[i]
          BY <1>6, <4>1
        <5> QED BY <4>1, <5>1
      <4>3. Follows(k[i - 1], k[(i - 1) + 1])
        BY <1>5, <4>1
      <4> QED BY <4>1, <4>2, <4>3
    <3> QED BY <3>1, <3>2
  <2>3. c[Len(c)][1] \in EndSteps
    BY <1>2, <1>3, <1>5, <1>9 DEF Final, n
  <2>4. (\E i \in 1 .. Len(c) : c[i][1] = "tryWait") => HasLate(c)
    BY <1>2, <1>5, <1>7, <1>10
  <2> QED BY <1>2, <2>1, <2>2, <2>3, <2>4 DEF Plan
<1> QED BY <1>2, <1>4, <1>7, <1>8, <1>9, <1>11

-----------------------------------------------------------------------------
(* A goroutine moves on, and the others do not.                            *)

\* A plan stays one when there are more packets.
LEMMA PlanGrows ==
  ASSUME NEW P, NEW Q, NEW k, Plan(k, P), P \subseteq Q
  PROVE  Plan(k, Q)
<1>1. \A a : StepOf(a, P) => StepOf(a, Q)
  BY DEF StepOf
<1> QED BY <1>1 DEF Plan

\* A sequence over a set is one over a larger set.
LEMMA SeqGrows ==
  ASSUME NEW A, NEW B, A \subseteq B, NEW s \in Seq(A)
  PROVE  s \in Seq(B)
  OBVIOUS

\* A step that is not about publishing, applying or waiting.
Plain(a) ==
  \/ a[1] \in {"end", "fullFlush", "flushAll", "forcePurge", "events", "endFull", "waitAll",
               "tryPurge", "maybeEvents", "tryEvent"}
  \/ a[1] = "addEvent" /\ a[2] = 0

\* Such a goroutine has nothing in hand.
LEMMA PlainStep ==
  ASSUME NEW k, Plain(First(k))
  PROVE  ~Purging(k) /\ ~Busy(k) /\ ~InWait(k) /\ \A g : ~Holds(k, g)
  BY DEF Plain, Purging, Busy, InWait, Holds, GenSteps

\* Only p moves, and what it does takes nothing from the others.
Moves(p) ==
  /\ DOMAIN pc' = Procs /\ DOMAIN view' = Procs /\ DOMAIN late' = Procs /\ DOMAIN due' = Procs
  /\ pushed \subseteq pushed' /\ segs \subseteq segs' /\ missed \subseteq missed' /\ \A g \in Gens : hits[g] \subseteq hits'[g]
  /\ \A q \in Procs : q # p =>
       /\ pc'[q] = pc[q] /\ view'[q] = view[q] /\ late'[q] = late[q] /\ due'[q] = due[q]
       /\ lock'["purgeMu"] = q <=> lock["purgeMu"] = q
       /\ \A g \in Gens : owner'[g] = q <=> owner[g] = q

\* The others.
LEMMA OthersKept ==
  ASSUME ApplyInv, NEW p \in Procs, Moves(p), NEW q \in Procs, q # p
  PROVE  Local(q)'
<1>1. /\ pc'[q] = pc[q] /\ view'[q] = view[q] /\ late'[q] = late[q] /\ due'[q] = due[q]
      /\ lock'["purgeMu"] = q <=> lock["purgeMu"] = q
      /\ \A g \in Gens : owner'[g] = q <=> owner[g] = q
      /\ pushed \subseteq pushed' /\ segs \subseteq segs' /\ missed \subseteq missed' /\ \A g \in Gens : hits[g] \subseteq hits'[g]
  BY DEF Moves
<1>2. Local(q)
  BY DEF ApplyInv
<1>3. Plan(pc'[q], pushed')
  BY <1>1, <1>2, PlanGrows DEF Local
<1>4. late'[q] \in Seq(pushed')
  BY <1>1, <1>2, SeqGrows DEF Local
<1>5. ASSUME InWait(pc[q]) PROVE Resolving(q)'
  <2>1. \A g \in due[q].packets : g \in Gens
    BY <1>2 DEF Local, ApplyInv, Shared
  <2>2. \A g : ToCome(q, g) => ToCome(q, g)'
    BY <1>1 DEF ToCome
  <2> QED BY <1>1, <1>2, <1>5, <2>1, <2>2 DEF Local, Resolving
<1> QED BY <1>1, <1>2, <1>3, <1>4, <1>5 DEF Local

\* Only the holder of purgeMu has a ticket in hand.
LEMMA OneBusy ==
  ASSUME ApplyInv, NEW p \in Procs, lock["purgeMu"] = p \/ lock["purgeMu"] = None
  PROVE  \A q \in Procs : q # p => ~Busy(pc[q])
  BY NoneAssumption DEF ApplyInv, Local, Purging

\* The tickets, when nobody takes one in hand or is through with one.
LEMMA BudgetKept ==
  ASSUME ApplyInv, NEW p \in Procs, \A q \in Procs : q # p => pc'[q] = pc[q],
         ~Busy(pc[p]), ~Busy(pc'[p]), nextGen' = nextGen,
         tickets' \in Seq(Shapes \cup {{"global"}}), made' \in Int,
         \/ tickets' = tickets /\ made' = made
         \/ Len(tickets') = Len(tickets) + 1 /\ made' = made + 1
  PROVE  Budget'
<1>1. /\ nextGen \in Int /\ made \in Int /\ Len(tickets) \in Nat
      /\ Len(tickets') \in Nat /\ (tickets' = <<>> <=> Len(tickets') = 0) /\ (tickets = <<>> <=> Len(tickets) = 0)
  BY NoElements DEF ApplyInv, Shared
<1>2. \A k : Owed(k) \in Int
  BY DEF Owed, One
<1>3. Budget
  BY DEF ApplyInv
<1>4. (\A q \in Procs : ~Busy(pc'[q])) => nextGen' - 1 + 2 * Len(tickets') <= 2 * made'
  <2>1. (\A q \in Procs : ~Busy(pc'[q])) => (\A q \in Procs : ~Busy(pc[q]))
    OBVIOUS
  <2>2. (\A q \in Procs : ~Busy(pc[q])) => nextGen - 1 + 2 * Len(tickets) <= 2 * made
    BY <1>3 DEF Budget
  <2> QED BY <1>1, <2>1, <2>2
<1>5. ASSUME NEW q \in Procs, Busy(pc'[q])
      PROVE  tickets' # <<>> /\ nextGen' - 1 + Owed(pc'[q]) + 2 * (Len(tickets') - 1) <= 2 * made'
  <2>1. q # p /\ pc'[q] = pc[q]
    BY <1>5
  <2>2. tickets # <<>> /\ nextGen - 1 + Owed(pc[q]) + 2 * (Len(tickets) - 1) <= 2 * made
    BY <1>3, <1>5, <2>1 DEF Budget
  <2>3. Owed(pc[q]) \in Int
    BY <1>2
  <2>4. tickets' # <<>>
    BY <1>1, <2>2
  <2>5. nextGen' - 1 + Owed(pc[q]) + 2 * (Len(tickets') - 1) <= 2 * made'
    <3> DEFINE o == Owed(pc[q])
               l == Len(tickets)
               m == Len(tickets')
    <3>1. o \in Int /\ l \in Int /\ m \in Int /\ nextGen - 1 + o + 2 * (l - 1) <= 2 * made
      BY <1>1, <2>2, <2>3
    <3>2. (m = l /\ made' = made) \/ (m = l + 1 /\ made' = made + 1)
      OBVIOUS
    <3> HIDE DEF o, l, m
    <3>3. nextGen - 1 + o + 2 * (m - 1) <= 2 * made'
      <4>1. CASE m = l /\ made' = made
        BY <3>1, <4>1
      <4>2. CASE m = l + 1 /\ made' = made + 1
        <5>1. nextGen \in Int /\ made \in Int /\ 2 * (m - 1) = 2 * (l - 1) + 2 /\ 2 * made' = 2 * made + 2
          BY <1>1, <3>1, <4>2
        <5> DEFINE u == 2 * (l - 1)
                   v == 2 * made
                   x == nextGen - 1 + o
        <5>2. u \in Int /\ v \in Int /\ x \in Int /\ x + u <= v
          BY <3>1, <5>1
        <5> HIDE DEF u, v, x
        <5>3. x + (u + 2) <= v + 2
          BY <5>2
        <5> QED BY <5>1, <5>3 DEF u, v, x
      <4> QED BY <3>2, <4>1, <4>2
    <3> QED BY <3>3 DEF o, m
  <2> QED BY <2>1, <2>4, <2>5
<1> QED BY <1>4, <1>5 DEF Budget

\* The imports, when none begins.
LEMMA ImportsKept ==
  ASSUME ApplyInv, NEW p \in Procs, \A q \in Procs : q # p => pc'[q] = pc[q],
         Final(pc'[p])[1] = "import" => Final(pc[p])[1] = "import",
         born' = born, flushes' = flushes
  PROVE  Imports'
<1> DEFINE I == Importing
           J == Importing'
<1>1. J \subseteq I
  BY DEF Importing
<1>2. IsFiniteSet(I) /\ Len(born) + Cardinality(I) <= flushes /\ Len(born) \in Int /\ flushes \in Int
  BY DEF ApplyInv, Imports, Shared
<1> HIDE DEF I, J
<1>3. IsFiniteSet(J) /\ Cardinality(J) <= Cardinality(I) /\ Cardinality(J) \in Nat /\ Cardinality(I) \in Nat
  BY <1>1, <1>2, FS_Subset, FS_CardinalityType
<1>4. Len(born) + Cardinality(J) <= flushes
  BY <1>2, <1>3
<1>5. IsFiniteSet(Importing') /\ Len(born') + Cardinality(Importing') <= flushes'
  BY <1>3, <1>4 DEF J
<1> QED BY <1>5 DEF Imports

\* The flush of an import is counted when it begins.
LEMMA ImportBegins ==
  ASSUME ApplyInv, NEW p \in Procs, \A q \in Procs : q # p => pc'[q] = pc[q],
         born' = born, flushes' = flushes + 1
  PROVE  Imports'
<1>1. /\ IsFiniteSet(Importing) /\ Len(born) + Cardinality(Importing) <= flushes
      /\ flushes \in Int /\ Len(born) \in Int
  BY DEF ApplyInv, Imports, Shared
<1>2. Importing' \subseteq Importing \cup {p}
  BY DEF Importing
<1>3. IsFiniteSet(Importing \cup {p}) /\ Cardinality(Importing \cup {p}) <= Cardinality(Importing) + 1
      /\ Cardinality(Importing) \in Nat
  <2>1. Cardinality(Importing) \in Nat
    BY <1>1, FS_CardinalityType
  <2>2. IsFiniteSet(Importing \cup {p})
    BY <1>1, FS_AddElement
  <2>3. Cardinality(Importing \cup {p}) = IF p \in Importing THEN Cardinality(Importing) ELSE Cardinality(Importing) + 1
    BY <1>1, FS_AddElement
  <2> QED BY <2>1, <2>2, <2>3
<1> DEFINE I == Importing \cup {p}
           J == Importing'
<1> HIDE DEF I, J
<1>4. IsFiniteSet(J) /\ Cardinality(J) <= Cardinality(I) /\ Cardinality(J) \in Nat /\ Cardinality(I) \in Nat
  <2>1. J \subseteq I /\ IsFiniteSet(I)
    BY <1>2, <1>3 DEF I, J
  <2> QED BY <2>1, FS_Subset, FS_CardinalityType
<1>5. Len(born) + Cardinality(J) <= flushes + 1
  <2>1. Cardinality(I) <= Cardinality(Importing) + 1 /\ Cardinality(Importing) \in Nat
    BY <1>3 DEF I
  <2> QED BY <1>1, <1>4, <2>1
<1>6. IsFiniteSet(Importing') /\ Len(born) + Cardinality(Importing') <= flushes + 1
  BY <1>4, <1>5 DEF J
<1>7. Len(born') + Cardinality(Importing') <= flushes'
  BY <1>6
<1> QED BY <1>6, <1>7 DEF Imports

\* Where a goroutine goes on after its step.
LEMMA Advance ==
  ASSUME ApplyInv, NEW p \in Procs, pc[p] # <<>>
  PROVE  LET k == pc[p]
             t == Tail(pc[p])
         IN  /\ Plan(t, pushed) /\ StepOf(Head(k), pushed)
             /\ First(k) = Head(k) /\ Second(k) = First(t)
             /\ t = <<>> => Head(k)[1] \in EndSteps /\ Final(k) = Head(k) /\ First(t) = NoStep
             /\ t # <<>> => Follows(Head(k), First(t)) /\ Final(t) = Final(k) /\ StepOf(First(t), pushed)
             /\ HasLate(k) /\ Head(k)[1] # "forceLate" => HasLate(t)
             /\ \A g : Visits(k, g) => Visits(t, g) \/ (Head(k)[1] \in {"tryWait", "force"} /\ Head(k)[2] = g)
<1>1. Plan(pc[p], pushed)
  BY DEF ApplyInv, Local
<1>2. Tail(pc[p]) = <<>> => First(Tail(pc[p])) = NoStep
  BY DEF First
<1> QED BY <1>1, <1>2, PlanTail, Zenon

\* The steps a goroutine is given.
LEMMA Given ==
  ASSUME ApplyInv, NEW p \in Procs, pc[p] # <<>>
  PROVE  /\ \A s : Then(p, s) => /\ pc'[p] = s \o Tail(pc[p]) /\ DOMAIN pc' = Procs
                                 /\ \A q \in Procs : q # p => pc'[q] = pc[q]
         /\ <<>> \o Tail(pc[p]) = Tail(pc[p])
         /\ Tail(pc[p]) \in Seq(AllSteps \X Int)
<1>1. Tail(pc[p]) \in Seq(AllSteps \X Int)
  BY Advance DEF Plan
<1>2. <<>> \o Tail(pc[p]) = Tail(pc[p])
  <2> DEFINE t == Tail(pc[p])
             A == AllSteps \X Int
  <2>1. t \in Seq(A)
    BY <1>1
  <2> HIDE DEF t, A
  <2>2. <<>> \o t = t
    BY <2>1
  <2> QED BY <2>2 DEF t
<1>3. DOMAIN pc = Procs
  BY DEF ApplyInv, Shared
<1> QED BY <1>1, <1>2, <1>3 DEF Then

-----------------------------------------------------------------------------
(* Steps around publishing, applying and waiting.                          *)

\* A goroutine goes from a plain step to a plain step.
LEMMA PlainKept ==
  ASSUME ApplyInv, NEW p \in Procs, Plain(First(pc[p])), Plain(First(pc'[p])), Plan(pc'[p], pushed),
         DOMAIN pc' = Procs, \A q \in Procs : q # p => pc'[q] = pc[q],
         UNCHANGED <<stream, segs, hits, missed, owner, view, late, due, born>>,
         lock' \in [Locks -> Procs \cup {None}], lock'["purgeMu"] = lock["purgeMu"],
         queue' \in Seq(pushed \cup {0}), tickets' \in Seq(Shapes \cup {{"global"}}), made' \in 0 .. MaxTickets,
         \/ tickets' = tickets /\ made' = made
         \/ Len(tickets') = Len(tickets) + 1 /\ made' = made + 1,
         \/ flushes' = flushes /\ (Final(pc'[p])[1] = "import" <=> Final(pc[p])[1] = "import")
         \/ flushes' = flushes + 1 /\ flushes < MaxFlushes
  PROVE  ApplyInv'
<1>1. /\ ~Purging(pc[p]) /\ ~Busy(pc[p]) /\ \A g : ~Holds(pc[p], g)
      /\ ~Purging(pc'[p]) /\ ~Busy(pc'[p]) /\ ~InWait(pc'[p]) /\ \A g : ~Holds(pc'[p], g)
  BY PlainStep
<1>2. /\ nextGen' = nextGen /\ updates' = updates /\ pushed' = pushed /\ private' = private
      /\ segs' = segs /\ hits' = hits /\ missed' = missed /\ owner' = owner /\ view' = view /\ late' = late /\ due' = due /\ born' = born
  BY DEF stream
<1>3. Shared /\ Local(p)
  BY DEF ApplyInv
<1>4. Shared'
  <2>1. flushes' \in 0 .. MaxFlushes
    BY <1>3, BoundAssumption DEF Shared
  <2> QED BY <1>2, <1>3, <2>1 DEF Shared
<1>5. Local(p)'
  BY <1>1, <1>2, <1>3 DEF Local
<1>6. Moves(p)
  BY <1>2, <1>3 DEF Moves, Shared
<1>7. Budget'
  <2>1. made' \in Int
    OBVIOUS
  <2> QED BY <1>1, <1>2, <2>1, BudgetKept
<1>8. Imports'
  BY <1>2, ImportsKept, ImportBegins
<1>9. \A q \in Procs : Local(q)'
  BY <1>5, <1>6, OthersKept
<1> QED BY <1>4, <1>7, <1>8, <1>9 DEF ApplyInv

\* Plans with no step, one, two, or those of a flush.
LEMMA Begins ==
  ASSUME NEW P
  PROVE  /\ Plan(<<>>, P)
         /\ \A a : StepOf(a, P) /\ a[1] \in EndSteps => Plan(<<a>>, P) /\ First(<<a>>) = a /\ Final(<<a>>) = a
         /\ \A a, b : StepOf(a, P) /\ StepOf(b, P) /\ Follows(a, b) /\ b[1] \in EndSteps /\ a[1] # "tryWait" =>
              Plan(<<a, b>>, P) /\ First(<<a, b>>) = a /\ Final(<<a, b>>) = b
<1>1. Plan(<<>>, P)
  BY DEF Plan
<1>2. ASSUME NEW a, StepOf(a, P), a[1] \in EndSteps
      PROVE  Plan(<<a>>, P) /\ First(<<a>>) = a /\ Final(<<a>>) = a
  <2>1. a[1] # "tryWait" /\ a \in AllSteps \X Int
    BY <1>2 DEF EndSteps, StepOf
  <2> DEFINE c == <<a>>
  <2>2. Len(c) = 1 /\ c[1] = a /\ c \in Seq(AllSteps \X Int) /\ c # <<>> /\ Head(c) = a
    BY <2>1
  <2> HIDE DEF c
  <2>3. Plan(c, P) /\ First(c) = a /\ Final(c) = a
    BY <1>2, <2>1, <2>2 DEF Plan, First, Final
  <2> QED BY <2>3 DEF c
<1>3. ASSUME NEW a, NEW b, StepOf(a, P), StepOf(b, P), Follows(a, b), b[1] \in EndSteps, a[1] # "tryWait"
      PROVE  Plan(<<a, b>>, P) /\ First(<<a, b>>) = a /\ Final(<<a, b>>) = b
  <2>1. a[1] # "tryWait" /\ b[1] # "tryWait" /\ a \in AllSteps \X Int /\ b \in AllSteps \X Int
    BY <1>3 DEF EndSteps, StepOf
  <2> DEFINE c == <<a, b>>
  <2>2. Len(c) = 2 /\ c[1] = a /\ c[2] = b /\ c \in Seq(AllSteps \X Int) /\ c # <<>> /\ Head(c) = a
    BY <2>1
  <2> HIDE DEF c
  <2>3. \A i \in 1 .. Len(c) : i = 1 \/ i = 2
    BY <2>2
  <2>4. \A i \in 1 .. Len(c) - 1 : i = 1 /\ i + 1 = 2
    BY <2>2
  <2>5. \A i \in 1 .. Len(c) : StepOf(c[i], P) /\ c[i][1] # "tryWait"
    BY <1>3, <2>1, <2>2, <2>3
  <2>6. \A i \in 1 .. Len(c) - 1 : Follows(c[i], c[i + 1])
    BY <1>3, <2>2, <2>4
  <2>7. Plan(c, P) /\ First(c) = a /\ Final(c) = b
    BY <1>3, <2>2, <2>5, <2>6 DEF Plan, First, Final
  <2> QED BY <2>7 DEF c
<1> QED BY <1>1, <1>2, <1>3, Zenon

\* A ticket joins the queue.
LEMMA TicketAdded ==
  ASSUME ApplyInv, NEW s \in Shapes \cup {{"global"}}, tickets' = Append(tickets, s)
  PROVE  tickets' \in Seq(Shapes \cup {{"global"}}) /\ Len(tickets') = Len(tickets) + 1
<1>1. tickets \in Seq(Shapes \cup {{"global"}})
  BY DEF ApplyInv, Shared
<1> DEFINE A == Shapes \cup {{"global"}}
<1> HIDE DEF A
<1>2. tickets \in Seq(A) /\ s \in A
  BY <1>1 DEF A
<1>3. Append(tickets, s) \in Seq(A) /\ Len(Append(tickets, s)) = Len(tickets) + 1
  BY <1>2
<1> QED BY <1>3 DEF A

\* UpdateDocuments and DeleteDocuments add a ticket.
LEMMA TicketsKept ==
  ASSUME ApplyInv, NEW p \in Procs, FlushDWPT(p) \/ ApplyAllDeletes(p)
  PROVE  ApplyInv'
<1>1. /\ pc[p] = <<>> /\ made < MaxTickets /\ made' = made + 1
      /\ UNCHANGED <<stream, segs, hits, missed, queue, owner, lock, view, late, due, born, flushes>>
  BY DEF FlushDWPT, ApplyAllDeletes
<1>2. \E s \in Shapes \cup {{"global"}} : tickets' = Append(tickets, s)
  BY DEF FlushDWPT, ApplyAllDeletes, NewTicket
<1>3. tickets' \in Seq(Shapes \cup {{"global"}}) /\ Len(tickets') = Len(tickets) + 1
  BY <1>2, TicketAdded
<1>4. PICK a : /\ a = <<"tryPurge", 0>> \/ a = <<"addEvent", 0>>
               /\ pc' = [pc EXCEPT ![p] = <<a, <<"maybeEvents", 0>>>>]
  BY DEF FlushDWPT, ApplyAllDeletes, Step
<1> DEFINE b == <<"maybeEvents", 0>>
<1>5. /\ StepOf(a, pushed) /\ StepOf(b, pushed) /\ Follows(a, b) /\ b[1] \in EndSteps /\ a[1] # "tryWait"
      /\ Plain(a) /\ b[1] # "import"
  BY <1>4 DEF StepOf, Follows, EndSteps, Plain, AllSteps, PacketSteps
<1> HIDE DEF b
<1>6. DOMAIN pc' = Procs /\ (\A q \in Procs : q # p => pc'[q] = pc[q]) /\ pc'[p] = <<a, b>>
  BY <1>4 DEF ApplyInv, Shared, b
<1>7. Plan(pc'[p], pushed) /\ First(pc'[p]) = a /\ Final(pc'[p]) = b
  <2>1. Plan(<<a, b>>, pushed) /\ First(<<a, b>>) = a /\ Final(<<a, b>>) = b
    BY <1>5, Begins
  <2> QED BY <1>6, <2>1, Zenon
<1>8. First(pc[p]) = NoStep /\ Final(pc[p]) = NoStep /\ Plain(NoStep) /\ NoStep[1] # "import"
  BY <1>1 DEF First, Final, NoStep, Plain
<1>9. /\ lock' \in [Locks -> Procs \cup {None}] /\ queue' \in Seq(pushed \cup {0}) /\ made' \in 0 .. MaxTickets
  BY <1>1, BoundAssumption DEF ApplyInv, Shared
<1> QED BY <1>1, <1>3, <1>5, <1>6, <1>7, <1>8, <1>9, PlainKept

\* A sequence with an element behind it.
LEMMA SnocOf ==
  ASSUME NEW A, NEW f \in Seq(A), NEW x \in A
  PROVE  /\ f \o <<x>> \in Seq(A) /\ Len(f \o <<x>>) = Len(f) + 1
         /\ (\A i \in 1 .. Len(f) : (f \o <<x>>)[i] = f[i]) /\ (f \o <<x>>)[Len(f) + 1] = x
<1>1. <<x>> \in Seq(A) /\ Len(<<x>>) = 1 /\ <<x>>[1] = x
  OBVIOUS
<1>2. ASSUME NEW y \in Seq(A), Len(y) = 1
      PROVE  /\ f \o y \in Seq(A) /\ Len(f \o y) = Len(f) + 1
             /\ (\A i \in 1 .. Len(f) : (f \o y)[i] = f[i]) /\ (f \o y)[Len(f) + 1] = y[1]
  <2>1. Len(f) \in Nat /\ 1 \in 1 .. Len(y) /\ Len(f) + 1 \in 1 .. Len(f) + Len(y) /\ (Len(f) + 1) - Len(f) = 1
    BY <1>2
  <2>2. f \o y \in Seq(A)
    OBVIOUS
  <2>3. Len(f \o y) = Len(f) + Len(y)
    OBVIOUS
  <2>4. \A i \in 1 .. Len(f) : (f \o y)[i] = f[i]
    OBVIOUS
  <2>5. \A i \in Len(f) + 1 .. Len(f) + Len(y) : (f \o y)[i] = y[i - Len(f)]
    OBVIOUS
  <2> DEFINE c == f \o y
  <2> HIDE DEF c
  <2>6. c[Len(f) + 1] = y[1]
    <3>1. Len(f) + 1 \in Len(f) + 1 .. Len(f) + Len(y)
      BY <1>2, <2>1
    <3> QED BY <2>1, <2>5, <3>1 DEF c
  <2> QED BY <1>2, <2>2, <2>3, <2>4, <2>6 DEF c
<1> QED BY <1>1, <1>2, Zenon

\* The steps of a flush.
LEMMA FlushPlan ==
  ASSUME NEW P, NEW e \in {"return", "import"}
  PROVE  LET k == <<>> \o FlushSteps \o <<Step(e)>> IN
         Plan(k, P) /\ First(k) = Step("fullFlush") /\ Final(k) = Step(e)
<1> DEFINE k == <<Step("fullFlush"), Step("flushAll"), Step("forcePurge"), Step("events"),
                  Step("endFull"), Step("waitAll"), Step(e)>>
<1>1. <<>> \o FlushSteps \o <<Step(e)>> = k
  <2> DEFINE A == {Step(s) : s \in {"fullFlush", "flushAll", "forcePurge", "events", "endFull", "waitAll", e}}
             f == FlushSteps
             x == Step(e)
  <2>1. f = <<Step("fullFlush"), Step("flushAll"), Step("forcePurge"), Step("events"),
              Step("endFull"), Step("waitAll")>>
    BY Zenon DEF FlushSteps
  <2>2. /\ Step("fullFlush") \in A /\ Step("flushAll") \in A /\ Step("forcePurge") \in A /\ Step("events") \in A
        /\ Step("endFull") \in A /\ Step("waitAll") \in A /\ Step(e) \in A
    OBVIOUS
  <2> HIDE DEF A, f
  <2>3. /\ f \in Seq(A) /\ Len(f) = 6 /\ f[1] = Step("fullFlush") /\ f[2] = Step("flushAll")
        /\ f[3] = Step("forcePurge") /\ f[4] = Step("events") /\ f[5] = Step("endFull") /\ f[6] = Step("waitAll")
    BY <2>1, <2>2
  <2>4. <<>> \o f = f
    BY <2>3
  <2>5. k \in Seq(A) /\ Len(k) = 7
    BY <2>2
  <2> HIDE DEF x
  <2> DEFINE j == f \o <<x>>
  <2>6. x \in A
    BY <2>2 DEF x
  <2>7. j \in Seq(A) /\ Len(j) = 7 /\ (\A i \in 1 .. 6 : j[i] = f[i]) /\ j[7] = x
    <3>1. /\ f \o <<x>> \in Seq(A) /\ Len(f \o <<x>>) = Len(f) + 1
          /\ (\A i \in 1 .. Len(f) : (f \o <<x>>)[i] = f[i]) /\ (f \o <<x>>)[Len(f) + 1] = x
      BY <2>3, <2>6, SnocOf, Zenon
    <3> HIDE DEF k
    <3> QED BY <2>3, <3>1
  <2>8. /\ k[1] = Step("fullFlush") /\ k[2] = Step("flushAll")
        /\ k[3] = Step("forcePurge") /\ k[4] = Step("events") /\ k[5] = Step("endFull")
        /\ k[6] = Step("waitAll") /\ k[7] = Step(e)
    OBVIOUS
  <2> HIDE DEF j, k
  <2>9. \A i \in 1 .. 7 : j[i] = k[i]
    <3>1. \A i \in 1 .. 7 : i \in {1, 2, 3, 4, 5, 6, 7}
      OBVIOUS
    <3>2. j[1] = k[1] /\ j[2] = k[2] /\ j[3] = k[3] /\ j[4] = k[4] /\ j[5] = k[5] /\ j[6] = k[6] /\ j[7] = k[7]
      BY <2>3, <2>7, <2>8 DEF x
    <3> QED BY <3>1, <3>2
  <2>10. j = k
    BY <2>5, <2>7, <2>9
  <2> QED BY <2>4, <2>10, Zenon DEF f, j, x
<1>2. /\ Len(k) = 7 /\ k # <<>> /\ Head(k) = Step("fullFlush") /\ k[1] = Step("fullFlush") /\ k[2] = Step("flushAll")
      /\ k[3] = Step("forcePurge") /\ k[4] = Step("events") /\ k[5] = Step("endFull")
      /\ k[6] = Step("waitAll") /\ k[7] = Step(e)
  OBVIOUS
<1>3. /\ Step("fullFlush") \in AllSteps \X Int /\ Step("flushAll") \in AllSteps \X Int
      /\ Step("forcePurge") \in AllSteps \X Int /\ Step("events") \in AllSteps \X Int
      /\ Step("endFull") \in AllSteps \X Int /\ Step("waitAll") \in AllSteps \X Int /\ Step(e) \in AllSteps \X Int
  BY DEF Step, AllSteps
<1>4. k \in Seq(AllSteps \X Int)
  <2> DEFINE A == AllSteps \X Int
  <2>1. /\ Step("fullFlush") \in A /\ Step("flushAll") \in A /\ Step("forcePurge") \in A /\ Step("events") \in A
        /\ Step("endFull") \in A /\ Step("waitAll") \in A /\ Step(e) \in A
    BY <1>3
  <2> HIDE DEF A
  <2>2. k \in Seq(A)
    BY <2>1
  <2> QED BY <2>2 DEF A
<1> HIDE DEF k
<1>5. \A i \in 1 .. 7 : i \in {1, 2, 3, 4, 5, 6, 7}
  OBVIOUS
<1>6. ASSUME NEW i \in 1 .. 7 PROVE StepOf(k[i], P) /\ k[i][1] # "tryWait"
  <2>1. k[i] \in {Step(s) : s \in {"fullFlush", "flushAll", "forcePurge", "events", "endFull", "waitAll", e}}
    BY <1>2, <1>5
  <2> QED BY <2>1 DEF StepOf, Step, AllSteps, PacketSteps
<1>7. ASSUME NEW i \in 1 .. 6 PROVE Follows(k[i], k[i + 1])
  <2>1. i \in {1, 2, 3, 4, 5, 6}
    OBVIOUS
  <2>2. CASE i \in {1, 2, 3}
    BY <1>2, <2>2 DEF Follows, Step
  <2>3. CASE i \in {4, 5, 6}
    BY <1>2, <2>3 DEF Follows, Step
  <2> QED BY <2>1, <2>2, <2>3
<1>8. k[7][1] \in EndSteps
  BY <1>2 DEF Step, EndSteps
<1>9. Plan(k, P)
  BY <1>2, <1>4, <1>6, <1>7, <1>8 DEF Plan
<1>10. First(k) = Step("fullFlush") /\ Final(k) = Step(e)
  BY <1>2 DEF First, Final
<1> QED BY <1>1, <1>9, <1>10, Zenon

\* Flush and AddIndexes begin.
LEMMA BeginsKept ==
  ASSUME ApplyInv, NEW p \in Procs, Flush(p) \/ AddIndexes(p)
  PROVE  ApplyInv'
<1>1. PICK e \in {"return", "import"} : StartFlush(p, <<>>, <<Step(e)>>)
  BY DEF Flush, AddIndexes
<1>2. /\ pc[p] = <<>> /\ flushes < MaxFlushes /\ flushes' = flushes + 1
      /\ pc' = [pc EXCEPT ![p] = <<>> \o FlushSteps \o <<Step(e)>>]
      /\ UNCHANGED <<stream, segs, hits, missed, queue, owner, tickets, lock, view, late, due, born, made>>
  BY <1>1 DEF StartFlush
<1>3. /\ DOMAIN pc' = Procs /\ (\A q \in Procs : q # p => pc'[q] = pc[q])
      /\ pc'[p] = <<>> \o FlushSteps \o <<Step(e)>>
  BY <1>2 DEF ApplyInv, Shared
<1>4. Plan(pc'[p], pushed) /\ First(pc'[p]) = Step("fullFlush")
  <2>1. /\ Plan(<<>> \o FlushSteps \o <<Step(e)>>, pushed)
        /\ First(<<>> \o FlushSteps \o <<Step(e)>>) = Step("fullFlush")
    BY FlushPlan, Zenon
  <2> QED BY <1>3, <2>1, Zenon
<1>5. Plain(First(pc'[p])) /\ Plain(First(pc[p]))
  BY <1>2, <1>4 DEF Plain, Step, First, NoStep
<1>6. /\ lock' \in [Locks -> Procs \cup {None}] /\ queue' \in Seq(pushed \cup {0}) /\ made' \in 0 .. MaxTickets
      /\ tickets' \in Seq(Shapes \cup {{"global"}}) /\ lock' = lock /\ tickets' = tickets /\ made' = made
  BY <1>2 DEF ApplyInv, Shared
<1> QED BY <1>2, <1>3, <1>4, <1>5, <1>6, PlainKept

\* A goroutine that has taken a step that is none of the last.
LEMMA Goes ==
  ASSUME ApplyInv, NEW p \in Procs, pc[p] # <<>>, Then(p, <<>>), Head(pc[p])[1] \notin EndSteps
  PROVE  /\ First(pc[p]) = Head(pc[p]) /\ pc'[p] = Tail(pc[p]) /\ pc'[p] # <<>> /\ Plan(pc'[p], pushed)
         /\ Follows(Head(pc[p]), First(pc'[p])) /\ Final(pc'[p]) = Final(pc[p])
         /\ StepOf(First(pc'[p]), pushed) /\ StepOf(Head(pc[p]), pushed)
         /\ Second(pc[p]) = First(pc'[p])
         /\ DOMAIN pc' = Procs /\ \A q \in Procs : q # p => pc'[q] = pc[q]
         /\ HasLate(pc[p]) /\ Head(pc[p])[1] # "forceLate" => HasLate(pc'[p])
         /\ \A g : Visits(pc[p], g) => \/ Visits(pc'[p], g)
                                       \/ Head(pc[p])[1] \in {"tryWait", "force"} /\ Head(pc[p])[2] = g
<1>1. pc'[p] = Tail(pc[p]) /\ DOMAIN pc' = Procs /\ \A q \in Procs : q # p => pc'[q] = pc[q]
  <2>1. pc'[p] = <<>> \o Tail(pc[p]) /\ DOMAIN pc' = Procs /\ \A q \in Procs : q # p => pc'[q] = pc[q]
    BY Given, Zenon
  <2>2. <<>> \o Tail(pc[p]) = Tail(pc[p])
    BY Given
  <2> QED BY <2>1, <2>2, Zenon
<1> DEFINE k == pc[p]
           t == Tail(pc[p])
<1>2. /\ Plan(t, pushed) /\ StepOf(Head(k), pushed)
      /\ First(k) = Head(k) /\ Second(k) = First(t)
      /\ t = <<>> => Head(k)[1] \in EndSteps
      /\ t # <<>> => Follows(Head(k), First(t)) /\ Final(t) = Final(k) /\ StepOf(First(t), pushed)
      /\ HasLate(k) /\ Head(k)[1] # "forceLate" => HasLate(t)
      /\ \A g : Visits(k, g) => Visits(t, g) \/ (Head(k)[1] \in {"tryWait", "force"} /\ Head(k)[2] = g)
  BY Advance, Zenon
<1>3. t # <<>>
  BY <1>2
<1> QED BY <1>1, <1>2, <1>3, Zenon

\* The mutex of a full flush is taken, buffers are flushed, the mutex is released.
LEMMA FullFlushKept ==
  ASSUME ApplyInv, NEW p \in Procs, FullFlush(p) \/ FlushAll(p) \/ EndFull(p)
  PROVE  ApplyInv'
<1>1. /\ pc[p] # <<>> /\ Head(pc[p])[1] \in {"fullFlush", "flushAll", "endFull"} /\ Then(p, <<>>)
      /\ UNCHANGED <<stream, segs, hits, missed, queue, owner, view, late, due, born, flushes>>
  BY DEF FullFlush, FlushAll, EndFull, At
<1>2. Head(pc[p])[1] \notin EndSteps
  BY <1>1 DEF EndSteps
<1>3. /\ First(pc[p]) = Head(pc[p]) /\ Plan(pc'[p], pushed)
      /\ Follows(Head(pc[p]), First(pc'[p])) /\ Final(pc'[p]) = Final(pc[p])
      /\ DOMAIN pc' = Procs /\ \A q \in Procs : q # p => pc'[q] = pc[q]
  BY <1>1, <1>2, Goes
<1>4. Plain(First(pc[p])) /\ Plain(First(pc'[p]))
  BY <1>1, <1>3 DEF Follows, Plain
<1>5. lock' \in [Locks -> Procs \cup {None}] /\ lock'["purgeMu"] = lock["purgeMu"]
  BY DEF FullFlush, FlushAll, EndFull, Locks, ApplyInv, Shared
<1>6. /\ \/ tickets' = tickets /\ made' = made
         \/ Len(tickets') = Len(tickets) + 1 /\ made' = made + 1
      /\ tickets' \in Seq(Shapes \cup {{"global"}}) /\ made' \in 0 .. MaxTickets
  <2>1. CASE made < MaxTickets /\ NewTicket /\ made' = made + 1
    <3>1. \E s \in Shapes \cup {{"global"}} : tickets' = Append(tickets, s)
      BY <2>1 DEF NewTicket
    <3>2. tickets' \in Seq(Shapes \cup {{"global"}}) /\ Len(tickets') = Len(tickets) + 1
      BY <3>1, TicketAdded
    <3> QED BY <2>1, <3>2, BoundAssumption DEF ApplyInv, Shared
  <2>2. CASE tickets' = tickets /\ made' = made
    BY <2>2 DEF ApplyInv, Shared
  <2> QED BY <2>1, <2>2 DEF FullFlush, FlushAll, EndFull
<1>7. queue' \in Seq(pushed \cup {0})
  BY <1>1 DEF ApplyInv, Shared
<1> QED BY <1>1, <1>3, <1>4, <1>5, <1>6, <1>7, PlainKept

\* A goroutine that is given one more step.
LEMMA Ahead ==
  ASSUME ApplyInv, NEW p \in Procs, pc[p] # <<>>, NEW a, Then(p, <<a>>),
         NEW P, pushed \subseteq P, StepOf(a, P), a[1] # "tryWait",
         Tail(pc[p]) = <<>> => a[1] \in EndSteps,
         Tail(pc[p]) # <<>> => Follows(a, First(Tail(pc[p])))
  PROVE  /\ Plan(pc'[p], P) /\ First(pc'[p]) = a /\ Second(pc'[p]) = First(Tail(pc[p]))
         /\ Tail(pc[p]) = <<>> => Final(pc'[p]) = a
         /\ Tail(pc[p]) # <<>> => Final(pc'[p]) = Final(pc[p])
         /\ HasLate(pc[p]) /\ Head(pc[p])[1] # "forceLate" => HasLate(pc'[p])
         /\ \A g : Visits(pc[p], g) => \/ Visits(pc'[p], g)
                                       \/ Head(pc[p])[1] \in {"tryWait", "force"} /\ Head(pc[p])[2] = g
         /\ DOMAIN pc' = Procs /\ \A q \in Procs : q # p => pc'[q] = pc[q]
<1> DEFINE t == Tail(pc[p])
<1>1. pc'[p] = <<a>> \o t /\ DOMAIN pc' = Procs /\ \A q \in Procs : q # p => pc'[q] = pc[q]
  BY Given, Zenon
<1>2. /\ Plan(t, pushed) /\ (t # <<>> => Final(t) = Final(pc[p]))
      /\ HasLate(pc[p]) /\ Head(pc[p])[1] # "forceLate" => HasLate(t)
      /\ \A g : Visits(pc[p], g) => \/ Visits(t, g)
                                    \/ Head(pc[p])[1] \in {"tryWait", "force"} /\ Head(pc[p])[2] = g
  BY Advance, Zenon
<1>3. Plan(t, P)
  BY <1>2, PlanGrows
<1> HIDE DEF t
<1>4. (t = <<>> => a[1] \in EndSteps) /\ (t # <<>> => Follows(a, First(t))) /\ (a[1] = "tryWait" => HasLate(t))
  BY DEF t
<1> DEFINE c == <<a>> \o t
<1>5. /\ Plan(c, P) /\ First(c) = a /\ Second(c) = First(t)
      /\ (t = <<>> => Final(c) = a) /\ (t # <<>> => Final(c) = Final(t))
      /\ HasLate(t) => HasLate(c)
      /\ \A g : Visits(t, g) => Visits(c, g)
  <2>1. c = Before(a, t)
    BY DEF Before
  <2> HIDE DEF c
  <2> QED BY <1>3, <1>4, <2>1, PlanCons
<1> HIDE DEF c
<1>6. pc'[p] = c
  BY <1>1 DEF c
<1> QED BY <1>1, <1>2, <1>5, <1>6 DEF t

\* A goroutine that is given two more steps.
LEMMA AheadTwo ==
  ASSUME ApplyInv, NEW p \in Procs, pc[p] # <<>>, NEW a, NEW b, Then(p, <<a, b>>),
         NEW P, pushed \subseteq P, StepOf(a, P), StepOf(b, P), a[1] # "tryWait", b[1] # "tryWait",
         Follows(a, b),
         Tail(pc[p]) = <<>> => b[1] \in EndSteps,
         Tail(pc[p]) # <<>> => Follows(b, First(Tail(pc[p])))
  PROVE  /\ Plan(pc'[p], P) /\ First(pc'[p]) = a /\ Second(pc'[p]) = b
         /\ Tail(pc[p]) = <<>> => Final(pc'[p]) = b
         /\ Tail(pc[p]) # <<>> => Final(pc'[p]) = Final(pc[p])
         /\ HasLate(pc[p]) /\ Head(pc[p])[1] # "forceLate" => HasLate(pc'[p])
         /\ \A g : Visits(pc[p], g) => \/ Visits(pc'[p], g)
                                       \/ Head(pc[p])[1] \in {"tryWait", "force"} /\ Head(pc[p])[2] = g
         /\ DOMAIN pc' = Procs /\ \A q \in Procs : q # p => pc'[q] = pc[q]
<1> DEFINE t == Tail(pc[p])
<1>1. pc'[p] = <<a, b>> \o t /\ DOMAIN pc' = Procs /\ \A q \in Procs : q # p => pc'[q] = pc[q]
  BY Given, Zenon
<1>2. /\ Plan(t, pushed) /\ (t # <<>> => Final(t) = Final(pc[p]))
      /\ HasLate(pc[p]) /\ Head(pc[p])[1] # "forceLate" => HasLate(t)
      /\ \A g : Visits(pc[p], g) => \/ Visits(t, g)
                                    \/ Head(pc[p])[1] \in {"tryWait", "force"} /\ Head(pc[p])[2] = g
  BY Advance, Zenon
<1>3. Plan(t, P)
  BY <1>2, PlanGrows
<1> HIDE DEF t
<1>4. (t = <<>> => b[1] \in EndSteps) /\ (t # <<>> => Follows(b, First(t))) /\ (b[1] = "tryWait" => HasLate(t))
  BY DEF t
<1> DEFINE c == <<b>> \o t
<1>5. /\ Plan(c, P) /\ c # <<>> /\ First(c) = b
      /\ (t = <<>> => Final(c) = b) /\ (t # <<>> => Final(c) = Final(t))
      /\ HasLate(t) => HasLate(c)
      /\ \A g : Visits(t, g) => Visits(c, g)
  <2>1. c = Before(b, t)
    BY DEF Before
  <2> HIDE DEF c
  <2> QED BY <1>3, <1>4, <2>1, PlanCons
<1>6. t \in Seq(AllSteps \X Int) /\ a \in AllSteps \X Int /\ b \in AllSteps \X Int
  BY <1>3 DEF Plan, StepOf
<1>7. <<a, b>> \o t = <<a>> \o c
  BY <1>6, TwoOf, ZenonT(30)
<1> HIDE DEF c
<1> DEFINE d == <<a>> \o c
<1>8. /\ Plan(d, P) /\ First(d) = a /\ Second(d) = First(c)
      /\ (c = <<>> => Final(d) = a) /\ (c # <<>> => Final(d) = Final(c))
      /\ HasLate(c) => HasLate(d)
      /\ \A g : Visits(c, g) => Visits(d, g)
  <2>1. d = Before(a, c)
    BY DEF Before
  <2> HIDE DEF d
  <2> QED BY <1>5, <2>1, PlanCons
<1> HIDE DEF d
<1>9. pc'[p] = d
  BY <1>1, <1>7 DEF d
<1> QED BY <1>1, <1>2, <1>5, <1>8, <1>9 DEF t

\* What stands behind a step.
LEMMA Behind ==
  ASSUME ApplyInv, NEW p \in Procs, pc[p] # <<>>
  PROVE  /\ First(pc[p]) = Head(pc[p]) /\ Second(pc[p]) = First(Tail(pc[p])) /\ StepOf(Head(pc[p]), pushed)
         /\ Tail(pc[p]) = <<>> => Head(pc[p])[1] \in EndSteps /\ Final(pc[p]) = Head(pc[p])
         /\ Tail(pc[p]) # <<>> => Follows(Head(pc[p]), First(Tail(pc[p])))
         /\ \A s : Then(p, s) => DOMAIN pc' = Procs /\ \A q \in Procs : q # p => pc'[q] = pc[q]
         /\ Then(p, <<>>) => pc'[p] = Tail(pc[p]) /\ Plan(pc'[p], pushed)
         /\ Tail(pc[p]) # <<>> => Final(Tail(pc[p])) = Final(pc[p])
<1>1. Then(p, <<>>) => pc'[p] = Tail(pc[p])
  <2>1. Then(p, <<>>) => pc'[p] = <<>> \o Tail(pc[p])
    BY Given, Zenon
  <2>2. <<>> \o Tail(pc[p]) = Tail(pc[p])
    BY Given
  <2> QED BY <2>1, <2>2, Zenon
<1>2. /\ First(pc[p]) = Head(pc[p]) /\ Second(pc[p]) = First(Tail(pc[p])) /\ StepOf(Head(pc[p]), pushed)
      /\ Tail(pc[p]) = <<>> => Head(pc[p])[1] \in EndSteps /\ Final(pc[p]) = Head(pc[p])
      /\ Tail(pc[p]) # <<>> => Follows(Head(pc[p]), First(Tail(pc[p]))) /\ Final(Tail(pc[p])) = Final(pc[p])
      /\ Plan(Tail(pc[p]), pushed)
  BY Advance, Zenon
<1>3. \A s : Then(p, s) => DOMAIN pc' = Procs /\ \A q \in Procs : q # p => pc'[q] = pc[q]
  BY Given, Zenon
<1> QED BY <1>1, <1>2, <1>3, Zenon

\* The event queue.
LEMMA QueueOf ==
  ASSUME NEW Q, NEW q \in Seq(Q), NEW x \in Q
  PROVE  /\ Append(q, x) \in Seq(Q)
         /\ q # <<>> => Tail(q) \in Seq(Q) /\ Head(q) \in Q
  OBVIOUS

\* A purge is queued, or another goroutine holds the lock a step was for.
LEMMA PassedKept ==
  ASSUME ApplyInv, NEW p \in Procs, pc[p] # <<>>, Then(p, <<>>),
         \/ Head(pc[p])[1] \in {"tryPurge", "tryEvent"} /\ queue' = queue
         \/ Head(pc[p])[1] = "addEvent" /\ Head(pc[p])[2] = 0 /\ queue' = Append(queue, 0),
         UNCHANGED <<stream, segs, hits, missed, owner, tickets, lock, view, late, due, born, made, flushes>>
  PROVE  ApplyInv'
<1>1. Head(pc[p])[1] \notin EndSteps
  BY DEF EndSteps
<1>2. /\ First(pc[p]) = Head(pc[p]) /\ Plan(pc'[p], pushed)
      /\ Follows(Head(pc[p]), First(pc'[p])) /\ Final(pc'[p]) = Final(pc[p])
      /\ DOMAIN pc' = Procs /\ \A q \in Procs : q # p => pc'[q] = pc[q]
  BY <1>1, Goes
<1>3. Plain(First(pc[p])) /\ Plain(First(pc'[p]))
  BY <1>2 DEF Follows, Plain
<1>4. /\ queue \in Seq(pushed \cup {0}) /\ lock' \in [Locks -> Procs \cup {None}] /\ lock' = lock
      /\ tickets' \in Seq(Shapes \cup {{"global"}}) /\ made' \in 0 .. MaxTickets
  BY DEF ApplyInv, Shared
<1>5. queue' \in Seq(pushed \cup {0})
  <2> DEFINE Q == pushed \cup {0}
  <2>1. queue \in Seq(Q) /\ 0 \in Q
    BY <1>4
  <2> HIDE DEF Q
  <2>2. Append(queue, 0) \in Seq(Q)
    BY <2>1, QueueOf
  <2> QED BY <2>1, <2>2 DEF Q
<1> QED BY <1>2, <1>3, <1>4, <1>5, PlainKept

\* The goroutine goes on to the events of the queue, or has done.
LEMMA MaybeEventsKept ==
  ASSUME ApplyInv, NEW p \in Procs, MaybeEvents(p)
  PROVE  ApplyInv'
<1>1. /\ pc[p] # <<>> /\ Head(pc[p])[1] = "maybeEvents"
      /\ Then(p, <<>>) \/ Then(p, <<Step("events")>>)
      /\ UNCHANGED <<stream, segs, hits, missed, queue, owner, tickets, lock, view, late, due, born, made, flushes>>
  <2>1. CASE tragedy
    BY <2>1 DEF MaybeEvents, At
  <2>2. CASE ~tragedy
    BY <2>2 DEF MaybeEvents, At
  <2> QED BY <2>1, <2>2
<1>2. First(pc[p]) = Head(pc[p]) /\ Tail(pc[p]) = <<>> /\ Final(pc[p]) = Head(pc[p])
  <2>1. Tail(pc[p]) # <<>> => Follows(Head(pc[p]), First(Tail(pc[p])))
    BY <1>1, Behind
  <2>2. Tail(pc[p]) = <<>>
    BY <1>1, <2>1 DEF Follows
  <2> QED BY <1>1, <2>2, Behind
<1>3. /\ Plan(pc'[p], pushed) /\ Plain(First(pc'[p])) /\ Final(pc'[p])[1] # "import"
      /\ DOMAIN pc' = Procs /\ \A q \in Procs : q # p => pc'[q] = pc[q]
  <2>1. CASE Then(p, <<>>)
    <3>1. /\ pc'[p] = <<>> /\ Plan(pc'[p], pushed)
          /\ DOMAIN pc' = Procs /\ \A q \in Procs : q # p => pc'[q] = pc[q]
      BY <1>1, <1>2, <2>1, Behind
    <3> QED BY <3>1 DEF First, Final, NoStep, Plain
  <2>2. CASE Then(p, <<Step("events")>>)
    <3> DEFINE a == Step("events")
    <3>1. StepOf(a, pushed) /\ a[1] # "tryWait" /\ a[1] \in EndSteps /\ Plain(a) /\ a[1] # "import"
      BY DEF Step, StepOf, EndSteps, AllSteps, PacketSteps, Plain
    <3>2. Then(p, <<a>>)
      BY <2>2
    <3> HIDE DEF a
    <3>3. /\ Plan(pc'[p], pushed) /\ First(pc'[p]) = a /\ Final(pc'[p]) = a
          /\ DOMAIN pc' = Procs /\ \A q \in Procs : q # p => pc'[q] = pc[q]
      BY <1>1, <1>2, <3>1, <3>2, Ahead
    <3> QED BY <3>1, <3>3
  <2> QED BY <1>1, <2>1, <2>2
<1>4. Plain(First(pc[p])) /\ Final(pc[p])[1] # "import"
  BY <1>1, <1>2 DEF Plain
<1>5. /\ queue' \in Seq(pushed \cup {0}) /\ lock' \in [Locks -> Procs \cup {None}] /\ lock' = lock
      /\ tickets' \in Seq(Shapes \cup {{"global"}}) /\ made' \in 0 .. MaxTickets
  BY <1>1 DEF ApplyInv, Shared
<1> QED BY <1>1, <1>3, <1>4, <1>5, PlainKept

\* An event is taken off the queue, or there is none.
LEMMA ProcessEventsKept ==
  ASSUME ApplyInv, NEW p \in Procs, ProcessEvents(p)
  PROVE  ApplyInv'
<1>1. /\ pc[p] # <<>> /\ Head(pc[p])[1] = "events"
      /\ UNCHANGED <<stream, segs, hits, missed, owner, tickets, lock, view, late, due, born, made, flushes>>
  BY DEF ProcessEvents, At
<1>2. /\ queue \in Seq(pushed \cup {0}) /\ lock' \in [Locks -> Procs \cup {None}] /\ lock' = lock
      /\ tickets' \in Seq(Shapes \cup {{"global"}}) /\ made' \in 0 .. MaxTickets
  BY <1>1 DEF ApplyInv, Shared
<1> DEFINE Q == pushed \cup {0}
<1>3. queue # <<>> => Tail(queue) \in Seq(Q) /\ Head(queue) \in Q
  <2>1. queue \in Seq(Q) /\ 0 \in Q
    BY <1>2
  <2> HIDE DEF Q
  <2> QED BY <2>1, QueueOf
<1>4. /\ First(pc[p]) = Head(pc[p]) /\ (Tail(pc[p]) = <<>> => Final(pc[p]) = Head(pc[p]))
      /\ (Tail(pc[p]) # <<>> => Follows(Head(pc[p]), First(Tail(pc[p]))))
      /\ (Tail(pc[p]) # <<>> => Final(Tail(pc[p])) = Final(pc[p]))
  BY <1>1, Behind
<1>5. CASE queue = <<>>
  <2>1. Then(p, <<>>) /\ queue' = queue
    BY <1>5 DEF ProcessEvents
  <2>2. /\ pc'[p] = Tail(pc[p]) /\ Plan(pc'[p], pushed)
        /\ DOMAIN pc' = Procs /\ \A q \in Procs : q # p => pc'[q] = pc[q]
    BY <1>1, <2>1, Behind
  <2>3. Plain(First(pc'[p])) /\ Plain(First(pc[p])) /\ (Final(pc'[p])[1] = "import" <=> Final(pc[p])[1] = "import")
    <3>1. CASE Tail(pc[p]) = <<>>
      BY <1>1, <1>4, <2>2, <3>1 DEF First, Final, NoStep, Plain
    <3>2. CASE Tail(pc[p]) # <<>>
      BY <1>1, <1>4, <2>2, <3>2 DEF Follows, Plain
    <3> QED BY <3>1, <3>2
  <2> QED BY <1>1, <1>2, <2>1, <2>2, <2>3, PlainKept
<1>6. CASE queue # <<>>
  <2>1. PICK a : /\ a = <<"forcePurge", 0>> \/ (a = <<"tryEvent", Head(queue)>> /\ Head(queue) # 0)
                 /\ Then(p, <<a, Step("events")>>)
    <3>1. CASE Head(queue) = 0
      BY <1>6, <3>1 DEF ProcessEvents, Step
    <3>2. CASE Head(queue) # 0
      BY <1>6, <3>2 DEF ProcessEvents
    <3> QED BY <3>1, <3>2
  <2>2. queue' \in Seq(Q)
    BY <1>3, <1>6 DEF ProcessEvents
  <2> DEFINE b == Step("events")
  <2>3. Head(queue) # 0 => Head(queue) \in pushed /\ Head(queue) \in Int
    BY <1>3, <1>6 DEF ApplyInv, Shared, Gens
  <2>4. StepOf(a, pushed) /\ a[1] # "tryWait" /\ Plain(a)
    BY <2>1, <2>3 DEF StepOf, AllSteps, PacketSteps, Plain
  <2>5. /\ StepOf(b, pushed) /\ b[1] # "tryWait" /\ b[1] \in EndSteps /\ b[1] # "import"
        /\ Follows(a, b)
    BY <2>1 DEF Step, StepOf, AllSteps, PacketSteps, EndSteps, Follows
  <2>6. Tail(pc[p]) # <<>> => Follows(b, First(Tail(pc[p])))
    BY <1>1, <1>4 DEF Follows, Step
  <2>7. Then(p, <<a, b>>)
    BY <2>1
  <2> HIDE DEF b
  <2>8. /\ Plan(pc'[p], pushed) /\ First(pc'[p]) = a
        /\ Tail(pc[p]) = <<>> => Final(pc'[p]) = b
        /\ Tail(pc[p]) # <<>> => Final(pc'[p]) = Final(pc[p])
        /\ DOMAIN pc' = Procs /\ \A q \in Procs : q # p => pc'[q] = pc[q]
    BY <1>1, <2>4, <2>5, <2>6, <2>7, AheadTwo
  <2>9. Plain(First(pc'[p])) /\ Plain(First(pc[p])) /\ (Final(pc'[p])[1] = "import" <=> Final(pc[p])[1] = "import")
    BY <1>1, <1>4, <2>4, <2>5, <2>8 DEF Plain
  <2> QED BY <1>1, <1>2, <2>2, <2>8, <2>9, PlainKept
<1> QED BY <1>5, <1>6

-----------------------------------------------------------------------------
(* Publishing.                                                             *)

\* The generations there are for the tickets, as the goroutine that publishes
\* counts them.
Room(p) ==
  /\ ~Busy(pc[p]) => nextGen - 1 + 2 * Len(tickets) <= 2 * made
  /\ Busy(pc[p]) => tickets # <<>> /\ nextGen - 1 + Owed(pc[p]) + 2 * (Len(tickets) - 1) <= 2 * made

\* Only one goroutine publishes.
LEMMA RoomOf ==
  ASSUME ApplyInv, NEW p \in Procs, lock["purgeMu"] = p \/ lock["purgeMu"] = None
  PROVE  Room(p)
<1>1. \A q \in Procs : q # p => ~Busy(pc[q])
  BY OneBusy
<1>2. Budget
  BY DEF ApplyInv
<1>3. CASE Busy(pc[p])
  BY <1>2, <1>3 DEF Budget, Room
<1>4. CASE ~Busy(pc[p])
  BY <1>1, <1>2, <1>4 DEF Budget, Room
<1> QED BY <1>3, <1>4

\* The goroutine that publishes takes a step.
LEMMA PublishKept ==
  ASSUME ApplyInv, NEW p \in Procs, lock["purgeMu"] = p \/ lock["purgeMu"] = None,
         lock'["purgeMu"] = p \/ lock'["purgeMu"] = None,
         Shared', pushed \subseteq pushed', segs \subseteq segs',
         UNCHANGED <<hits, missed, owner, view, late, due, born, flushes>>,
         \A q \in Procs : q # p => pc'[q] = pc[q],
         Plan(pc'[p], pushed'), ~InWait(pc'[p]),
         \A g \in Gens : ~Holds(pc[p], g) /\ ~Holds(pc'[p], g),
         lock'["purgeMu"] = p <=> Purging(pc'[p]),
         Final(pc'[p])[1] = "import" <=> Final(pc[p])[1] = "import",
         Room(p)'
  PROVE  ApplyInv'
<1>1. Local(p)
  BY DEF ApplyInv
<1>2. late'[p] \in Seq(pushed')
  BY <1>1, SeqGrows DEF Local
<1>3. Local(p)'
  BY <1>1, <1>2 DEF Local
<1>4. Moves(p)
  BY NoneAssumption DEF Moves, Shared
<1>5. \A q \in Procs : Local(q)'
  BY <1>3, <1>4, OthersKept
<1>6. \A q \in Procs : q # p => ~Busy(pc'[q])
  BY OneBusy
<1>7. Budget'
  <2>1. (\A q \in Procs : ~Busy(pc'[q])) => nextGen' - 1 + 2 * Len(tickets') <= 2 * made'
    BY DEF Room
  <2>2. ASSUME NEW q \in Procs, Busy(pc'[q])
        PROVE  tickets' # <<>> /\ nextGen' - 1 + Owed(pc'[q]) + 2 * (Len(tickets') - 1) <= 2 * made'
    <3>1. q = p
      BY <1>6, <2>2
    <3> QED BY <2>2, <3>1 DEF Room
  <2> QED BY <2>1, <2>2 DEF Budget
<1>8. Imports'
  BY ImportsKept
<1> QED BY <1>5, <1>7, <1>8 DEF ApplyInv

\* What a goroutine with a ticket in hand or about to take one does not do.
LEMMA Publishing ==
  ASSUME NEW k, First(k)[1] \in {"publish", "pop", "push", "pushPrivate", "nextGen", "addSegment"}
                \/ (First(k)[1] = "addEvent" /\ First(k)[2] # 0)
  PROVE  /\ Purging(k) /\ ~InWait(k) /\ \A g : ~Holds(k, g)
         /\ Busy(k) <=> First(k)[1] # "publish"
  BY DEF Purging, Busy, InWait, Holds, GenSteps

\* Behind the last generation of a ticket there is none.
LEMMA OwedOf ==
  ASSUME NEW P, NEW k, Plan(k, P)
  PROVE  /\ One(First(k)) \in {0, 1} /\ One(Second(k)) \in {0, 1} /\ Owed(k) = One(First(k)) + One(Second(k))
         /\ First(k)[1] \in {"pushPrivate", "nextGen", "addSegment", "pop"} => One(Second(k)) = 0
<1>1. /\ One(First(k)) \in {0, 1} /\ One(Second(k)) \in {0, 1} /\ Owed(k) = One(First(k)) + One(Second(k))
  BY DEF One, Owed
<1>2. ASSUME First(k)[1] \in {"pushPrivate", "nextGen", "addSegment", "pop"} PROVE One(Second(k)) = 0
  <2>1. k # <<>>
    BY <1>2 DEF First, NoStep
  <2>2. /\ First(k) = Head(k) /\ Second(k) = First(Tail(k))
        /\ Tail(k) # <<>> => Follows(Head(k), First(Tail(k)))
    BY <2>1, PlanTail
  <2>3. CASE Tail(k) = <<>>
    BY <2>2, <2>3 DEF First, NoStep, One, GenSteps
  <2>4. CASE Tail(k) # <<>>
    <3>1. Second(k)[1] \in {"pop", "events", "maybeEvents"}
      BY <1>2, <2>2, <2>4 DEF Follows
    <3> QED BY <3>1 DEF One, GenSteps
  <2> QED BY <2>3, <2>4
<1> QED BY <1>1, <1>2

\* The step of a goroutine that publishes: it holds purgeMu.
LEMMA AtPublish ==
  ASSUME ApplyInv, NEW p \in Procs, pc[p] # <<>>,
         Head(pc[p])[1] \in {"publish", "pop", "push", "pushPrivate", "nextGen", "addSegment"}
         \/ (Head(pc[p])[1] = "addEvent" /\ Head(pc[p])[2] # 0)
  PROVE  /\ lock["purgeMu"] = p /\ Room(p) /\ First(pc[p]) = Head(pc[p])
         /\ \A g : ~Holds(pc[p], g)
         /\ Busy(pc[p]) <=> Head(pc[p])[1] # "publish"
         /\ Tail(pc[p]) # <<>> /\ Follows(Head(pc[p]), First(Tail(pc[p])))
         /\ Second(pc[p]) = First(Tail(pc[p])) /\ StepOf(Head(pc[p]), pushed)
<1>1. /\ First(pc[p]) = Head(pc[p]) /\ Second(pc[p]) = First(Tail(pc[p])) /\ StepOf(Head(pc[p]), pushed)
      /\ Tail(pc[p]) = <<>> => Head(pc[p])[1] \in EndSteps
      /\ Tail(pc[p]) # <<>> => Follows(Head(pc[p]), First(Tail(pc[p])))
  BY Behind
<1>2. Tail(pc[p]) # <<>>
  BY <1>1 DEF EndSteps
<1>3. Purging(pc[p]) /\ (\A g : ~Holds(pc[p], g)) /\ (Busy(pc[p]) <=> Head(pc[p])[1] # "publish")
  BY <1>1, Publishing
<1>4. lock["purgeMu"] = p
  BY <1>3 DEF ApplyInv, Local
<1> QED BY <1>1, <1>2, <1>3, <1>4, RoomOf

\* The types of the state, when only the steps and the locks change.
LEMMA TypesKept ==
  ASSUME ApplyInv, UNCHANGED <<stream, segs, hits, missed, queue, tickets, born, made, flushes>>,
         owner' \in [Gens -> Procs \cup {None}], lock' \in [Locks -> Procs \cup {None}],
         DOMAIN pc' = Procs, DOMAIN view' = Procs, DOMAIN late' = Procs, DOMAIN due' = Procs
  PROVE  Shared'
  BY DEF ApplyInv, Shared, stream

\* purgeMu is taken, or it is held by another goroutine.
LEMMA PurgeKept ==
  ASSUME ApplyInv, NEW p \in Procs, Purge(p)
  PROVE  ApplyInv'
<1>1. /\ pc[p] # <<>> /\ Head(pc[p])[1] \in {"forcePurge", "tryPurge"}
      /\ UNCHANGED <<stream, segs, hits, missed, queue, owner, tickets, view, late, due, born, made, flushes>>
  BY DEF Purge, At
<1>2. CASE lock["purgeMu"] # None
  <2>1. lock' = lock /\ Then(p, <<>>) /\ Head(pc[p])[1] = "tryPurge"
    BY <1>2 DEF Purge, At
  <2> QED BY <1>1, <2>1, PassedKept
<1>3. CASE lock["purgeMu"] = None
  <2>1. lock' = [lock EXCEPT !["purgeMu"] = p] /\ Then(p, <<Step("publish")>>)
    BY <1>3 DEF Purge
  <2>2. lock'["purgeMu"] = p /\ lock' \in [Locks -> Procs \cup {None}]
    BY <2>1 DEF ApplyInv, Shared, Locks
  <2>3. /\ First(pc[p]) = Head(pc[p])
        /\ Tail(pc[p]) = <<>> => Head(pc[p])[1] \in EndSteps
        /\ Tail(pc[p]) # <<>> => Follows(Head(pc[p]), First(Tail(pc[p])))
    BY <1>1, Behind
  <2>4. Tail(pc[p]) # <<>> /\ First(Tail(pc[p]))[1] \in {"events", "maybeEvents"}
    BY <1>1, <2>3 DEF EndSteps, Follows
  <2> DEFINE a == Step("publish")
  <2>5. StepOf(a, pushed) /\ a[1] = "publish" /\ Follows(a, First(Tail(pc[p]))) /\ Then(p, <<a>>)
    BY <2>1, <2>4 DEF Step, StepOf, AllSteps, PacketSteps, Follows
  <2> HIDE DEF a
  <2>6. /\ Plan(pc'[p], pushed) /\ First(pc'[p]) = a /\ Final(pc'[p]) = Final(pc[p])
        /\ DOMAIN pc' = Procs /\ \A q \in Procs : q # p => pc'[q] = pc[q]
    BY <1>1, <2>4, <2>5, Ahead
  <2>7. Purging(pc'[p]) /\ ~InWait(pc'[p]) /\ ~Busy(pc'[p]) /\ \A g : ~Holds(pc'[p], g)
    BY <2>5, <2>6, Publishing
  <2>8. ~Busy(pc[p]) /\ \A g : ~Holds(pc[p], g)
    <3>1. Plain(First(pc[p]))
      BY <1>1, <2>3 DEF Plain
    <3> QED BY <3>1, PlainStep
  <2>9. Room(p)'
    <3>1. Room(p)
      BY <1>3, RoomOf
    <3> QED BY <1>1, <2>7, <2>8, <3>1 DEF Room, stream
  <2>10. Shared'
    <3>1. /\ DOMAIN view' = Procs /\ DOMAIN late' = Procs /\ DOMAIN due' = Procs
          /\ owner' \in [Gens -> Procs \cup {None}]
      BY <1>1 DEF ApplyInv, Shared
    <3> QED BY <1>1, <2>2, <2>6, <3>1, TypesKept
  <2>11. pushed' = pushed /\ segs' = segs
    BY <1>1 DEF stream
  <2> QED BY <1>1, <1>3, <2>2, <2>6, <2>7, <2>8, <2>9, <2>10, <2>11, PublishKept
<1> QED BY <1>2, <1>3

\* Four pieces put together from the left and from the right.
FromLeft(x, y, z, k)  == ((x \o y) \o z) \o k
FromRight(x, y, z, k) == x \o (y \o (z \o k))

\* The two groupings are the same sequence.
LEMMA Grouped ==
  ASSUME NEW A, NEW x \in Seq(A), NEW y \in Seq(A), NEW z \in Seq(A), NEW k \in Seq(A)
  PROVE  FromLeft(x, y, z, k) = FromRight(x, y, z, k)
<1>1. ASSUME NEW w \in Seq(A) PROVE (w \o z) \o k = w \o (z \o k)
  BY ConcatAssociative, SMTT(30)
<1>2. ASSUME NEW w \in Seq(A) PROVE (x \o y) \o w = x \o (y \o w)
  BY ConcatAssociative, SMTT(30)
<1>3. x \o y \in Seq(A)
  BY ConcatProperties
<1>4. z \o k \in Seq(A)
  BY ConcatProperties
<1> QED BY <1>1, <1>2, <1>3, <1>4, Zenon DEF FromLeft, FromRight

\* The steps that publish a ticket, in front of the rest of a purge.
Published(t, k) == (TicketSteps(t) \o <<Step("pop")>>) \o k

\* They leave the purge a legal plan with the same end.
LEMMA TicketPlan ==
  ASSUME NEW P, NEW k, Plan(k, P), k # <<>>, First(k)[1] \in {"events", "maybeEvents"},
         NEW t, NEW c, c = Published(t, k)
  PROVE  /\ Plan(c, P) /\ Final(c) = Final(k)
         /\ First(c)[1] \in {"push", "pushPrivate", "nextGen", "pop"}
<1> DEFINE A == AllSteps \X Int
           x == IF "global" \in t THEN <<Step("push")>> ELSE <<>>
           y == IF "private" \in t THEN <<Step("pushPrivate")>>
                ELSE IF "seg" \in t THEN <<Step("nextGen")>> ELSE <<>>
           z == <<Step("pop")>>
<1>1. x = <<Step("push")>> \/ x = <<>>
  OBVIOUS
<1>2. y = <<Step("pushPrivate")>> \/ y = <<Step("nextGen")>> \/ y = <<>>
  OBVIOUS
<1>3. TicketSteps(t) = x \o y
  BY Zenon DEF TicketSteps
<1>4. /\ Step("push") \in A /\ Step("pushPrivate") \in A /\ Step("nextGen") \in A /\ Step("pop") \in A
      /\ k \in Seq(A)
  BY DEF Step, AllSteps, Plan
<1> HIDE DEF A, x, y
<1>5. x \in Seq(A) /\ y \in Seq(A) /\ z \in Seq(A)
  <2>1. \A a \in A : <<a>> \in Seq(A)
    OBVIOUS
  <2>2. <<>> \in Seq(A)
    OBVIOUS
  <2>3. z \in Seq(A)
    BY <1>4, <2>1, Zenon
  <2>4. x \in Seq(A)
    BY <1>1, <1>4, <2>1, <2>2, Zenon
  <2>5. y \in Seq(A)
    BY <1>2, <1>4, <2>1, <2>2, Zenon
  <2> QED BY <2>3, <2>4, <2>5
<1> HIDE DEF z
<1>6. c = x \o (y \o (z \o k))
  <2>1. FromLeft(x, y, z, k) = FromRight(x, y, z, k)
    BY <1>4, <1>5, Grouped
  <2>2. c = FromLeft(x, y, z, k)
    BY <1>3, Zenon DEF z, FromLeft, Published
  <2> QED BY <2>1, <2>2, Zenon DEF FromRight
<1>7. /\ StepOf(Step("push"), P) /\ StepOf(Step("pushPrivate"), P) /\ StepOf(Step("nextGen"), P)
      /\ StepOf(Step("pop"), P)
  BY DEF StepOf, Step, AllSteps, PacketSteps
<1> DEFINE e == z \o k
<1>8. Plan(e, P) /\ e # <<>> /\ First(e) = Step("pop") /\ Final(e) = Final(k)
  <2>1. e = Before(Step("pop"), k)
    BY Zenon DEF Before, z
  <2>2. Follows(Step("pop"), First(k)) /\ Step("pop")[1] # "tryWait"
    BY DEF Follows, Step
  <2> HIDE DEF e
  <2> QED BY <1>7, <2>1, <2>2, PlanCons
<1> HIDE DEF e
<1> DEFINE d == y \o e
<1>9. e \in Seq(A)
  BY <1>8 DEF Plan, A
<1>10. Plan(d, P) /\ d # <<>> /\ First(d)[1] \in {"pushPrivate", "nextGen", "pop"} /\ Final(d) = Final(k)
  <2>1. CASE y = <<>>
    <3>1. <<>> \o e = e
      BY <1>9, ConcatEmptySeq
    <3>2. d = e
      BY <2>1, <3>1, Zenon
    <3> QED BY <1>8, <3>2 DEF Step
  <2>2. ASSUME NEW s \in {"pushPrivate", "nextGen"}, y = <<Step(s)>>
        PROVE  Plan(d, P) /\ d # <<>> /\ First(d)[1] \in {"pushPrivate", "nextGen", "pop"} /\ Final(d) = Final(k)
    <3>1. d = Before(Step(s), e)
      BY <2>2, Zenon DEF Before
    <3>2. Follows(Step(s), First(e)) /\ Step(s)[1] = s /\ s # "tryWait"
      BY <1>8 DEF Follows, Step
    <3>3. StepOf(Step(s), P)
      BY <1>7
    <3> HIDE DEF d
    <3>4. Plan(d, P) /\ d # <<>> /\ First(d) = Step(s) /\ Final(d) = Final(e)
      BY <1>8, <3>1, <3>2, <3>3, PlanCons
    <3> QED BY <1>8, <3>2, <3>4
  <2> HIDE DEF d
  <2> QED BY <1>2, <2>1, <2>2
<1>11. c = x \o d
  BY <1>6 DEF e
<1> HIDE DEF d
<1>12. d \in Seq(A)
  BY <1>10 DEF Plan, A
<1>13. CASE x = <<>>
  <2>1. <<>> \o d = d
    BY <1>12, ConcatEmptySeq
  <2>2. c = d
    BY <1>11, <1>13, <2>1, Zenon
  <2> QED BY <1>10, <2>2
<1>14. CASE x = <<Step("push")>>
  <2>1. c = Before(Step("push"), d)
    BY <1>11, <1>14, Zenon DEF Before
  <2>2. Follows(Step("push"), First(d)) /\ Step("push")[1] = "push"
    BY <1>10 DEF Follows, Step
  <2>3. Plan(c, P) /\ First(c) = Step("push") /\ Final(c) = Final(d)
    <3> DEFINE a == Step("push")
               m == Before(a, d)
    <3>1. StepOf(a, P) /\ m = Before(a, d) /\ Follows(a, First(d)) /\ a[1] # "tryWait"
      BY <1>7, <2>2
    <3> HIDE DEF a, m
    <3>2. Plan(m, P) /\ First(m) = a /\ Final(m) = Final(d)
      BY <1>10, <3>1, PlanCons
    <3> QED BY <2>1, <3>2, Zenon DEF a, m
  <2> QED BY <1>10, <2>2, <2>3
<1> QED BY <1>1, <1>13, <1>14

\* The head of the ticket queue is taken in hand, or the purge is over.
LEMMA PublishHeadKept ==
  ASSUME ApplyInv, NEW p \in Procs, PublishHead(p)
  PROVE  ApplyInv'
<1>1. /\ pc[p] # <<>> /\ Head(pc[p])[1] = "publish"
      /\ UNCHANGED <<stream, segs, hits, missed, queue, owner, tickets, view, late, due, born, made, flushes>>
  BY DEF PublishHead, At
<1>2. /\ lock["purgeMu"] = p /\ Room(p) /\ First(pc[p]) = Head(pc[p])
      /\ \A g : ~Holds(pc[p], g)
      /\ ~Busy(pc[p])
      /\ Tail(pc[p]) # <<>> /\ Follows(Head(pc[p]), First(Tail(pc[p])))
  BY <1>1, AtPublish
<1>3. First(Tail(pc[p]))[1] \in {"events", "maybeEvents"}
  BY <1>1, <1>2 DEF Follows
<1>4. Plan(Tail(pc[p]), pushed) /\ Final(Tail(pc[p])) = Final(pc[p])
  BY <1>1, <1>2, Advance, Zenon
<1>5. /\ DOMAIN view' = Procs /\ DOMAIN late' = Procs /\ DOMAIN due' = Procs
      /\ owner' \in [Gens -> Procs \cup {None}] /\ pushed' = pushed /\ segs' = segs
      /\ nextGen' = nextGen /\ tickets' = tickets /\ made' = made
      /\ nextGen \in Int /\ made \in Int /\ Len(tickets) \in Nat /\ lock \in [Locks -> Procs \cup {None}]
  BY <1>1 DEF ApplyInv, Shared, stream
<1>6. CASE tickets = <<>>
  <2>1. Then(p, <<>>) /\ lock' = [lock EXCEPT !["purgeMu"] = None]
    BY <1>6 DEF PublishHead
  <2>2. lock'["purgeMu"] = None /\ lock' \in [Locks -> Procs \cup {None}]
    BY <1>5, <2>1 DEF Locks
  <2>3. pc'[p] = Tail(pc[p]) /\ DOMAIN pc' = Procs /\ \A q \in Procs : q # p => pc'[q] = pc[q]
    BY <1>1, <2>1, Behind
  <2>4. ~Purging(pc'[p]) /\ ~Busy(pc'[p]) /\ ~InWait(pc'[p]) /\ \A g : ~Holds(pc'[p], g)
    <3>1. Plain(First(pc'[p]))
      BY <1>3, <2>3 DEF Plain
    <3> QED BY <3>1, PlainStep
  <2>5. Shared'
    BY <1>1, <1>5, <2>2, <2>3, TypesKept
  <2>6. Room(p)'
    BY <1>2, <1>5, <2>4 DEF Room
  <2>7. lock'["purgeMu"] # p
    BY <2>2, NoneAssumption
  <2> QED BY <1>1, <1>2, <1>4, <1>5, <2>2, <2>3, <2>4, <2>5, <2>6, <2>7, PublishKept
<1>7. CASE tickets # <<>>
  <2>1. Then(p, TicketSteps(Head(tickets)) \o <<Step("pop")>>) /\ lock' = lock
    BY <1>7 DEF PublishHead
  <2>2. /\ pc'[p] = (TicketSteps(Head(tickets)) \o <<Step("pop")>>) \o Tail(pc[p])
        /\ DOMAIN pc' = Procs /\ \A q \in Procs : q # p => pc'[q] = pc[q]
    BY <1>1, <2>1, Given, Zenon
  <2>3. /\ Plan(pc'[p], pushed) /\ Final(pc'[p]) = Final(Tail(pc[p]))
        /\ First(pc'[p])[1] \in {"push", "pushPrivate", "nextGen", "pop"}
    <3> DEFINE k == Tail(pc[p])
               t == Head(tickets)
               c == pc'[p]
    <3>1. c = Published(t, k)
      BY <2>2, Zenon DEF Published
    <3>2. Plan(k, pushed) /\ k # <<>> /\ First(k)[1] \in {"events", "maybeEvents"}
      BY <1>2, <1>3, <1>4
    <3> HIDE DEF k, t, c
    <3>3. /\ Plan(c, pushed) /\ Final(c) = Final(k)
          /\ First(c)[1] \in {"push", "pushPrivate", "nextGen", "pop"}
      BY <3>1, <3>2, TicketPlan
    <3> QED BY <3>3 DEF c, k
  <2>4. Purging(pc'[p]) /\ ~InWait(pc'[p]) /\ Busy(pc'[p]) /\ \A g : ~Holds(pc'[p], g)
    BY <2>3, Publishing
  <2>5. Shared'
    BY <1>1, <1>5, <2>1, <2>2, TypesKept
  <2>6. Room(p)'
    <3>1. Owed(pc'[p]) \in {0, 1, 2}
      BY <2>3, OwedOf
    <3>2. nextGen - 1 + 2 * Len(tickets) <= 2 * made
      BY <1>2 DEF Room
    <3>3. nextGen' - 1 + Owed(pc'[p]) + 2 * (Len(tickets') - 1) <= 2 * made'
      BY <1>5, <3>1, <3>2
    <3> QED BY <1>5, <1>7, <2>4, <3>3 DEF Room
  <2> QED BY <1>1, <1>2, <1>4, <1>5, <2>1, <2>2, <2>3, <2>4, <2>5, <2>6, PublishKept
<1> QED BY <1>6, <1>7

\* A ticket that was published leaves the queue.
LEMMA PopTicketKept ==
  ASSUME ApplyInv, NEW p \in Procs, PopTicket(p)
  PROVE  ApplyInv'
<1>1. /\ pc[p] # <<>> /\ Head(pc[p])[1] = "pop" /\ tickets' = Tail(tickets) /\ Then(p, <<Step("publish")>>)
      /\ UNCHANGED <<stream, segs, hits, missed, queue, owner, lock, view, late, due, born, made, flushes>>
  BY DEF PopTicket, At
<1>2. /\ lock["purgeMu"] = p /\ Room(p) /\ First(pc[p]) = Head(pc[p])
      /\ \A g : ~Holds(pc[p], g)
      /\ Busy(pc[p])
      /\ Tail(pc[p]) # <<>> /\ Follows(Head(pc[p]), First(Tail(pc[p])))
  BY <1>1, AtPublish
<1> DEFINE a == Step("publish")
<1>3. StepOf(a, pushed) /\ a[1] = "publish" /\ Follows(a, First(Tail(pc[p]))) /\ Then(p, <<a>>)
  BY <1>1, <1>2 DEF Step, StepOf, AllSteps, PacketSteps, Follows
<1> HIDE DEF a
<1>4. /\ Plan(pc'[p], pushed) /\ First(pc'[p]) = a /\ Final(pc'[p]) = Final(pc[p])
      /\ DOMAIN pc' = Procs /\ \A q \in Procs : q # p => pc'[q] = pc[q]
  BY <1>1, <1>2, <1>3, Ahead
<1>5. Purging(pc'[p]) /\ ~InWait(pc'[p]) /\ ~Busy(pc'[p]) /\ \A g : ~Holds(pc'[p], g)
  BY <1>3, <1>4, Publishing
<1>6. /\ nextGen' = nextGen /\ made' = made /\ pushed' = pushed /\ segs' = segs /\ lock' = lock
      /\ nextGen \in Int /\ made \in Int /\ tickets \in Seq(Shapes \cup {{"global"}})
  BY <1>1 DEF ApplyInv, Shared, stream
<1>7. tickets # <<>> /\ nextGen - 1 + Owed(pc[p]) + 2 * (Len(tickets) - 1) <= 2 * made
  BY <1>2 DEF Room
<1>8. tickets' \in Seq(Shapes \cup {{"global"}}) /\ Len(tickets') = Len(tickets) - 1 /\ Len(tickets) \in Nat
  <2> DEFINE A == Shapes \cup {{"global"}}
  <2>1. tickets \in Seq(A)
    BY <1>6
  <2> HIDE DEF A
  <2>2. Tail(tickets) \in Seq(A) /\ Len(Tail(tickets)) = Len(tickets) - 1 /\ Len(tickets) \in Nat
    BY <1>7, <2>1, TailOf
  <2> QED BY <1>1, <2>2 DEF A
<1>9. Room(p)'
  <2>1. Owed(pc[p]) \in Nat
    BY DEF Owed, One
  <2>2. nextGen' - 1 + 2 * Len(tickets') <= 2 * made'
    BY <1>6, <1>7, <1>8, <2>1
  <2> QED BY <1>5, <2>2 DEF Room
<1>10. Shared'
  BY <1>1, <1>4, <1>8 DEF ApplyInv, Shared, stream
<1> QED BY <1>1, <1>2, <1>4, <1>5, <1>6, <1>9, <1>10, PublishKept

\* There is a generation left for the ticket in hand.
LEMMA GenLeft ==
  ASSUME ApplyInv, NEW p \in Procs, Room(p), Busy(pc[p]), One(First(pc[p])) = 1
  PROVE  nextGen \in Gens /\ nextGen # 0
<1>1. /\ nextGen \in Nat \ {0} /\ made \in 0 .. MaxTickets /\ tickets \in Seq(Shapes \cup {{"global"}})
  BY DEF ApplyInv, Shared
<1>2. tickets # <<>> /\ nextGen - 1 + Owed(pc[p]) + 2 * (Len(tickets) - 1) <= 2 * made
  BY DEF Room
<1>3. Len(tickets) \in Nat \ {0}
  BY <1>1, <1>2, NoElements
<1>4. Owed(pc[p]) \in {1, 2}
  BY DEF Owed, One
<1>5. nextGen <= 2 * MaxTickets
  BY <1>1, <1>2, <1>3, <1>4, BoundAssumption
<1> QED BY <1>1, <1>5, BoundAssumption DEF Gens

\* A packet is pushed to the stream, or a segment without one is given a
\* generation.
LEMMA GenKept ==
  ASSUME ApplyInv, NEW p \in Procs, pc[p] # <<>>, Head(pc[p])[1] \in GenSteps,
         nextGen' = nextGen + 1, pushed' = pushed \/ pushed' = pushed \cup {nextGen},
         updates' = pushed', private' \subseteq pushed',
         UNCHANGED <<segs, hits, missed, queue, owner, tickets, lock, view, late, due, born, made, flushes>>,
         DOMAIN pc' = Procs, \A q \in Procs : q # p => pc'[q] = pc[q],
         Plan(pc'[p], pushed'), Final(pc'[p]) = Final(pc[p]), Owed(pc'[p]) <= Owed(pc[p]) - 1,
         \/ First(pc'[p])[1] = "addSegment"
         \/ First(pc'[p])[1] = "addEvent" /\ First(pc'[p])[2] # 0
  PROVE  ApplyInv'
<1>1. /\ lock["purgeMu"] = p /\ Room(p) /\ First(pc[p]) = Head(pc[p]) /\ Busy(pc[p])
      /\ \A g : ~Holds(pc[p], g)
  BY AtPublish DEF GenSteps
<1>2. nextGen \in Gens
  BY <1>1, GenLeft DEF One
<1>3. Purging(pc'[p]) /\ ~InWait(pc'[p]) /\ Busy(pc'[p]) /\ \A g : ~Holds(pc'[p], g)
  BY Publishing
<1>4. Shared'
  <2>1. Shared
    BY DEF ApplyInv
  <2>2. \A g \in pushed' : g \in Gens
    BY <1>2, <2>1 DEF Shared
  <2>3. queue' \in Seq(pushed' \cup {0})
    <3>1. queue \in Seq(pushed \cup {0}) /\ pushed \cup {0} \subseteq pushed' \cup {0}
      BY <2>1 DEF Shared
    <3> QED BY <3>1, SeqGrows
  <2>4. nextGen' \in Nat \ {0}
    BY <2>1 DEF Shared
  <2> QED BY <2>1, <2>2, <2>3, <2>4 DEF Shared
<1>5. Room(p)'
  <2>1. nextGen \in Int /\ made \in Int /\ Len(tickets) \in Nat
    BY DEF ApplyInv, Shared
  <2>2. tickets # <<>> /\ nextGen - 1 + Owed(pc[p]) + 2 * (Len(tickets) - 1) <= 2 * made
    BY <1>1 DEF Room
  <2>3. Owed(pc[p]) \in Int /\ Owed(pc'[p]) \in Int
    BY DEF Owed, One
  <2>4. nextGen' - 1 + Owed(pc'[p]) + 2 * (Len(tickets') - 1) <= 2 * made'
    BY <2>1, <2>2, <2>3
  <2> QED BY <1>3, <2>2, <2>4 DEF Room
<1>6. lock'["purgeMu"] = p /\ segs' = segs /\ pushed \subseteq pushed'
  BY <1>1
<1> QED BY <1>1, <1>3, <1>4, <1>5, <1>6, PublishKept

\* A packet is pushed.
LEMMA PushKept ==
  ASSUME ApplyInv, NEW p \in Procs, Push(p)
  PROVE  ApplyInv'
<1>1. /\ pc[p] # <<>> /\ Head(pc[p])[1] \in {"push", "pushPrivate"}
      /\ nextGen' = nextGen + 1
      /\ updates' = updates \cup {nextGen} /\ pushed' = pushed \cup {nextGen}
      /\ UNCHANGED <<segs, hits, missed, queue, owner, tickets, lock, view, late, due, born, made, flushes>>
  BY DEF Push, At
<1>2. /\ Room(p) /\ First(pc[p]) = Head(pc[p]) /\ Busy(pc[p])
      /\ Tail(pc[p]) # <<>> /\ Follows(Head(pc[p]), First(Tail(pc[p])))
      /\ Second(pc[p]) = First(Tail(pc[p]))
  BY <1>1, AtPublish
<1>3. One(First(pc[p])) = 1 /\ One(Second(pc[p])) \in {0, 1} /\ Owed(pc[p]) = 1 + One(Second(pc[p]))
  BY <1>1, <1>2 DEF One, GenSteps, Owed
<1>4. nextGen \in Gens /\ nextGen # 0 /\ nextGen \in Int
  BY <1>2, <1>3, GenLeft DEF Gens
<1>5. updates = pushed /\ private \subseteq pushed
  BY DEF ApplyInv, Shared
<1> DEFINE a == <<"addEvent", nextGen>>
           b == <<"addSegment", nextGen>>
<1>6. StepOf(a, pushed') /\ a[1] = "addEvent" /\ a[2] # 0
  BY <1>1, <1>4 DEF StepOf, AllSteps, PacketSteps
<1>7. StepOf(b, pushed') /\ b[1] = "addSegment" /\ Follows(a, b)
  BY <1>1, <1>4 DEF StepOf, AllSteps, PacketSteps, Follows
<1>8. One(a) = 0 /\ One(b) = 0
  BY DEF One, GenSteps
<1>9. CASE Head(pc[p])[1] = "push"
  <2>1. Then(p, <<a>>) /\ private' = private
    BY <1>1, <1>9 DEF Push, At
  <2>2. Follows(a, First(Tail(pc[p])))
    BY <1>2, <1>6, <1>9 DEF Follows
  <2> HIDE DEF a
  <2>3. /\ Plan(pc'[p], pushed') /\ First(pc'[p]) = a /\ Second(pc'[p]) = First(Tail(pc[p]))
        /\ Final(pc'[p]) = Final(pc[p])
        /\ DOMAIN pc' = Procs /\ \A q \in Procs : q # p => pc'[q] = pc[q]
    <3>1. pushed \subseteq pushed' /\ a[1] # "tryWait"
      BY <1>1, <1>6
    <3> QED BY <1>1, <1>2, <1>6, <2>1, <2>2, <3>1, Ahead
  <2>4. Owed(pc'[p]) <= Owed(pc[p]) - 1
    <3>1. Owed(pc'[p]) = One(Second(pc[p]))
      BY <1>2, <1>3, <1>8, <2>3 DEF Owed
    <3> QED BY <1>3, <3>1
  <2>5. Head(pc[p])[1] \in GenSteps /\ private' \subseteq pushed' /\ updates' = pushed'
    BY <1>1, <1>5, <2>1 DEF GenSteps
  <2>6. First(pc'[p])[1] = "addEvent" /\ First(pc'[p])[2] # 0
    BY <1>6, <2>3
  <2> QED BY <1>1, <2>3, <2>4, <2>5, <2>6, GenKept
<1>10. CASE Head(pc[p])[1] = "pushPrivate"
  <2>1. Then(p, <<a, b>>) /\ private' = private \cup {nextGen}
    BY <1>1, <1>10 DEF Push, At
  <2>2. Follows(b, First(Tail(pc[p])))
    BY <1>2, <1>7, <1>10 DEF Follows
  <2> HIDE DEF a, b
  <2>3. /\ Plan(pc'[p], pushed') /\ First(pc'[p]) = a /\ Second(pc'[p]) = b
        /\ Final(pc'[p]) = Final(pc[p])
        /\ DOMAIN pc' = Procs /\ \A q \in Procs : q # p => pc'[q] = pc[q]
    <3>1. pushed \subseteq pushed' /\ a[1] # "tryWait" /\ b[1] # "tryWait"
      BY <1>1, <1>6, <1>7
    <3> QED BY <1>1, <1>2, <1>6, <1>7, <2>1, <2>2, <3>1, AheadTwo
  <2>4. Owed(pc'[p]) <= Owed(pc[p]) - 1
    <3>1. Owed(pc'[p]) = 0
      BY <1>8, <2>3 DEF Owed
    <3> QED BY <1>3, <3>1
  <2>5. Head(pc[p])[1] \in GenSteps /\ private' \subseteq pushed' /\ updates' = pushed'
    BY <1>1, <1>5, <2>1 DEF GenSteps
  <2>6. First(pc'[p])[1] = "addEvent" /\ First(pc'[p])[2] # 0
    BY <1>6, <2>3
  <2> QED BY <1>1, <2>3, <2>4, <2>5, <2>6, GenKept
<1> QED BY <1>1, <1>9, <1>10

\* A generation for a segment without a packet.
LEMMA NextGenKept ==
  ASSUME ApplyInv, NEW p \in Procs, NextGen(p)
  PROVE  ApplyInv'
<1> DEFINE a == <<"addSegment", nextGen>>
<1>1. /\ pc[p] # <<>> /\ Head(pc[p])[1] = "nextGen" /\ nextGen' = nextGen + 1 /\ Then(p, <<a>>)
      /\ UNCHANGED <<updates, pushed, private, segs, hits, missed, queue, owner, tickets, lock, view, late, due,
                     born, made, flushes>>
  BY DEF NextGen, At
<1>2. /\ Room(p) /\ First(pc[p]) = Head(pc[p]) /\ Busy(pc[p])
      /\ Tail(pc[p]) # <<>> /\ Follows(Head(pc[p]), First(Tail(pc[p])))
      /\ Second(pc[p]) = First(Tail(pc[p]))
  BY <1>1, AtPublish
<1>3. One(First(pc[p])) = 1 /\ One(Second(pc[p])) \in {0, 1} /\ Owed(pc[p]) = 1 + One(Second(pc[p]))
  BY <1>1, <1>2 DEF One, GenSteps, Owed
<1>4. nextGen \in Gens /\ nextGen \in Int
  BY <1>2, <1>3, GenLeft DEF Gens
<1>5. /\ StepOf(a, pushed) /\ a[1] = "addSegment" /\ One(a) = 0
      /\ Follows(a, First(Tail(pc[p])))
  BY <1>1, <1>2, <1>4 DEF StepOf, AllSteps, PacketSteps, One, GenSteps, Follows
<1> HIDE DEF a
<1>6. /\ Plan(pc'[p], pushed) /\ First(pc'[p]) = a /\ Second(pc'[p]) = First(Tail(pc[p]))
      /\ Final(pc'[p]) = Final(pc[p])
      /\ DOMAIN pc' = Procs /\ \A q \in Procs : q # p => pc'[q] = pc[q]
  <2>1. a[1] # "tryWait"
    BY <1>5
  <2> QED BY <1>1, <1>2, <1>5, <2>1, Ahead
<1>7. Owed(pc'[p]) <= Owed(pc[p]) - 1
  <2>1. Owed(pc'[p]) = One(Second(pc[p]))
    BY <1>2, <1>3, <1>5, <1>6 DEF Owed
  <2> QED BY <1>3, <2>1
<1>8. /\ Head(pc[p])[1] \in GenSteps /\ private' \subseteq pushed' /\ updates' = pushed' /\ pushed' = pushed
      /\ First(pc'[p])[1] = "addSegment"
  BY <1>1, <1>5, <1>6 DEF GenSteps, ApplyInv, Shared
<1> QED BY <1>1, <1>6, <1>7, <1>8, GenKept

\* The event of a packet is queued, or the segment joins segmentInfos.
LEMMA PublishGoes ==
  ASSUME ApplyInv, NEW p \in Procs, pc[p] # <<>>, Then(p, <<>>),
         Head(pc[p])[1] = "addSegment" \/ (Head(pc[p])[1] = "addEvent" /\ Head(pc[p])[2] # 0),
         Shared', segs \subseteq segs',
         UNCHANGED <<stream, hits, missed, owner, tickets, lock, view, late, due, born, made, flushes>>
  PROVE  ApplyInv'
<1>1. /\ lock["purgeMu"] = p /\ Room(p) /\ First(pc[p]) = Head(pc[p]) /\ Busy(pc[p])
      /\ \A g : ~Holds(pc[p], g)
  BY AtPublish
<1>2. Head(pc[p])[1] \notin EndSteps
  BY DEF EndSteps
<1>3. /\ Plan(pc'[p], pushed) /\ Follows(Head(pc[p]), First(pc'[p])) /\ Final(pc'[p]) = Final(pc[p])
      /\ Second(pc[p]) = First(pc'[p])
      /\ DOMAIN pc' = Procs /\ \A q \in Procs : q # p => pc'[q] = pc[q]
  BY <1>2, Goes
<1>4. First(pc'[p])[1] \in {"pushPrivate", "nextGen", "addSegment", "pop"}
  BY <1>3 DEF Follows
<1>5. Purging(pc'[p]) /\ ~InWait(pc'[p]) /\ Busy(pc'[p]) /\ \A g : ~Holds(pc'[p], g)
  BY <1>4, Publishing
<1>6. Owed(pc'[p]) = Owed(pc[p])
  <2>1. One(First(pc'[p])) \in {0, 1} /\ One(Second(pc'[p])) = 0 /\ Owed(pc'[p]) = One(First(pc'[p])) + One(Second(pc'[p]))
    BY <1>3, <1>4, OwedOf
  <2>2. One(First(pc[p])) = 0
    BY <1>1 DEF One, GenSteps
  <2> QED BY <1>3, <2>1, <2>2 DEF Owed
<1>7. Room(p)'
  BY <1>1, <1>5, <1>6 DEF Room, stream
<1>8. pushed' = pushed
  BY DEF stream
<1> QED BY <1>1, <1>3, <1>5, <1>7, <1>8, PublishKept

\* An event is queued.
LEMMA AddEventKept ==
  ASSUME ApplyInv, NEW p \in Procs, AddEvent(p)
  PROVE  ApplyInv'
<1>1. /\ pc[p] # <<>> /\ Head(pc[p])[1] = "addEvent" /\ queue' = Append(queue, Head(pc[p])[2]) /\ Then(p, <<>>)
      /\ UNCHANGED <<stream, segs, hits, missed, owner, tickets, lock, view, late, due, born, made, flushes>>
  BY DEF AddEvent, At, Arg
<1>2. CASE Head(pc[p])[2] = 0
  BY <1>1, <1>2, PassedKept
<1>3. CASE Head(pc[p])[2] # 0
  <2>1. StepOf(Head(pc[p]), pushed) /\ DOMAIN pc' = Procs
    BY <1>1, Behind
  <2> DEFINE Q == pushed \cup {0}
             x == Head(pc[p])[2]
  <2>2. x \in Q /\ queue \in Seq(Q)
    BY <1>1, <2>1 DEF StepOf, ApplyInv, Shared
  <2> HIDE DEF Q, x
  <2>3. Append(queue, x) \in Seq(Q)
    BY <2>2, QueueOf
  <2>4. queue' \in Seq(pushed' \cup {0})
    BY <1>1, <2>3 DEF Q, x, stream
  <2>5. Shared'
    BY <1>1, <2>1, <2>4 DEF ApplyInv, Shared, stream
  <2> QED BY <1>1, <1>3, <2>5, PublishGoes
<1> QED BY <1>2, <1>3

\* A segment joins segmentInfos.
LEMMA AddSegmentKept ==
  ASSUME ApplyInv, NEW p \in Procs, AddSegment(p)
  PROVE  ApplyInv'
<1>1. /\ pc[p] # <<>> /\ Head(pc[p])[1] = "addSegment" /\ segs' = segs \cup {Head(pc[p])[2]} /\ Then(p, <<>>)
      /\ UNCHANGED <<stream, hits, missed, queue, owner, tickets, lock, view, late, due, born, made, flushes>>
  BY DEF AddSegment, At, Arg
<1>2. Head(pc[p])[2] \in Gens /\ DOMAIN pc' = Procs
  BY <1>1, Behind DEF StepOf
<1>3. Shared
  BY DEF ApplyInv
<1>4. segs' \subseteq Gens \cup {-i : i \in 1 .. MaxFlushes}
  BY <1>1, <1>2, <1>3 DEF Shared
<1>5. hits' \in [Gens -> SUBSET segs']
  BY <1>1, <1>3 DEF Shared
<1>6. Shared'
  BY <1>1, <1>2, <1>3, <1>4, <1>5 DEF Shared, stream
<1>7. segs \subseteq segs'
  BY <1>1
<1> QED BY <1>1, <1>6, <1>7, PublishGoes

-----------------------------------------------------------------------------
(* Applying and waiting.                                                   *)

\* A goroutine that does not publish takes a step.
LEMMA WorkKept ==
  ASSUME ApplyInv, NEW p \in Procs, UNCHANGED <<stream, queue, tickets, born, made, flushes>>,
         Shared', segs' = segs, missed \subseteq missed', \A g \in Gens : hits[g] \subseteq hits'[g],
         \A q \in Procs : q # p =>
           /\ pc'[q] = pc[q] /\ view'[q] = view[q] /\ late'[q] = late[q] /\ due'[q] = due[q]
           /\ \A g \in Gens : owner'[g] = q <=> owner[g] = q,
         lock'["purgeMu"] = lock["purgeMu"],
         ~Purging(pc[p]), ~Purging(pc'[p]), Local(p)',
         Final(pc'[p])[1] = "import" => Final(pc[p])[1] = "import"
  PROVE  ApplyInv'
<1>1. nextGen' = nextGen /\ pushed' = pushed
  BY DEF stream
<1>2. Moves(p)
  BY <1>1 DEF Moves, Shared
<1>3. \A q \in Procs : Local(q)'
  BY <1>2, OthersKept
<1>4. Budget'
  <2>1. ~Busy(pc[p]) /\ ~Busy(pc'[p])
    BY DEF Purging
  <2>2. tickets' \in Seq(Shapes \cup {{"global"}}) /\ made' \in Int
    BY DEF ApplyInv, Shared
  <2> QED BY <1>1, <2>1, <2>2, BudgetKept
<1>5. Imports'
  BY ImportsKept
<1> QED BY <1>3, <1>4, <1>5 DEF ApplyInv

\* What a goroutine that applies a packet or waits does not do.
LEMMA Working ==
  ASSUME NEW k, First(k)[1] \in {"end", "events", "tryEvent", "tryWait", "force", "forceLate", "waitAll",
                                 "collect", "apply", "applyEvent", "return", "import"}
  PROVE  /\ ~Purging(k)
         /\ First(k)[1] \notin {"collect", "apply", "applyEvent"} => \A g : ~Holds(k, g)
         /\ First(k)[1] \in {"collect", "apply", "applyEvent"} => \A g : Holds(k, g) <=> First(k)[2] = g
  BY DEF Purging, Busy, Holds, GenSteps

\* The lock of a packet is taken.
LEMMA TakeKept ==
  ASSUME ApplyInv, NEW p \in Procs, pc[p] # <<>>, Head(pc[p])[1] \in {"tryEvent", "tryWait", "force"},
         NEW g, g = Head(pc[p])[2], NEW b, owner[g] = None, owner' = [owner EXCEPT ![g] = p],
         b = <<IF Head(pc[p])[1] = "tryEvent" THEN "applyEvent" ELSE "apply", g>>,
         Then(p, <<<<"collect", g>>, b>>),
         UNCHANGED <<stream, segs, hits, missed, queue, tickets, lock, view, late, due, born, made, flushes>>
  PROVE  ApplyInv'
<1>1. /\ First(pc[p]) = Head(pc[p]) /\ StepOf(Head(pc[p]), pushed)
      /\ Tail(pc[p]) = <<>> => Head(pc[p])[1] \in EndSteps
      /\ Tail(pc[p]) # <<>> => Follows(Head(pc[p]), First(Tail(pc[p])))
  BY Behind
<1>2. Tail(pc[p]) # <<>>
  BY <1>1 DEF EndSteps
<1>3. Shared /\ Local(p)
  BY DEF ApplyInv
<1>4. g \in pushed /\ g \in Gens /\ g \in Int
  BY <1>1, <1>3 DEF StepOf, PacketSteps, Shared, Gens
<1> DEFINE a == <<"collect", g>>
<1>5. /\ StepOf(a, pushed) /\ a[1] = "collect" /\ a[2] = g /\ a[1] # "tryWait"
  BY <1>4 DEF StepOf, AllSteps, PacketSteps
<1>6. /\ b[1] = (IF Head(pc[p])[1] = "tryEvent" THEN "applyEvent" ELSE "apply") /\ b[2] = g
      /\ StepOf(b, pushed) /\ Follows(a, b) /\ b[1] # "tryWait"
  BY <1>4 DEF StepOf, AllSteps, PacketSteps, Follows
<1>7. Follows(b, First(Tail(pc[p])))
  BY <1>1, <1>2, <1>6 DEF Follows
<1>8. Then(p, <<a, b>>)
  OBVIOUS
<1>9. a = <<"collect", g>>
  OBVIOUS
<1> HIDE DEF a
<1>10. /\ Plan(pc'[p], pushed) /\ First(pc'[p]) = a /\ Second(pc'[p]) = b
       /\ Final(pc'[p]) = Final(pc[p])
       /\ HasLate(pc[p]) /\ Head(pc[p])[1] # "forceLate" => HasLate(pc'[p])
       /\ \A h : Visits(pc[p], h) => \/ Visits(pc'[p], h)
                                     \/ Head(pc[p])[1] \in {"tryWait", "force"} /\ Head(pc[p])[2] = h
       /\ DOMAIN pc' = Procs /\ \A q \in Procs : q # p => pc'[q] = pc[q]
  BY <1>2, <1>5, <1>6, <1>7, <1>8, AheadTwo
<1>11. ~Purging(pc[p]) /\ ~Purging(pc'[p]) /\ (\A h : ~Holds(pc[p], h)) /\ (\A h : Holds(pc'[p], h) <=> h = g)
  BY <1>1, <1>5, <1>10, Working
<1>12. /\ owner' \in [Gens -> Procs \cup {None}] /\ owner'[g] = p
       /\ \A h \in Gens : h # g => owner'[h] = owner[h]
  BY <1>3, <1>4 DEF Shared
<1>13. Shared'
  BY <1>3, <1>10, <1>12 DEF Shared, stream
<1>14. pushed' = pushed /\ segs' = segs /\ hits' = hits /\ missed' = missed /\ view' = view /\ late' = late /\ due' = due /\ lock' = lock
  BY DEF stream
<1>15. ASSUME InWait(pc'[p]) PROVE Resolving(p)'
  <2>1. Head(pc[p])[1] # "tryEvent"
    BY <1>5, <1>6, <1>10, <1>15 DEF InWait
  <2>2. Resolving(p)
    BY <1>1, <1>3, <2>1 DEF InWait, Local
  <2>3. ASSUME NEW h, ToCome(p, h) PROVE ToCome(p, h)'
    <3>1. CASE Visits(pc[p], h)
      BY <1>9, <1>10, <3>1 DEF ToCome
    <3>2. CASE HasLate(pc[p]) /\ \E i \in 1 .. Len(late[p]) : late[p][i] = h
      BY <1>10, <1>14, <3>2 DEF ToCome
    <3>3. First(pc[p])[1] # "collect" /\ First(pc[p])[1] # "apply"
      BY <1>1
    <3> QED BY <2>3, <3>1, <3>2, <3>3 DEF ToCome
  <2> QED BY <1>14, <2>2, <2>3 DEF Resolving
<1>16. \A h \in Gens : owner'[h] = p <=> Holds(pc'[p], h)
  BY <1>3, <1>11, <1>12 DEF Local
<1>17. Local(p)'
  BY <1>3, <1>10, <1>11, <1>14, <1>15, <1>16 DEF Local
<1>18. \A q \in Procs : q # p => \A h \in Gens : owner'[h] = q <=> owner[h] = q
  BY <1>12, NoneAssumption
<1> QED BY <1>10, <1>11, <1>13, <1>14, <1>17, <1>18, WorkKept

\* waitApply puts a packet that another goroutine has locked aside.
LEMMA LateKept ==
  ASSUME ApplyInv, NEW p \in Procs, pc[p] # <<>>, Head(pc[p])[1] = "tryWait", Then(p, <<>>),
         late' = [late EXCEPT ![p] = Append(@, Head(pc[p])[2])],
         UNCHANGED <<stream, segs, hits, missed, queue, owner, tickets, lock, view, due, born, made, flushes>>
  PROVE  ApplyInv'
<1>1. Head(pc[p])[1] \notin EndSteps
  BY DEF EndSteps
<1>2. /\ First(pc[p]) = Head(pc[p]) /\ Plan(pc'[p], pushed) /\ StepOf(Head(pc[p]), pushed)
      /\ Follows(Head(pc[p]), First(pc'[p])) /\ Final(pc'[p]) = Final(pc[p])
      /\ DOMAIN pc' = Procs /\ \A q \in Procs : q # p => pc'[q] = pc[q]
  BY <1>1, Goes
<1>3. /\ HasLate(pc[p]) /\ Head(pc[p])[1] # "forceLate" => HasLate(pc'[p])
      /\ \A h : Visits(pc[p], h) => \/ Visits(pc'[p], h)
                                    \/ Head(pc[p])[1] \in {"tryWait", "force"} /\ Head(pc[p])[2] = h
  BY <1>1, Goes
<1>4. Shared /\ Local(p)
  BY DEF ApplyInv
<1>5. First(pc'[p])[1] \in {"tryWait", "forceLate"}
  BY <1>2 DEF Follows
<1>6. ~Purging(pc[p]) /\ ~Purging(pc'[p]) /\ (\A h : ~Holds(pc[p], h)) /\ (\A h : ~Holds(pc'[p], h))
  BY <1>2, <1>5, Working
<1>7. HasLate(pc'[p])
  <2>1. Plan(pc[p], pushed)
    BY <1>4 DEF Local
  <2>2. Len(pc[p]) \in Nat \ {0} /\ Head(pc[p]) = pc[p][1]
    BY <2>1, TailOf DEF Plan
  <2>3. HasLate(pc[p])
    BY <2>1, <2>2 DEF Plan
  <2> QED BY <1>3, <2>3
<1>8. /\ pushed' = pushed /\ segs' = segs /\ hits' = hits /\ missed' = missed /\ view' = view /\ due' = due /\ lock' = lock
      /\ owner' = owner
  BY DEF stream
<1> DEFINE g == Head(pc[p])[2]
<1>9. g \in pushed /\ late[p] \in Seq(pushed)
  BY <1>2, <1>4 DEF StepOf, PacketSteps, Local
<1>10. /\ late'[p] = Append(late[p], g) /\ DOMAIN late' = Procs
       /\ \A q \in Procs : q # p => late'[q] = late[q]
  BY <1>4 DEF Shared
<1> HIDE DEF g
<1>11. /\ late'[p] \in Seq(pushed) /\ Len(late'[p]) = Len(late[p]) + 1 /\ late'[p][Len(late[p]) + 1] = g
       /\ Len(late[p]) \in Nat /\ \A i \in 1 .. Len(late[p]) : late'[p][i] = late[p][i]
  <2> DEFINE l == late[p]
             m == Append(l, g)
  <2>1. l \in Seq(pushed)
    BY <1>9
  <2> HIDE DEF l
  <2>2. /\ m \in Seq(pushed) /\ Len(m) = Len(l) + 1 /\ m[Len(l) + 1] = g
        /\ Len(l) \in Nat /\ \A i \in 1 .. Len(l) : m[i] = l[i]
    BY <1>9, <2>1
  <2> HIDE DEF m
  <2>3. late'[p] = m
    BY <1>10 DEF m, l
  <2> QED BY <2>2, <2>3 DEF l
<1>12. \A h : (h = g \/ \E i \in 1 .. Len(late[p]) : late[p][i] = h) =>
                \E i \in 1 .. Len(late'[p]) : late'[p][i] = h
  <2>1. SUFFICES ASSUME NEW h, h = g \/ \E i \in 1 .. Len(late[p]) : late[p][i] = h
                 PROVE  \E i \in 1 .. Len(late'[p]) : late'[p][i] = h
    OBVIOUS
  <2>2. CASE h = g
    <3>1. Len(late[p]) + 1 \in 1 .. Len(late'[p])
      BY <1>11
    <3> QED BY <1>11, <2>2, <3>1
  <2>3. CASE \E i \in 1 .. Len(late[p]) : late[p][i] = h
    <3>1. PICK i \in 1 .. Len(late[p]) : late[p][i] = h
      BY <2>3
    <3>2. i \in 1 .. Len(late'[p]) /\ late'[p][i] = h
      BY <1>11, <3>1
    <3> QED BY <3>2
  <2> QED BY <2>1, <2>2, <2>3
<1>13. Resolving(p)'
  <2>1. Resolving(p)
    BY <1>2, <1>4 DEF InWait, Local
  <2>2. ASSUME NEW h, ToCome(p, h) PROVE ToCome(p, h)'
    <3>1. CASE Visits(pc[p], h)
      <4>1. Visits(pc'[p], h) \/ h = g
        BY <1>3, <3>1 DEF g
      <4> QED BY <1>7, <1>12, <4>1 DEF ToCome
    <3>2. CASE \E i \in 1 .. Len(late[p]) : late[p][i] = h
      BY <1>7, <1>12, <3>2 DEF ToCome
    <3>3. First(pc[p])[1] # "collect" /\ First(pc[p])[1] # "apply"
      BY <1>2
    <3> QED BY <2>2, <3>1, <3>2, <3>3 DEF ToCome
  <2> QED BY <1>8, <2>1, <2>2 DEF Resolving
<1>14. Local(p)'
  BY <1>2, <1>4, <1>6, <1>8, <1>11, <1>13 DEF Local
<1>15. Shared'
  BY <1>2, <1>4, <1>10 DEF Shared, stream
<1> QED BY <1>2, <1>6, <1>8, <1>10, <1>14, <1>15, WorkKept

\* TryApply passes a packet that is being applied, and takes the lock of another.
LEMMA TryApplyKept ==
  ASSUME ApplyInv, NEW p \in Procs, TryApply(p)
  PROVE  ApplyInv'
<1>1. /\ pc[p] # <<>> /\ Head(pc[p])[1] \in {"tryEvent", "tryWait"}
      /\ UNCHANGED <<stream, segs, hits, missed, queue, tickets, lock, view, due, born, made, flushes>>
  BY DEF TryApply, At
<1> DEFINE g == Head(pc[p])[2]
           b == <<IF Head(pc[p])[1] = "tryEvent" THEN "applyEvent" ELSE "apply", g>>
<1>2. CASE owner[g] = None
  <2>1. owner' = [owner EXCEPT ![g] = p] /\ late' = late /\ Then(p, <<<<"collect", g>>, b>>)
    BY <1>1, <1>2 DEF TryApply, At, Arg
  <2>2. b = <<IF Head(pc[p])[1] = "tryEvent" THEN "applyEvent" ELSE "apply", g>> /\ g = Head(pc[p])[2]
    OBVIOUS
  <2> HIDE DEF b, g
  <2> QED BY <1>1, <1>2, <2>1, <2>2, TakeKept
<1>3. CASE owner[g] # None
  <2>1. owner' = owner /\ Then(p, <<>>)
    BY <1>3 DEF TryApply, Arg
  <2>2. CASE Head(pc[p])[1] = "tryEvent"
    <3>1. late' = late
      BY <1>1, <1>3, <2>2 DEF TryApply, Arg, At
    <3> QED BY <1>1, <2>1, <2>2, <3>1, PassedKept
  <2>3. CASE Head(pc[p])[1] = "tryWait"
    <3>1. late' = [late EXCEPT ![p] = Append(@, Head(pc[p])[2])]
      BY <1>1, <1>3, <2>3 DEF TryApply, Arg, At
    <3> QED BY <1>1, <2>1, <2>3, <3>1, LateKept
  <2> QED BY <1>1, <2>2, <2>3
<1> QED BY <1>2, <1>3

\* ForceApply has waited for the packet's lock.
LEMMA ForceApplyKept ==
  ASSUME ApplyInv, NEW p \in Procs, ForceApply(p)
  PROVE  ApplyInv'
<1> DEFINE g == Head(pc[p])[2]
           b == <<"apply", g>>
<1>1. /\ pc[p] # <<>> /\ Head(pc[p])[1] = "force" /\ owner[g] = None
      /\ owner' = [owner EXCEPT ![g] = p] /\ Then(p, <<<<"collect", g>>, b>>)
      /\ UNCHANGED <<stream, segs, hits, missed, queue, tickets, lock, view, late, due, born, made, flushes>>
  BY DEF ForceApply, At, Arg
<1>2. b = <<IF Head(pc[p])[1] = "tryEvent" THEN "applyEvent" ELSE "apply", g>> /\ g = Head(pc[p])[2]
  BY <1>1
<1> HIDE DEF b, g
<1> QED BY <1>1, <1>2, TakeKept

\* The segments are collected.
LEMMA CollectKept ==
  ASSUME ApplyInv, NEW p \in Procs, Collect(p)
  PROVE  ApplyInv'
<1> DEFINE g == Head(pc[p])[2]
<1>0. PICK lost \in SUBSET segs :
        view' = [view EXCEPT ![p] = segs \ lost] /\ missed' = missed \cup ({g} \X lost)
  BY DEF Collect, Arg
<1>1. /\ pc[p] # <<>> /\ Head(pc[p])[1] = "collect" /\ Then(p, <<>>)
      /\ UNCHANGED <<stream, segs, hits, queue, owner, tickets, lock, late, due, born, made, flushes>>
  BY DEF Collect, At
<1>2. Head(pc[p])[1] \notin EndSteps
  BY <1>1 DEF EndSteps
<1>3. /\ First(pc[p]) = Head(pc[p]) /\ Plan(pc'[p], pushed) /\ StepOf(First(pc'[p]), pushed)
      /\ Follows(Head(pc[p]), First(pc'[p])) /\ Final(pc'[p]) = Final(pc[p]) /\ Second(pc[p]) = First(pc'[p])
      /\ DOMAIN pc' = Procs /\ \A q \in Procs : q # p => pc'[q] = pc[q]
  BY <1>1, <1>2, Goes
<1>4. /\ HasLate(pc[p]) => HasLate(pc'[p])
      /\ \A h : Visits(pc[p], h) => Visits(pc'[p], h)
  BY <1>1, <1>2, Goes
<1>5. Shared /\ Local(p)
  BY DEF ApplyInv
<1>6. First(pc'[p])[1] \in {"apply", "applyEvent"} /\ First(pc'[p])[2] = g
  BY <1>1, <1>3 DEF Follows
<1>7. First(pc'[p])[1] = "apply" => First(pc'[p]) = <<"apply", g>>
  BY <1>3, <1>6 DEF StepOf
<1> HIDE DEF g
<1>8. First(pc[p])[1] = "collect" /\ First(pc[p])[2] = g
  BY <1>1, <1>3 DEF g
<1>9. ~Purging(pc[p]) /\ ~Purging(pc'[p]) /\ (\A h : Holds(pc[p], h) <=> h = g) /\ (\A h : Holds(pc'[p], h) <=> h = g)
  BY <1>6, <1>8, Working
<1>10. /\ pushed' = pushed /\ segs' = segs /\ hits' = hits /\ late' = late /\ due' = due /\ lock' = lock
       /\ owner' = owner
  BY <1>1 DEF stream
<1>11. view'[p] = segs \ lost /\ DOMAIN view' = Procs /\ \A q \in Procs : q # p => view'[q] = view[q]
  BY <1>0, <1>5 DEF Shared
<1>m. missed \subseteq missed' /\ \A s \in lost : <<g, s>> \in missed'
  BY <1>0
<1>12. ASSUME InWait(pc'[p]) PROVE Resolving(p)'
  <2>1. First(pc'[p]) = <<"apply", g>>
    BY <1>6, <1>7, <1>12 DEF InWait
  <2>2. Resolving(p)
    BY <1>3, <1>5, <1>8, <2>1 DEF InWait, Local
  <2>3. ASSUME NEW h, ToCome(p, h) PROVE ToCome(p, h)'
    <3>1. CASE Visits(pc[p], h)
      BY <1>4, <3>1 DEF ToCome
    <3>2. CASE HasLate(pc[p]) /\ \E i \in 1 .. Len(late[p]) : late[p][i] = h
      BY <1>4, <1>10, <3>2 DEF ToCome
    <3>3. CASE First(pc[p]) = <<"collect", h>>
      <4>1. h = g
        BY <1>8, <3>3
      <4>2. \A s \in due'[p].segs : s \in view'[p] \/ <<g, s>> \in missed'
        BY <1>5, <1>10, <1>11, <1>m DEF Local
      <4> QED BY <2>1, <4>1, <4>2 DEF ToCome
    <3>4. First(pc[p])[1] # "apply"
      BY <1>8
    <3> QED BY <2>3, <3>1, <3>2, <3>3, <3>4 DEF ToCome
  <2> QED BY <1>10, <1>m, <2>2, <2>3 DEF Resolving
<1>13. Local(p)'
  BY <1>3, <1>5, <1>9, <1>10, <1>11, <1>12 DEF Local
<1>14. Shared'
  BY <1>1, <1>3, <1>5, <1>11 DEF Shared, stream
<1> QED BY <1>1, <1>3, <1>9, <1>10, <1>11, <1>m, <1>13, <1>14, WorkKept

\* The packet is applied to the segments that were collected.
LEMMA ApplyKept ==
  ASSUME ApplyInv, NEW p \in Procs, Apply(p)
  PROVE  ApplyInv'
<1> DEFINE g == Head(pc[p])[2]
<1>1. /\ pc[p] # <<>> /\ Head(pc[p])[1] \in {"apply", "applyEvent"} /\ Then(p, <<>>)
      /\ view' = [view EXCEPT ![p] = {}] /\ owner' = [owner EXCEPT ![g] = None]
      /\ hits' = [hits EXCEPT ![g] = @ \cup {s \in view[p] : DelGen(s) <= g}]
      /\ UNCHANGED <<stream, segs, missed, queue, tickets, lock, late, due, born, made, flushes>>
  BY DEF Apply, At, Arg
<1>2. Head(pc[p])[1] \notin EndSteps
  BY <1>1 DEF EndSteps
<1>3. /\ First(pc[p]) = Head(pc[p]) /\ Plan(pc'[p], pushed) /\ StepOf(Head(pc[p]), pushed)
      /\ Follows(Head(pc[p]), First(pc'[p])) /\ Final(pc'[p]) = Final(pc[p])
      /\ DOMAIN pc' = Procs /\ \A q \in Procs : q # p => pc'[q] = pc[q]
  BY <1>1, <1>2, Goes
<1>4. /\ HasLate(pc[p]) => HasLate(pc'[p])
      /\ \A h : Visits(pc[p], h) => Visits(pc'[p], h)
  BY <1>1, <1>2, Goes
<1>5. Shared /\ Local(p)
  BY DEF ApplyInv
<1>6. g \in pushed /\ g \in Gens
  BY <1>1, <1>3, <1>5 DEF StepOf, PacketSteps, Shared
<1>7. /\ First(pc'[p])[1] \in {"events", "tryWait", "force", "forceLate", "return", "import"}
      /\ Head(pc[p])[1] = "applyEvent" => First(pc'[p])[1] = "events"
  BY <1>1, <1>3 DEF Follows
<1>8. First(pc[p])[1] \in {"apply", "applyEvent"} /\ First(pc[p])[2] = g
  BY <1>1, <1>3
<1> HIDE DEF g
<1>9. ~Purging(pc[p]) /\ ~Purging(pc'[p]) /\ (\A h : Holds(pc[p], h) <=> h = g) /\ (\A h : ~Holds(pc'[p], h))
  BY <1>7, <1>8, Working
<1>10. pushed' = pushed /\ segs' = segs /\ missed' = missed /\ late' = late /\ due' = due /\ lock' = lock
  BY <1>1 DEF stream
<1>11. view'[p] = {} /\ DOMAIN view' = Procs /\ \A q \in Procs : q # p => view'[q] = view[q]
  BY <1>1, <1>5 DEF Shared
<1>12. /\ owner' \in [Gens -> Procs \cup {None}] /\ owner'[g] = None
       /\ \A h \in Gens : h # g => owner'[h] = owner[h]
  BY <1>1, <1>5, <1>6 DEF Shared
<1>13. owner[g] = p
  BY <1>5, <1>6, <1>9 DEF Local
<1>14. /\ hits'[g] = hits[g] \cup {s \in view[p] : DelGen(s) <= g}
       /\ \A h \in Gens : h # g => hits'[h] = hits[h]
       /\ hits' \in [Gens -> SUBSET segs]
  <2> DEFINE V == {s \in view[p] : DelGen(s) <= g}
  <2>1. V \subseteq segs /\ hits \in [Gens -> SUBSET segs] /\ hits' = [hits EXCEPT ![g] = @ \cup V]
    BY <1>1, <1>5 DEF Local, Shared
  <2> HIDE DEF V
  <2>2. /\ hits'[g] = hits[g] \cup V /\ (\A h \in Gens : h # g => hits'[h] = hits[h])
        /\ hits' \in [Gens -> SUBSET segs]
    BY <1>6, <2>1
  <2> QED BY <2>2 DEF V
<1>15. ASSUME InWait(pc'[p]) PROVE Resolving(p)'
  <2>1. Head(pc[p])[1] = "apply" /\ InWait(pc[p])
    BY <1>1, <1>3, <1>7, <1>15 DEF InWait
  <2>2. Resolving(p)
    BY <1>5, <2>1 DEF Local
  <2>3. SUFFICES ASSUME NEW h \in due[p].packets, NEW s \in due[p].segs, DelGen(s) <= h
                 PROVE  s \in hits'[h] \/ <<h, s>> \in missed' \/ ToCome(p, h)'
    BY <1>10 DEF Resolving
  <2>4. h \in Gens /\ (s \in hits[h] => s \in hits'[h])
    BY <1>5, <1>14 DEF Local, Shared
  <2>5. CASE s \in hits[h] \/ <<h, s>> \in missed
    BY <1>10, <2>4, <2>5
  <2>6. CASE ToCome(p, h)
    <3>1. CASE Visits(pc[p], h)
      BY <1>4, <3>1 DEF ToCome
    <3>2. CASE HasLate(pc[p]) /\ \E i \in 1 .. Len(late[p]) : late[p][i] = h
      BY <1>4, <1>10, <3>2 DEF ToCome
    <3>3. CASE First(pc[p]) = <<"apply", h>> /\ \A u \in due[p].segs : u \in view[p] \/ <<h, u>> \in missed
      <4>1. h = g
        BY <1>8, <3>3
      <4> QED BY <1>10, <1>14, <2>3, <3>3, <4>1
    <3>4. First(pc[p])[1] # "collect"
      BY <1>8
    <3> QED BY <2>6, <3>1, <3>2, <3>3, <3>4 DEF ToCome
  <2> QED BY <2>2, <2>3, <2>5, <2>6 DEF Resolving
<1>16. \A h \in Gens : owner'[h] = p <=> Holds(pc'[p], h)
  BY <1>5, <1>9, <1>12, NoneAssumption DEF Local
<1>17. Local(p)'
  BY <1>3, <1>5, <1>9, <1>10, <1>11, <1>15, <1>16 DEF Local
<1>18. Shared'
  BY <1>1, <1>3, <1>5, <1>11, <1>12, <1>14 DEF Shared, stream
<1>19. \A q \in Procs : q # p => \A h \in Gens : owner'[h] = q <=> owner[h] = q
  BY <1>12, <1>13, NoneAssumption
<1>20. \A h \in Gens : hits[h] \subseteq hits'[h]
  BY <1>14
<1> QED BY <1>1, <1>3, <1>9, <1>10, <1>11, <1>17, <1>18, <1>19, <1>20, WorkKept

\* A packet is refused, which ends the operation.
LEMMA ApplyFailsKept ==
  ASSUME ApplyInv, NEW p \in Procs, ApplyFails(p)
  PROVE  ApplyInv'
<1> DEFINE g == Head(pc[p])[2]
<1>1. /\ pc[p] # <<>> /\ Head(pc[p])[1] \in {"apply", "applyEvent"} /\ pc' = [pc EXCEPT ![p] = <<>>]
      /\ view' = [view EXCEPT ![p] = {}] /\ owner' = [owner EXCEPT ![g] = None]
      /\ late' = [late EXCEPT ![p] = <<>>] /\ lock' = [l \in Locks |-> IF lock[l] = p THEN None ELSE lock[l]]
      /\ UNCHANGED <<stream, segs, hits, missed, queue, tickets, due, born, made, flushes>>
  BY DEF ApplyFails, At, Arg
<1>2. First(pc[p]) = Head(pc[p]) /\ StepOf(Head(pc[p]), pushed)
  BY <1>1, Behind
<1>3. Shared /\ Local(p)
  BY DEF ApplyInv
<1>4. g \in Gens /\ First(pc[p])[1] \in {"apply", "applyEvent"} /\ First(pc[p])[2] = g
  BY <1>1, <1>2, <1>3 DEF StepOf, PacketSteps, Shared
<1> HIDE DEF g
<1>5. pc'[p] = <<>> /\ DOMAIN pc' = Procs /\ \A q \in Procs : q # p => pc'[q] = pc[q]
  BY <1>1, <1>3 DEF Shared
<1>6. Plan(pc'[p], pushed) /\ First(pc'[p])[1] = "end" /\ Final(pc'[p])[1] # "import"
  BY <1>5, Begins DEF First, Final, NoStep
<1>7. ~Purging(pc[p]) /\ ~Purging(pc'[p]) /\ (\A h : Holds(pc[p], h) <=> h = g) /\ (\A h : ~Holds(pc'[p], h))
  BY <1>4, <1>6, Working
<1>8. ~InWait(pc'[p])
  BY <1>6 DEF InWait
<1>9. /\ view'[p] = {} /\ DOMAIN view' = Procs /\ (\A q \in Procs : q # p => view'[q] = view[q])
      /\ late'[p] = <<>> /\ DOMAIN late' = Procs /\ (\A q \in Procs : q # p => late'[q] = late[q])
  BY <1>1, <1>3 DEF Shared
<1>10. /\ owner' \in [Gens -> Procs \cup {None}] /\ owner'[g] = None /\ owner[g] = p
       /\ \A h \in Gens : h # g => owner'[h] = owner[h]
  BY <1>1, <1>3, <1>4, <1>7 DEF Shared, Local
<1>11. lock["purgeMu"] # p /\ lock'["purgeMu"] = lock["purgeMu"] /\ lock' \in [Locks -> Procs \cup {None}]
  BY <1>1, <1>3, <1>7 DEF Local, Shared, Locks
<1>12. pushed' = pushed /\ segs' = segs /\ due' = due /\ hits' = hits /\ missed' = missed
  BY <1>1 DEF stream
<1>13. late'[p] \in Seq(pushed)
  BY <1>9
<1>14. \A h \in Gens : owner'[h] = p <=> Holds(pc'[p], h)
  BY <1>3, <1>7, <1>10, NoneAssumption DEF Local
<1>15. Local(p)'
  BY <1>3, <1>6, <1>7, <1>8, <1>9, <1>11, <1>12, <1>13, <1>14 DEF Local
<1>16. Shared'
  BY <1>1, <1>3, <1>5, <1>9, <1>10, <1>11 DEF Shared, stream
<1>17. \A q \in Procs : q # p => \A h \in Gens : owner'[h] = q <=> owner[h] = q
  BY <1>10, NoneAssumption
<1> QED BY <1>1, <1>5, <1>6, <1>7, <1>9, <1>11, <1>12, <1>15, <1>16, <1>17, WorkKept

\* The elements of a finite set of integers by rank.
LEMMA Ranked ==
  ASSUME NEW G, IsFiniteSet(G), \A n \in G : n \in Int
  PROVE  LET r == [i \in 1 .. Cardinality(G) |->
                     CHOOSE n \in G : Cardinality({m \in G : m <= n}) = i] IN
         /\ Cardinality(G) \in Nat
         /\ \A i \in 1 .. Cardinality(G) : r[i] \in G
         /\ \A i, j \in 1 .. Cardinality(G) : i < j => r[i] < r[j]
         /\ \A n \in G : \E i \in 1 .. Cardinality(G) : r[i] = n
<1> DEFINE N == Cardinality(G)
           r == [i \in 1 .. N |-> CHOOSE n \in G : Cardinality({m \in G : m <= n}) = i]
           B(n) == {m \in G : m <= n}
           rk == [n \in G |-> Cardinality(B(n))]
<1>1. N \in Nat /\ IsFiniteSet(1 .. N) /\ Cardinality(1 .. N) = N
  <2>1. N \in Nat
    BY FS_CardinalityType
  <2> HIDE DEF N
  <2> QED BY <2>1, FS_Interval
<1>2. \A n \in G : IsFiniteSet(B(n)) /\ Cardinality(B(n)) \in 1 .. N /\ n \in B(n)
  <2>1. SUFFICES ASSUME NEW n \in G
                 PROVE  IsFiniteSet(B(n)) /\ Cardinality(B(n)) \in 1 .. N /\ n \in B(n)
    OBVIOUS
  <2>2. n \in B(n) /\ B(n) \subseteq G
    OBVIOUS
  <2> HIDE DEF B, N
  <2>3. IsFiniteSet(B(n)) /\ Cardinality(B(n)) <= N
    BY <2>2, FS_Subset DEF N
  <2>4. Cardinality(B(n)) \in Nat /\ Cardinality(B(n)) # 0
    BY <2>2, <2>3, FS_CardinalityType, FS_EmptySet
  <2> QED BY <1>1, <2>2, <2>3, <2>4
<1>3. \A n, k \in G : n < k => Cardinality(B(n)) < Cardinality(B(k))
  <2>1. SUFFICES ASSUME NEW n \in G, NEW k \in G, n < k
                 PROVE  Cardinality(B(n)) < Cardinality(B(k))
    OBVIOUS
  <2>2. B(n) \subseteq B(k) /\ k \notin B(n) /\ k \in B(k)
    BY <2>1
  <2>3. /\ IsFiniteSet(B(n)) /\ Cardinality(B(n)) \in 1 .. N
        /\ IsFiniteSet(B(k)) /\ Cardinality(B(k)) \in 1 .. N
    BY <1>2
  <2> HIDE DEF B, N
  <2>4. Cardinality(B(n)) <= Cardinality(B(k)) /\ Cardinality(B(n)) # Cardinality(B(k))
    BY <2>2, <2>3, FS_Subset
  <2> QED BY <1>1, <2>3, <2>4
<1>4. rk \in [G -> 1 .. N] /\ \A n \in G : rk[n] = Cardinality(B(n))
  BY <1>2
<1>5. rk \in Injection(G, 1 .. N)
  <2>1. ASSUME NEW n \in G, NEW k \in G, rk[n] = rk[k] PROVE n = k
    <3>1. n \in Int /\ k \in Int /\ rk[n] \in 1 .. N /\ rk[k] \in 1 .. N
      BY <1>4
    <3>2. (n < k => rk[n] < rk[k]) /\ (k < n => rk[k] < rk[n])
      BY <1>3, <1>4
    <3> HIDE DEF rk, N
    <3> QED BY <1>1, <2>1, <3>1, <3>2
  <2> HIDE DEF rk, N
  <2> QED BY <1>4, <2>1 DEF Injection, IsInjective
<1>6. rk \in Surjection(G, 1 .. N)
  <2> HIDE DEF rk
  <2> QED BY <1>1, <1>5, FS_Injection
<1>7. \A i \in 1 .. N : \E n \in G : Cardinality(B(n)) = i
  <2> HIDE DEF N, B
  <2> QED BY <1>4, <1>6 DEF Surjection
<1>8. \A i \in 1 .. N : r[i] = CHOOSE n \in G : Cardinality(B(n)) = i
  OBVIOUS
<1> HIDE DEF N, B, rk, r
<1>9. \A i \in 1 .. N : r[i] \in G /\ Cardinality(B(r[i])) = i
  BY <1>7, <1>8
<1>10. ASSUME NEW i \in 1 .. N, NEW j \in 1 .. N, i < j PROVE r[i] < r[j]
  <2>1. r[i] \in G /\ r[j] \in G /\ Cardinality(B(r[i])) = i /\ Cardinality(B(r[j])) = j
    BY <1>9
  <2>2. r[i] \in Int /\ r[j] \in Int
    BY <2>1
  <2>3. r[i] # r[j]
    BY <1>1, <1>10, <2>1
  <2>4. ~(r[j] < r[i])
    BY <1>1, <1>3, <1>10, <2>1
  <2> QED BY <2>2, <2>3, <2>4
<1>11. ASSUME NEW n \in G PROVE \E i \in 1 .. N : r[i] = n
  <2>1. Cardinality(B(n)) \in 1 .. N
    BY <1>2
  <2>2. r[Cardinality(B(n))] \in G /\ Cardinality(B(r[Cardinality(B(n))])) = Cardinality(B(n))
    BY <1>9, <2>1
  <2>3. rk[r[Cardinality(B(n))]] = rk[n]
    BY <1>4, <2>2
  <2>4. r[Cardinality(B(n))] = n
    BY <1>4, <1>5, <2>2, <2>3 DEF Injection, IsInjective
  <2> QED BY <2>1, <2>4
<1> QED BY <1>1, <1>9, <1>10, <1>11, Zenon DEF N, r

\* Steps of one loop of waitApply, in front of the rest of the wait.
Joined(f, k) == f \o k

\* They leave the wait a legal plan with the same end.
LEMMA PlanLoop ==
  ASSUME NEW P, NEW k, Plan(k, P), k # <<>>, NEW f \in Seq(AllSteps \X Int), NEW c, c = Joined(f, k),
         \A i \in 1 .. Len(f) : StepOf(f[i], P),
         \/ (\A i \in 1 .. Len(f) : f[i][1] = "tryWait") /\ First(k)[1] = "forceLate"
         \/ (\A i \in 1 .. Len(f) : f[i][1] = "force") /\ First(k)[1] \in {"return", "import"}
  PROVE  /\ Plan(c, P) /\ Final(c) = Final(k)
         /\ First(c)[1] \in {"tryWait", "force", First(k)[1]}
         /\ \A g : Visits(k, g) => Visits(c, g)
         /\ \A i \in 1 .. Len(f) : Visits(c, f[i][2])
<1> DEFINE n == Len(f)
           m == Len(k)
<1>1. k \in Seq(AllSteps \X Int) /\ n \in Nat /\ m \in Nat \ {0} /\ First(k) = k[1] /\ Final(k) = k[m]
  BY TailOf DEF Plan, First, Final
<1>2. /\ c \in Seq(AllSteps \X Int) /\ Len(c) = n + m
      /\ \A i \in 1 .. n : c[i] = f[i]
      /\ \A i \in n + 1 .. n + m : c[i] = k[i - n]
  <2> DEFINE A == AllSteps \X Int
  <2>1. f \in Seq(A) /\ k \in Seq(A)
    BY <1>1
  <2> HIDE DEF A
  <2>2. f \o k \in Seq(A)
    BY <2>1
  <2>3. Len(f \o k) = Len(f) + Len(k)
    BY <2>1
  <2>4. \A i \in 1 .. Len(f) : (f \o k)[i] = f[i]
    BY <2>1
  <2>5. \A i \in Len(f) + 1 .. Len(f) + Len(k) : (f \o k)[i] = k[i - Len(f)]
    BY <2>1
  <2> DEFINE d == f \o k
  <2>6. /\ d \in Seq(A) /\ Len(d) = Len(f) + Len(k)
        /\ \A i \in 1 .. Len(f) : d[i] = f[i]
        /\ \A i \in Len(f) + 1 .. Len(f) + Len(k) : d[i] = k[i - Len(f)]
    BY <2>2, <2>3, <2>4, <2>5, Zenon
  <2>7. c = d
    BY DEF Joined
  <2> HIDE DEF d
  <2> QED BY <2>6, <2>7 DEF A
<1>3. /\ \A i \in 1 .. m : StepOf(k[i], P)
      /\ \A i \in 1 .. m - 1 : Follows(k[i], k[i + 1])
      /\ k[m][1] \in EndSteps
      /\ (\E i \in 1 .. m : k[i][1] = "tryWait") => HasLate(k)
  BY DEF Plan
<1>4. n = Len(f) /\ m = Len(k)
  OBVIOUS
<1> HIDE DEF n, m
<1>5. \A i \in 1 .. m : n + i \in 1 .. Len(c) /\ c[n + i] = k[i]
  <2>1. SUFFICES ASSUME NEW i \in 1 .. m PROVE n + i \in 1 .. Len(c) /\ c[n + i] = k[i]
    OBVIOUS
  <2>2. n + i \in n + 1 .. n + m /\ (n + i) - n = i
    BY <1>1
  <2> QED BY <1>1, <1>2, <2>2
<1>6. \A i \in 1 .. Len(c) : i \in 1 .. n \/ (i - n \in 1 .. m /\ c[i] = k[i - n])
  <2>1. SUFFICES ASSUME NEW i \in 1 .. Len(c), i \notin 1 .. n PROVE i - n \in 1 .. m /\ c[i] = k[i - n]
    OBVIOUS
  <2>2. i \in n + 1 .. n + m /\ i - n \in 1 .. m
    BY <1>1, <1>2, <2>1
  <2> QED BY <1>2, <2>2
<1>7. c # <<>> /\ Len(c) \in Nat \ {0}
  BY <1>1, <1>2, NoElements
<1>8. First(c) = c[1] /\ Final(c) = c[Len(c)]
  BY <1>2, <1>7, TailOf DEF First, Final
<1>9. Final(c) = Final(k)
  <2>1. m \in 1 .. m /\ n + m = Len(c)
    BY <1>1, <1>2
  <2> QED BY <1>1, <1>5, <1>8, <2>1
<1>10. First(c)[1] \in {"tryWait", "force", First(k)[1]}
  <2>1. CASE n = 0
    <3>1. 1 \in 1 .. m /\ n + 1 = 1
      BY <1>1, <2>1
    <3> QED BY <1>1, <1>5, <1>8, <3>1
  <2>2. CASE n # 0
    <3>1. 1 \in 1 .. n
      BY <1>1, <2>2
    <3> QED BY <1>2, <1>4, <1>8, <3>1
  <2> QED BY <2>1, <2>2
<1>11. \A g : Visits(k, g) => Visits(c, g)
  <2>1. SUFFICES ASSUME NEW g, NEW i \in 1 .. m, k[i][1] \in {"tryWait", "force"} /\ k[i][2] = g
                 PROVE  Visits(c, g)
    BY <1>4 DEF Visits
  <2>2. n + i \in 1 .. Len(c) /\ c[n + i] = k[i]
    BY <1>5
  <2> QED BY <2>1, <2>2 DEF Visits
<1>12. ASSUME NEW i \in 1 .. n PROVE i \in 1 .. Len(c) /\ c[i] = f[i] /\ c[i][1] \in {"tryWait", "force"}
  BY <1>1, <1>2, <1>4
<1>13. \A i \in 1 .. Len(f) : Visits(c, f[i][2])
  BY <1>4, <1>12 DEF Visits
<1>14. HasLate(k) => HasLate(c)
  <2>1. SUFFICES ASSUME NEW i \in 1 .. m, k[i][1] = "forceLate" PROVE HasLate(c)
    BY <1>4 DEF HasLate
  <2>2. n + i \in 1 .. Len(c) /\ c[n + i] = k[i]
    BY <1>5
  <2> QED BY <2>1, <2>2 DEF HasLate
<1>15. First(k)[1] = "forceLate" => HasLate(k)
  <2>1. 1 \in 1 .. m
    BY <1>1
  <2> QED BY <1>1, <1>4, <2>1 DEF HasLate
<1>16. Plan(c, P)
  <2>1. ASSUME NEW i \in 1 .. Len(c) PROVE StepOf(c[i], P)
    <3>1. CASE i \in 1 .. n
      BY <1>4, <1>12, <3>1
    <3>2. CASE i \notin 1 .. n
      BY <1>3, <1>6, <3>2
    <3> QED BY <3>1, <3>2
  <2>2. ASSUME NEW i \in 1 .. Len(c) - 1 PROVE Follows(c[i], c[i + 1])
    <3>1. i \in 1 .. Len(c) /\ i + 1 \in 1 .. Len(c)
      BY <1>7
    <3>2. CASE i + 1 \in 1 .. n
      <4>1. i \in 1 .. n
        BY <1>1, <3>2
      <4>2. c[i] = f[i] /\ c[i + 1] = f[i + 1] /\ f[i][1] = f[i + 1][1] /\ f[i][1] \in {"tryWait", "force"}
        <5>1. c[i] = f[i] /\ c[i + 1] = f[i + 1]
          BY <1>2, <3>2, <4>1
        <5>2. i \in 1 .. Len(f) /\ i + 1 \in 1 .. Len(f)
          BY <1>4, <3>2, <4>1
        <5>3. f[i][1] = f[i + 1][1] /\ f[i][1] \in {"tryWait", "force"}
          <6>1. CASE \A j \in 1 .. Len(f) : f[j][1] = "tryWait"
            BY <5>2, <6>1
          <6>2. CASE \A j \in 1 .. Len(f) : f[j][1] = "force"
            BY <5>2, <6>2
          <6> QED BY <6>1, <6>2
        <5> QED BY <5>1, <5>3
      <4> QED BY <4>2 DEF Follows
    <3>3. CASE i = n
      <4>1. 1 \in 1 .. m /\ n \in 1 .. n
        BY <1>1, <3>3
      <4>2. c[i + 1] = First(k) /\ c[i] = f[i] /\ i \in 1 .. Len(f)
        BY <1>1, <1>4, <1>5, <1>12, <3>3, <4>1
      <4>3. \/ f[i][1] = "tryWait" /\ First(k)[1] = "forceLate"
            \/ f[i][1] = "force" /\ First(k)[1] \in {"return", "import"}
        BY <4>2
      <4> QED BY <4>2, <4>3 DEF Follows
    <3>4. CASE i > n
      <4>1. i \notin 1 .. n /\ i + 1 \notin 1 .. n /\ i - n \in 1 .. m - 1 /\ (i + 1) - n = (i - n) + 1
        BY <1>1, <1>2, <3>4
      <4>2. c[i] = k[i - n] /\ c[i + 1] = k[(i + 1) - n]
        BY <1>6, <3>1, <4>1
      <4>3. Follows(k[i - n], k[(i - n) + 1])
        BY <1>3, <4>1
      <4> QED BY <4>1, <4>2, <4>3
    <3>5. i + 1 \in 1 .. n \/ i = n \/ i > n
      BY <1>1
    <3> QED BY <3>2, <3>3, <3>4, <3>5
  <2>3. c[Len(c)][1] \in EndSteps
    BY <1>1, <1>3, <1>8, <1>9
  <2>4. ASSUME NEW i \in 1 .. Len(c), c[i][1] = "tryWait" PROVE HasLate(c)
    <3>1. CASE i \in 1 .. n
      <4>1. First(k)[1] = "forceLate"
        BY <1>4, <1>12, <2>4, <3>1
      <4> QED BY <1>14, <1>15, <4>1
    <3>2. CASE i \notin 1 .. n
      BY <1>3, <1>6, <1>14, <2>4, <3>2
    <3> QED BY <3>1, <3>2
  <2> QED BY <1>2, <2>1, <2>2, <2>3, <2>4 DEF Plan
<1> QED BY <1>9, <1>10, <1>11, <1>13, <1>16

\* The second loop of waitApply begins.
LEMMA ForceLateKept ==
  ASSUME ApplyInv, NEW p \in Procs, ForceLate(p)
  PROVE  ApplyInv'
<1> DEFINE f == [i \in DOMAIN late[p] |-> <<"force", late[p][i]>>]
           t == Tail(pc[p])
<1>1. /\ pc[p] # <<>> /\ Head(pc[p])[1] = "forceLate" /\ Then(p, f) /\ late' = [late EXCEPT ![p] = <<>>]
      /\ UNCHANGED <<stream, segs, hits, missed, queue, owner, tickets, lock, view, due, born, made, flushes>>
  BY DEF ForceLate, At
<1>2. /\ First(pc[p]) = Head(pc[p])
      /\ Tail(pc[p]) = <<>> => Head(pc[p])[1] \in EndSteps
      /\ Tail(pc[p]) # <<>> => Follows(Head(pc[p]), First(Tail(pc[p])))
  BY <1>1, Behind
<1>3. t # <<>> /\ First(t)[1] \in {"return", "import"}
  BY <1>1, <1>2 DEF EndSteps, Follows
<1>4. /\ Plan(t, pushed) /\ Final(t) = Final(pc[p])
      /\ \A h : Visits(pc[p], h) => Visits(t, h) \/ (Head(pc[p])[1] \in {"tryWait", "force"} /\ Head(pc[p])[2] = h)
  BY <1>1, <1>3, Advance, Zenon
<1>5. Shared /\ Local(p)
  BY DEF ApplyInv
<1>6. /\ late[p] \in Seq(pushed) /\ Len(late[p]) \in Nat /\ DOMAIN late[p] = 1 .. Len(late[p])
      /\ \A i \in 1 .. Len(late[p]) : late[p][i] \in pushed /\ late[p][i] \in Int
  BY <1>5 DEF Local, Shared, Gens
<1>7. \A i \in 1 .. Len(late[p]) : f[i] = <<"force", late[p][i]>> /\ f[i] \in AllSteps \X Int
  BY <1>6 DEF AllSteps
<1>8. f \in Seq(AllSteps \X Int) /\ Len(f) = Len(late[p])
  <2> DEFINE A == AllSteps \X Int
             l == late[p]
  <2>1. /\ Len(l) \in Nat /\ DOMAIN l = 1 .. Len(l)
        /\ \A i \in 1 .. Len(l) : <<"force", l[i]>> \in A
    BY <1>6, <1>7
  <2>2. f = [i \in 1 .. Len(l) |-> <<"force", l[i]>>]
    BY <2>1
  <2> HIDE DEF A, l, f
  <2>3. f \in [1 .. Len(l) -> A]
    BY <2>1, <2>2
  <2>4. f \in Seq(A) /\ Len(f) = Len(l)
    BY <2>1, <2>3
  <2> QED BY <2>4 DEF A, l
<1>9. \A i \in 1 .. Len(f) : StepOf(f[i], pushed) /\ f[i][1] = "force" /\ f[i][2] = late[p][i]
  <2>1. ASSUME NEW i \in 1 .. Len(f) PROVE StepOf(f[i], pushed) /\ f[i][1] = "force" /\ f[i][2] = late[p][i]
    <3>1. f[i] = <<"force", late[p][i]>> /\ late[p][i] \in pushed /\ f[i] \in AllSteps \X Int
      BY <1>6, <1>7, <1>8
    <3> HIDE DEF f
    <3> QED BY <3>1 DEF StepOf, PacketSteps
  <2> QED BY <2>1
<1>10. /\ pc'[p] = f \o t /\ DOMAIN pc' = Procs /\ \A q \in Procs : q # p => pc'[q] = pc[q]
  BY <1>1, Given, Zenon
<1> HIDE DEF f, t
<1> DEFINE k == pc'[p]
<1>11. /\ Plan(k, pushed) /\ Final(k) = Final(t)
       /\ First(k)[1] \in {"tryWait", "force", First(t)[1]}
       /\ \A g : Visits(t, g) => Visits(k, g)
       /\ \A i \in 1 .. Len(f) : Visits(k, f[i][2])
  <2>1. k = Joined(f, t)
    BY <1>10 DEF Joined
  <2> HIDE DEF k
  <2>2. \A i \in 1 .. Len(f) : StepOf(f[i], pushed)
    BY <1>9
  <2>3. (\A i \in 1 .. Len(f) : f[i][1] = "force") /\ First(t)[1] \in {"return", "import"}
    BY <1>3, <1>9
  <2> QED BY <1>3, <1>4, <1>8, <2>1, <2>2, <2>3, PlanLoop
<1> HIDE DEF k
<1>12. First(pc'[p])[1] \in {"tryWait", "force", "return", "import"} /\ Plan(pc'[p], pushed)
       /\ Final(pc'[p]) = Final(pc[p])
  BY <1>3, <1>4, <1>11 DEF k
<1>13. ~Purging(pc[p]) /\ ~Purging(pc'[p]) /\ (\A h : ~Holds(pc[p], h)) /\ (\A h : ~Holds(pc'[p], h))
  BY <1>1, <1>2, <1>12, Working
<1>14. /\ pushed' = pushed /\ segs' = segs /\ hits' = hits /\ missed' = missed /\ view' = view /\ due' = due /\ lock' = lock
       /\ owner' = owner
  BY <1>1 DEF stream
<1>15. late'[p] = <<>> /\ DOMAIN late' = Procs /\ \A q \in Procs : q # p => late'[q] = late[q]
  BY <1>1, <1>5 DEF Shared
<1>16. late'[p] \in Seq(pushed)
  BY <1>15
<1>17. Resolving(p)'
  <2>1. Resolving(p)
    BY <1>1, <1>2, <1>5 DEF InWait, Local
  <2>2. ASSUME NEW h, ToCome(p, h) PROVE ToCome(p, h)'
    <3>1. CASE Visits(pc[p], h)
      BY <1>1, <1>4, <1>11, <3>1 DEF ToCome, k
    <3>2. CASE \E i \in 1 .. Len(late[p]) : late[p][i] = h
      <4>1. PICK i \in 1 .. Len(late[p]) : late[p][i] = h
        BY <3>2
      <4>2. Visits(k, h)
        BY <1>8, <1>9, <1>11, <4>1
      <4> QED BY <4>2 DEF ToCome, k
    <3>3. First(pc[p])[1] # "collect" /\ First(pc[p])[1] # "apply"
      BY <1>1, <1>2
    <3> QED BY <2>2, <3>1, <3>2, <3>3 DEF ToCome
  <2> QED BY <1>14, <2>1, <2>2 DEF Resolving
<1>18. Local(p)'
  BY <1>5, <1>12, <1>13, <1>14, <1>16, <1>17 DEF Local
<1>19. Shared'
  BY <1>1, <1>5, <1>10, <1>15 DEF Shared, stream
<1> QED BY <1>1, <1>10, <1>12, <1>13, <1>14, <1>15, <1>18, <1>19, WorkKept

\* The packets of a set by their generations.
LEMMA SortedOf ==
  ASSUME NEW S, \A g \in S : g \in Gens
  PROVE  LET r == Sorted(S) IN
         /\ Cardinality(S) \in Nat /\ r = [i \in 1 .. Cardinality(S) |-> r[i]]
         /\ \A i \in 1 .. Cardinality(S) : r[i] \in S
         /\ \A g \in S : \E i \in 1 .. Cardinality(S) : r[i] = g
<1>1. IsFiniteSet(S) /\ \A g \in S : g \in Int
  <2>1. S \subseteq 1 .. 2 * MaxTickets /\ \A g \in S : g \in Int
    BY DEF Gens
  <2>2. IsFiniteSet(1 .. 2 * MaxTickets)
    BY BoundAssumption, FS_Interval
  <2> QED BY <2>1, <2>2, FS_Subset
<1>2. LET r == [i \in 1 .. Cardinality(S) |-> CHOOSE n \in S : Cardinality({m \in S : m <= n}) = i] IN
      /\ Cardinality(S) \in Nat
      /\ \A i \in 1 .. Cardinality(S) : r[i] \in S
      /\ \A n \in S : \E i \in 1 .. Cardinality(S) : r[i] = n
  BY <1>1, Ranked, Zenon
<1>3. Sorted(S) = [i \in 1 .. Cardinality(S) |-> CHOOSE n \in S : Cardinality({m \in S : m <= n}) = i]
  BY Zenon DEF Sorted
<1>4. Sorted(S) = [i \in 1 .. Cardinality(S) |-> Sorted(S)[i]]
  BY <1>3
<1> QED BY <1>2, <1>3, <1>4, Zenon

\* The wait for every packet begins.
LEMMA WaitApplyAllKept ==
  ASSUME ApplyInv, NEW p \in Procs, WaitApplyAll(p)
  PROVE  ApplyInv'
<1> DEFINE w == Sorted(updates)
           f == [i \in DOMAIN w |-> <<"tryWait", w[i]>>]
           N == Cardinality(updates)
           t == Tail(pc[p])
           A == AllSteps \X Int
           a == Step("forceLate")
<1>1. /\ pc[p] # <<>> /\ Head(pc[p])[1] = "waitAll" /\ Then(p, f \o <<a>>)
      /\ due' = [due EXCEPT ![p] = [packets |-> pushed, segs |-> segs]]
      /\ UNCHANGED <<stream, segs, hits, missed, queue, owner, tickets, lock, view, late, born, made, flushes>>
  BY DEF WaitApplyAll, At
<1>2. /\ First(pc[p]) = Head(pc[p])
      /\ Tail(pc[p]) = <<>> => Head(pc[p])[1] \in EndSteps
      /\ Tail(pc[p]) # <<>> => Follows(Head(pc[p]), First(Tail(pc[p])))
  BY <1>1, Behind
<1>3. t # <<>> /\ First(t)[1] \in {"return", "import"}
  BY <1>1, <1>2 DEF EndSteps, Follows
<1>4. Plan(t, pushed) /\ Final(t) = Final(pc[p])
  BY <1>1, <1>3, Advance, Zenon
<1>5. Shared /\ Local(p)
  BY DEF ApplyInv
<1>6. updates = pushed /\ \A g \in updates : g \in Gens /\ g \in Int
  BY <1>5 DEF Shared, Gens
<1>7. /\ N \in Nat /\ w = [i \in 1 .. N |-> w[i]]
      /\ \A i \in 1 .. N : w[i] \in updates
      /\ \A g \in updates : \E i \in 1 .. N : w[i] = g
  <2>1. \A g \in updates : g \in Gens
    BY <1>6
  <2> QED BY <2>1, SortedOf, Zenon
<1> HIDE DEF w, N
<1>8. \A i \in 1 .. N : w[i] \in pushed /\ w[i] \in Int
  BY <1>6, <1>7
<1>9. DOMAIN w = 1 .. N
  BY <1>7
<1>10. f = [i \in 1 .. N |-> <<"tryWait", w[i]>>]
  BY <1>9
<1>11. \A i \in 1 .. N : f[i] = <<"tryWait", w[i]>> /\ f[i] \in A
  BY <1>8, <1>10 DEF AllSteps
<1> HIDE DEF f, A
<1>12. f \in Seq(A) /\ Len(f) = N
  <2>1. f \in [1 .. N -> A]
    BY <1>10, <1>11
  <2> QED BY <1>7, <2>1
<1>13. \A i \in 1 .. Len(f) : StepOf(f[i], pushed) /\ f[i][1] = "tryWait" /\ f[i][2] = w[i]
  <2>1. ASSUME NEW i \in 1 .. Len(f) PROVE StepOf(f[i], pushed) /\ f[i][1] = "tryWait" /\ f[i][2] = w[i]
    <3>1. f[i] = <<"tryWait", w[i]>> /\ w[i] \in pushed /\ f[i] \in A
      BY <1>8, <1>11, <1>12
    <3> QED BY <3>1 DEF StepOf, PacketSteps, A
  <2> QED BY <2>1
<1>14. StepOf(a, pushed) /\ a[1] = "forceLate" /\ Follows(a, First(t)) /\ a \in A
  BY <1>3 DEF StepOf, Step, AllSteps, PacketSteps, Follows, A
<1>15. pc'[p] = (f \o <<a>>) \o t /\ DOMAIN pc' = Procs /\ \A q \in Procs : q # p => pc'[q] = pc[q]
  BY <1>1, Given, Zenon
<1> HIDE DEF a, t
<1> DEFINE e == Before(a, t)
<1>16. /\ Plan(e, pushed) /\ e # <<>> /\ First(e) = a /\ Final(e) = Final(t)
  <2>1. e = Before(a, t) /\ a[1] # "tryWait"
    BY <1>14
  <2> HIDE DEF e
  <2> QED BY <1>3, <1>4, <1>14, <2>1, PlanCons
<1> DEFINE k == pc'[p]
<1>17. k = Joined(f, e)
  <2> DEFINE b == <<a>>
  <2>1. b \in Seq(A) /\ t \in Seq(A)
    BY <1>4, <1>14 DEF Plan, A
  <2> HIDE DEF b
  <2>2. (f \o b) \o t = f \o (b \o t)
    BY <1>12, <2>1, ConcatAssociative, SMTT(30)
  <2> QED BY <1>15, <2>2, Zenon DEF Joined, Before, b
<1> HIDE DEF e, k
<1>18. /\ Plan(k, pushed) /\ Final(k) = Final(e)
       /\ First(k)[1] \in {"tryWait", "force", First(e)[1]}
       /\ \A i \in 1 .. Len(f) : Visits(k, f[i][2])
  <2>1. \A i \in 1 .. Len(f) : StepOf(f[i], pushed)
    BY <1>13
  <2>2. (\A i \in 1 .. Len(f) : f[i][1] = "tryWait") /\ First(e)[1] = "forceLate"
    BY <1>13, <1>14, <1>16
  <2>3. f \in Seq(AllSteps \X Int)
    BY <1>12 DEF A
  <2> QED BY <1>16, <1>17, <2>1, <2>2, <2>3, PlanLoop
<1>19. /\ First(pc'[p])[1] \in {"tryWait", "force", "forceLate"} /\ Plan(pc'[p], pushed)
       /\ Final(pc'[p]) = Final(pc[p])
  BY <1>4, <1>14, <1>16, <1>18 DEF k
<1>20. ~Purging(pc[p]) /\ ~Purging(pc'[p]) /\ (\A h : ~Holds(pc[p], h)) /\ (\A h : ~Holds(pc'[p], h))
  BY <1>1, <1>2, <1>19, Working
<1>21. /\ pushed' = pushed /\ segs' = segs /\ hits' = hits /\ missed' = missed /\ view' = view /\ late' = late /\ lock' = lock
       /\ owner' = owner
  BY <1>1 DEF stream
<1>22. /\ due'[p] = [packets |-> pushed, segs |-> segs] /\ DOMAIN due' = Procs
       /\ \A q \in Procs : q # p => due'[q] = due[q]
  BY <1>1, <1>5 DEF Shared
<1>23. due'[p].packets = pushed /\ due'[p].segs = segs
  BY <1>22
<1>24. Resolving(p)'
  <2>1. ASSUME NEW g \in pushed PROVE ToCome(p, g)'
    <3>1. PICK i \in 1 .. N : w[i] = g
      BY <1>6, <1>7
    <3>2. Visits(k, g)
      BY <1>12, <1>13, <1>18, <3>1
    <3> QED BY <3>2 DEF ToCome, k
  <2> QED BY <1>23, <2>1 DEF Resolving
<1>25. Local(p)'
  BY <1>5, <1>19, <1>20, <1>21, <1>23, <1>24 DEF Local
<1>26. Shared'
  BY <1>1, <1>5, <1>15, <1>22 DEF Shared, stream
<1> QED BY <1>1, <1>15, <1>19, <1>20, <1>21, <1>22, <1>25, <1>26, WorkKept

\* The last step of an operation.
LEMMA LastStep ==
  ASSUME ApplyInv, NEW p \in Procs, pc[p] # <<>>, Head(pc[p])[1] \in {"return", "import"}
  PROVE  /\ First(pc[p]) = Head(pc[p]) /\ Tail(pc[p]) = <<>> /\ Final(pc[p]) = Head(pc[p])
         /\ ~Purging(pc[p]) /\ (\A h : ~Holds(pc[p], h)) /\ Resolving(p)
         /\ \A h : ~ToCome(p, h)
<1>1. /\ First(pc[p]) = Head(pc[p])
      /\ Tail(pc[p]) = <<>> => Final(pc[p]) = Head(pc[p])
      /\ Tail(pc[p]) # <<>> => Follows(Head(pc[p]), First(Tail(pc[p])))
  BY Behind
<1>2. Tail(pc[p]) = <<>>
  BY <1>1 DEF Follows
<1>3. ~Purging(pc[p]) /\ (\A h : ~Holds(pc[p], h))
  BY <1>1, Working
<1>4. Local(p)
  BY DEF ApplyInv
<1>5. Resolving(p)
  BY <1>1, <1>4 DEF InWait, Local
<1>6. /\ pc[p] \in Seq(AllSteps \X Int) /\ Len(pc[p]) = 1 /\ pc[p][1] = Head(pc[p])
  <2>1. pc[p] \in Seq(AllSteps \X Int)
    BY <1>4 DEF Local, Plan
  <2>2. /\ Len(pc[p]) \in Nat \ {0} /\ pc[p][1] = Head(pc[p])
        /\ Len(pc[p]) > 1 => Tail(pc[p]) # <<>>
    BY <2>1, TailOf
  <2>3. ~(Len(pc[p]) > 1)
    BY <1>2, <2>2, Zenon
  <2> DEFINE n == Len(pc[p])
  <2>4. n \in Nat \ {0} /\ ~(n > 1)
    BY <2>2, <2>3
  <2> HIDE DEF n
  <2>5. n = 1
    BY <2>4
  <2> QED BY <2>1, <2>2, <2>5, Zenon DEF n
<1>7. ~HasLate(pc[p]) /\ \A h : ~Visits(pc[p], h)
  <2>1. \A i \in 1 .. Len(pc[p]) : i = 1
    BY <1>6
  <2> QED BY <1>6, <2>1 DEF HasLate, Visits
<1>8. \A h : ~ToCome(p, h)
  BY <1>1, <1>7 DEF ToCome
<1> QED BY <1>1, <1>2, <1>3, <1>5, <1>8

\* The operation returns.
LEMMA ReturnKept ==
  ASSUME ApplyInv, NEW p \in Procs, Return(p)
  PROVE  ApplyInv'
<1>1. /\ pc[p] # <<>> /\ Head(pc[p])[1] = "return" /\ Then(p, <<>>)
      /\ due' = [due EXCEPT ![p] = [packets |-> {}, segs |-> {}]]
      /\ lock' = [l \in Locks |-> IF lock[l] = p THEN None ELSE lock[l]]
      /\ UNCHANGED <<stream, segs, hits, missed, queue, owner, tickets, view, late, born, made, flushes>>
  BY DEF Return, At
<1>2. Tail(pc[p]) = <<>> /\ ~Purging(pc[p]) /\ \A h : ~Holds(pc[p], h)
  BY <1>1, LastStep
<1>3. pc'[p] = <<>> /\ Plan(pc'[p], pushed) /\ DOMAIN pc' = Procs /\ \A q \in Procs : q # p => pc'[q] = pc[q]
  BY <1>1, <1>2, Behind
<1>4. First(pc'[p])[1] = "end" /\ Final(pc'[p])[1] # "import"
  BY <1>3 DEF First, Final, NoStep
<1>5. ~Purging(pc'[p]) /\ (\A h : ~Holds(pc'[p], h)) /\ ~InWait(pc'[p])
  BY <1>4, Working DEF InWait
<1>6. Shared /\ Local(p)
  BY DEF ApplyInv
<1>7. lock["purgeMu"] # p /\ lock'["purgeMu"] = lock["purgeMu"] /\ lock' \in [Locks -> Procs \cup {None}]
  BY <1>1, <1>2, <1>6 DEF Local, Shared, Locks
<1>8. /\ pushed' = pushed /\ segs' = segs /\ hits' = hits /\ missed' = missed /\ view' = view /\ late' = late /\ owner' = owner
  BY <1>1 DEF stream
<1>9. /\ due'[p].packets = {} /\ due'[p].segs = {} /\ DOMAIN due' = Procs
      /\ \A q \in Procs : q # p => due'[q] = due[q]
  BY <1>1, <1>6 DEF Shared
<1>10. Local(p)'
  BY <1>2, <1>3, <1>5, <1>6, <1>7, <1>8, <1>9 DEF Local
<1>11. Shared'
  BY <1>1, <1>3, <1>6, <1>7, <1>9 DEF Shared, stream
<1> QED BY <1>1, <1>2, <1>3, <1>4, <1>5, <1>7, <1>8, <1>9, <1>10, <1>11, WorkKept

\* A segment of another index joins segmentInfos.
LEMMA ImportKept ==
  ASSUME ApplyInv, NEW p \in Procs, Import(p)
  PROVE  ApplyInv'
<1> DEFINE a == Step("return")
<1>1. /\ pc[p] # <<>> /\ Head(pc[p])[1] = "import" /\ Then(p, <<a>>)
      /\ born' = Append(born, nextGen) /\ segs' = segs \cup {-(Len(born) + 1)}
      /\ UNCHANGED <<stream, hits, missed, queue, owner, tickets, lock, view, late, due, made, flushes>>
  BY DEF Import, At
<1>2. /\ Tail(pc[p]) = <<>> /\ Final(pc[p]) = Head(pc[p]) /\ ~Purging(pc[p]) /\ (\A h : ~Holds(pc[p], h))
      /\ Resolving(p) /\ \A h : ~ToCome(p, h)
  BY <1>1, LastStep
<1>3. StepOf(a, pushed) /\ a[1] = "return" /\ a[1] \in EndSteps
  BY DEF Step, StepOf, AllSteps, PacketSteps, EndSteps
<1> HIDE DEF a
<1>4. /\ Plan(pc'[p], pushed) /\ First(pc'[p]) = a /\ Final(pc'[p]) = a
      /\ DOMAIN pc' = Procs /\ \A q \in Procs : q # p => pc'[q] = pc[q]
  <2>1. a[1] # "tryWait"
    BY <1>3
  <2> QED BY <1>1, <1>2, <1>3, <2>1, Ahead
<1>5. ~Purging(pc'[p]) /\ \A h : ~Holds(pc'[p], h)
  BY <1>3, <1>4, Working
<1>6. Shared /\ Local(p) /\ Imports
  BY DEF ApplyInv
<1>7. /\ pushed' = pushed /\ nextGen' = nextGen /\ hits' = hits /\ missed' = missed /\ owner' = owner /\ lock' = lock
      /\ view' = view /\ late' = late /\ due' = due
  BY <1>1 DEF stream
<1> DEFINE I == Importing
           J == Importing'
<1>8. J = I \ {p} /\ p \in I
  BY <1>1, <1>2, <1>3, <1>4 DEF Importing
<1>9. /\ IsFiniteSet(I) /\ Len(born) + Cardinality(I) <= flushes /\ flushes \in 0 .. MaxFlushes
      /\ born \in Seq(Int) /\ Len(born) \in Nat /\ nextGen \in Int
  BY <1>6 DEF Imports, Shared
<1> HIDE DEF I, J
<1>10. /\ IsFiniteSet(J) /\ Cardinality(I) \in Nat /\ Cardinality(J) \in Nat
       /\ Cardinality(J) = Cardinality(I) - 1
  <2>1. IsFiniteSet(J) /\ Cardinality(J) = Cardinality(I) - 1
    BY <1>8, <1>9, FS_RemoveElement
  <2> QED BY <1>9, <2>1, FS_CardinalityType
<1>11. Len(born) + 1 \in 1 .. MaxFlushes
  BY <1>9, <1>10, BoundAssumption
<1>12. born' \in Seq(Int) /\ Len(born') = Len(born) + 1
  BY <1>1, <1>9
<1>13. Imports'
  <2>1. Len(born') + Cardinality(J) <= flushes
    BY <1>9, <1>10, <1>12
  <2>2. flushes' = flushes
    BY <1>1
  <2> QED BY <1>10, <2>1, <2>2 DEF Imports, J
<1>14. Shared'
  <2>1. segs' \subseteq Gens \cup {-i : i \in 1 .. MaxFlushes}
    BY <1>1, <1>6, <1>11 DEF Shared
  <2>2. hits' \in [Gens -> SUBSET segs']
    BY <1>1, <1>6 DEF Shared
  <2> QED BY <1>1, <1>4, <1>6, <1>12, <2>1, <2>2 DEF Shared, stream
<1>15. segs \subseteq segs'
  BY <1>1
<1>16. Local(p)'
  <2>1. Resolving(p)'
    BY <1>2, <1>7 DEF Resolving
  <2> QED BY <1>2, <1>4, <1>5, <1>6, <1>7, <1>15, <2>1 DEF Local
<1>17. Moves(p)
  BY <1>4, <1>6, <1>7, <1>15 DEF Moves, Shared
<1>18. Budget'
  <2>1. ~Busy(pc[p]) /\ ~Busy(pc'[p])
    BY <1>2, <1>5 DEF Purging
  <2>2. tickets' \in Seq(Shapes \cup {{"global"}}) /\ made' \in Int /\ tickets' = tickets /\ made' = made
    BY <1>1, <1>6 DEF Shared
  <2> QED BY <1>4, <1>7, <2>1, <2>2, BudgetKept
<1>19. \A q \in Procs : Local(q)'
  BY <1>16, <1>17, OthersKept
<1> QED BY <1>13, <1>14, <1>18, <1>19 DEF ApplyInv

-----------------------------------------------------------------------------
(* The specification.                                                      *)

\* Nobody is inside an operation and nothing was flushed.
LEMMA InitInv == Init => ApplyInv
<1> SUFFICES ASSUME Init PROVE ApplyInv
  OBVIOUS
<1>1. Shared
  <2>1. <<>> \in Seq(pushed \cup {0}) /\ <<>> \in Seq(Shapes \cup {{"global"}}) /\ <<>> \in Seq(Int)
    OBVIOUS
  <2>2. /\ queue \in Seq(pushed \cup {0}) /\ tickets \in Seq(Shapes \cup {{"global"}}) /\ born \in Seq(Int)
    BY <2>1, Zenon DEF Init
  <2>3. 0 \in 0 .. MaxTickets /\ 0 \in 0 .. MaxFlushes
    BY BoundAssumption
  <2>4. /\ hits \in [Gens -> SUBSET segs] /\ owner \in [Gens -> Procs \cup {None}]
        /\ lock \in [Locks -> Procs \cup {None}]
    BY DEF Init
  <2>5. /\ nextGen \in Nat \ {0} /\ made \in 0 .. MaxTickets /\ flushes \in 0 .. MaxFlushes
        /\ updates = pushed /\ private \subseteq pushed /\ (\A g \in pushed : g \in Gens)
        /\ segs \subseteq Gens \cup {-i : i \in 1 .. MaxFlushes}
    BY <2>3 DEF Init
  <2>6. DOMAIN pc = Procs /\ DOMAIN view = Procs /\ DOMAIN late = Procs /\ DOMAIN due = Procs
    BY DEF Init
  <2> QED BY <2>2, <2>4, <2>5, <2>6 DEF Shared
<1>2. \A p \in Procs : pc[p] = <<>>
  BY DEF Init
<1>3. \A p \in Procs : First(pc[p])[1] = "end" /\ Final(pc[p])[1] = "end"
  BY <1>2 DEF First, Final, NoStep
<1>4. \A p \in Procs : ~Purging(pc[p]) /\ ~Busy(pc[p]) /\ ~InWait(pc[p]) /\ \A g : ~Holds(pc[p], g)
  BY <1>3, PlainStep DEF Plain
<1>5. ASSUME NEW p \in Procs PROVE Local(p)
  <2>1. Plan(pc[p], pushed)
    BY <1>2, Begins
  <2>2. /\ \A g \in Gens : owner[g] # p
        /\ lock["purgeMu"] # p
    BY NoneAssumption DEF Init, Locks
  <2>3. view[p] = {} /\ late[p] = <<>> /\ due[p].packets = {} /\ due[p].segs = {}
    BY DEF Init
  <2>4. late[p] \in Seq(pushed)
    BY <2>3
  <2> QED BY <1>4, <2>1, <2>2, <2>3, <2>4 DEF Local
<1>6. Budget
  <2>1. nextGen = 1 /\ made = 0 /\ Len(tickets) = 0
    BY DEF Init
  <2> QED BY <1>4, <2>1 DEF Budget
<1>7. Imports
  <2>1. Importing = {}
    BY <1>3 DEF Importing
  <2>2. Len(born) = 0 /\ flushes = 0
    BY DEF Init
  <2>3. IsFiniteSet({}) /\ Cardinality({}) = 0
    BY FS_EmptySet
  <2> QED BY <2>1, <2>2, <2>3 DEF Imports
<1> QED BY <1>1, <1>5, <1>6, <1>7 DEF ApplyInv

\* Every step of every goroutine keeps the invariant.
LEMMA StepKept == ApplyInv /\ [Next]_vars => ApplyInv'
<1> SUFFICES ASSUME ApplyInv, [Next]_vars PROVE ApplyInv'
  OBVIOUS
<1>1. CASE vars' = vars
  <2>1. /\ nextGen' = nextGen /\ updates' = updates /\ pushed' = pushed /\ private' = private /\ segs' = segs
        /\ hits' = hits /\ missed' = missed /\ queue' = queue /\ owner' = owner /\ tickets' = tickets /\ lock' = lock /\ pc' = pc
        /\ view' = view /\ late' = late /\ due' = due /\ born' = born /\ made' = made /\ flushes' = flushes
    BY <1>1 DEF vars, stream, local
  <2>2. Shared'
    BY <2>1 DEF ApplyInv, Shared
  <2>3. ASSUME NEW p \in Procs PROVE Local(p)'
    <3>1. Local(p)
      BY DEF ApplyInv
    <3>2. Resolving(p)' <=> Resolving(p)
      BY <2>1 DEF Resolving, ToCome
    <3> QED BY <2>1, <3>1, <3>2 DEF Local
  <2>4. Budget'
    BY <2>1 DEF ApplyInv, Budget
  <2>5. Imports'
    BY <2>1 DEF ApplyInv, Imports, Importing
  <2> QED BY <2>2, <2>3, <2>4, <2>5 DEF ApplyInv
<1>2. CASE \E p \in Procs : FlushDWPT(p) \/ ApplyAllDeletes(p) \/ Flush(p) \/ AddIndexes(p)
  BY <1>2, TicketsKept, BeginsKept
<1>3. ASSUME NEW p \in Procs, Work(p) PROVE ApplyInv'
  <2>1. CASE FullFlush(p) \/ FlushAll(p) \/ EndFull(p)
    BY <2>1, FullFlushKept
  <2>2. CASE Purge(p) \/ PublishHead(p) \/ PopTicket(p)
    BY <2>2, PurgeKept, PublishHeadKept, PopTicketKept
  <2>3. CASE Push(p) \/ NextGen(p)
    BY <2>3, PushKept, NextGenKept
  <2>4. CASE AddEvent(p) \/ AddSegment(p)
    BY <2>4, AddEventKept, AddSegmentKept
  <2>5. CASE MaybeEvents(p) \/ ProcessEvents(p)
    BY <2>5, MaybeEventsKept, ProcessEventsKept
  <2>6. CASE TryApply(p) \/ ForceApply(p)
    BY <2>6, TryApplyKept, ForceApplyKept
  <2>7. CASE Collect(p) \/ Apply(p) \/ ApplyFails(p)
    BY <2>7, CollectKept, ApplyKept, ApplyFailsKept
  <2>8. CASE ForceLate(p) \/ WaitApplyAll(p)
    BY <2>8, ForceLateKept, WaitApplyAllKept
  <2>9. CASE Import(p) \/ Return(p)
    BY <2>9, ImportKept, ReturnKept
  <2> QED BY <1>3, <2>1, <2>2, <2>3, <2>4, <2>5, <2>6, <2>7, <2>8, <2>9 DEF Work
<1>4. Rest => vars' = vars
  BY DEF Rest
<1> QED BY <1>1, <1>2, <1>3, <1>4, Zenon DEF Next

\* The types, and the owners of the locks.
LEMMA InvTypes == ApplyInv => TypeOK
<1> SUFFICES ASSUME ApplyInv PROVE TypeOK
  OBVIOUS
<1>1. Shared /\ Budget /\ \A p \in Procs : Local(p)
  BY DEF ApplyInv
<1>2. nextGen \in 1 .. 2 * MaxTickets + 1
  <2>1. nextGen \in Nat \ {0} /\ made \in 0 .. MaxTickets /\ tickets \in Seq(Shapes \cup {{"global"}})
    BY <1>1 DEF Shared
  <2>2. Len(tickets) \in Nat /\ (tickets # <<>> => Len(tickets) >= 1)
    BY <2>1, NoElements
  <2>3. nextGen - 1 <= 2 * made
    <3>1. CASE \A p \in Procs : ~Busy(pc[p])
      <4>1. nextGen - 1 + 2 * Len(tickets) <= 2 * made
        BY <1>1, <3>1 DEF Budget
      <4> QED BY <2>1, <2>2, <4>1
    <3>2. CASE \E p \in Procs : Busy(pc[p])
      <4>1. PICK p \in Procs : Busy(pc[p])
        BY <3>2
      <4>2. tickets # <<>> /\ nextGen - 1 + Owed(pc[p]) + 2 * (Len(tickets) - 1) <= 2 * made
        BY <1>1, <4>1 DEF Budget
      <4>3. Owed(pc[p]) \in Nat
        BY DEF Owed, One
      <4> QED BY <2>1, <2>2, <4>2, <4>3
    <3> QED BY <3>1, <3>2
  <2> QED BY <2>1, <2>3, BoundAssumption
<1>3. /\ updates \subseteq pushed /\ pushed \subseteq Gens /\ private \subseteq pushed
      /\ segs \subseteq Gens \cup {-i : i \in 1 .. MaxFlushes}
      /\ \A g \in Gens : hits[g] \subseteq segs
      /\ \A i \in DOMAIN queue : queue[i] \in pushed \cup {0}
  BY <1>1 DEF Shared
<1>4. ASSUME NEW p \in Procs, First(pc[p])[1] # "end"
      PROVE  pc[p] # <<>> /\ First(pc[p]) = Head(pc[p]) /\ StepOf(Head(pc[p]), pushed)
  <2>1. pc[p] # <<>>
    BY <1>4 DEF First, NoStep
  <2> QED BY <2>1, Behind
<1>5. ASSUME NEW g \in Gens, owner[g] # None
      PROVE  /\ g \in pushed /\ pc[owner[g]] # <<>>
             /\ Head(pc[owner[g]]) \in {"collect", "apply", "applyEvent"} \X {g}
  <2>1. PICK p \in Procs : owner[g] = p
    BY <1>1, <1>5 DEF Shared
  <2>2. First(pc[p])[1] \in {"collect", "apply", "applyEvent"} /\ First(pc[p])[2] = g
    BY <1>1, <2>1 DEF Local, Holds
  <2>3. pc[p] # <<>> /\ First(pc[p]) = Head(pc[p]) /\ StepOf(Head(pc[p]), pushed)
    BY <1>4, <2>2
  <2>4. g \in pushed /\ Head(pc[p]) \in {"collect", "apply", "applyEvent"} \X {g}
    BY <2>2, <2>3 DEF StepOf, PacketSteps
  <2> QED BY <2>1, <2>3, <2>4
<1>6. ASSUME lock["purgeMu"] # None PROVE pc[lock["purgeMu"]] # <<>>
  <2>1. PICK p \in Procs : lock["purgeMu"] = p
    BY <1>1, <1>6 DEF Shared, Locks
  <2>2. Purging(pc[p])
    BY <1>1, <2>1 DEF Local
  <2>3. First(pc[p])[1] # "end"
    BY <2>2 DEF Purging, Busy, GenSteps
  <2> QED BY <1>4, <2>1, <2>3
<1> QED BY <1>2, <1>3, <1>5, <1>6 DEF TypeOK

\* For any number of goroutines, tickets, flushes and imports and any capacity
\* of the event queue: a packet's apply lock is held by the goroutine that
\* applies the packet and purgeMu by one that publishes, generations stay
\* within those of the tickets, and when Flush or the flush of AddIndexes
\* comes back from WaitApplyAll, every packet pushed before its wait was
\* applied to every older segment that was published before it, or an
\* application of it skipped that segment.
THEOREM PacketsAreResolved == Spec => []PacketsResolved
<1>1. ApplyInv => PacketsResolved
  <2> SUFFICES ASSUME ApplyInv PROVE PacketsResolved
    OBVIOUS
  <2>1. TypeOK
    BY InvTypes
  <2>2. ASSUME NEW p \in Procs, At(p, "return") \/ At(p, "import"),
               NEW g \in due[p].packets, NEW s \in due[p].segs, DelGen(s) <= g
        PROVE  s \in hits[g] \/ <<g, s>> \in missed
    <3>1. pc[p] # <<>> /\ Head(pc[p])[1] \in {"return", "import"}
      BY <2>2 DEF At
    <3>2. Resolving(p) /\ ~ToCome(p, g)
      BY <3>1, LastStep
    <3> QED BY <2>2, <3>2 DEF Resolving
  <2>3. DeletesResolved
    BY <2>2 DEF DeletesResolved
  <2> QED BY <2>1, <2>3 DEF PacketsResolved
<1> QED BY <1>1, InitInv, StepKept, PTL DEF Spec
=============================================================================
