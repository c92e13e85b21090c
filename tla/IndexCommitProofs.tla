------------------------- MODULE IndexCommitProofs -------------------------
(***************************************************************************)
(* Proofs about the commit path, for one goroutine that uses the writer    *)
(* and any number of segments, commits, failures and crashes.              *)
(***************************************************************************)
EXTENDS IndexCommit, FiniteSetTheorems, TLAPS

-----------------------------------------------------------------------------
(* The goroutine and what it is doing.                                     *)

\* The goroutine that uses the writer, and the steps it still has to take.
Me    == CHOOSE p \in Procs : TRUE
Steps == pc[Me]

\* One goroutine at a time uses the writer, and the machine does not lose power.
Serial == Procs = {Me} /\ ~PowerLoss

\* The step it is at, the last step of its operation, and how many are left.
First(k) == IF k = <<>> THEN "end" ELSE Head(k)
Final(k) == IF k = <<>> THEN "end" ELSE k[Len(k)]
step == First(Steps)
aim  == Final(Steps)
left == Len(Steps)

PurgeSteps == {"purge", "changed", "checkpoint", "pin", "dropNew"}
FlushStages == PurgeSteps \cup {"flushAll", "endFullFlush", "pool", "poolDrop", "poolEnd"}

AllSteps == FlushStages \cup
  {"tryPurge", "clone", "protect", "unlink", "return", "write", "rename", "sync", "register",
   "finish", "abort", "discard", "restore", "refresh", "closeDeleter", "closed"}

\* Where a step can stand in an operation: n steps from its end, which is g.
Spot(s, g, n) ==
  \/ g = "finish" /\ n = 1 /\ s = "finish"
  \/ g = "finish" /\ n = 2 /\ s = "unlink"
  \/ g = "finish" /\ n = 3 /\ s = "register"
  \/ g = "finish" /\ n = 4 /\ s = "sync"
  \/ g = "finish" /\ n = 5 /\ s = "rename"
  \/ g = "finish" /\ n = 6 /\ s = "write"
  \/ g = "finish" /\ n = 7 /\ s = "unlink"
  \/ g = "finish" /\ n = 8 /\ s = "protect"
  \/ g = "finish" /\ n = 9 /\ s = "clone"
  \/ g = "finish" /\ n > 9 /\ s \in FlushStages
  \/ g = "return" /\ n = 1 /\ s = "return"
  \/ g = "return" /\ n = 2 /\ s = "unlink"
  \/ g = "return" /\ n = 3 /\ s = "protect"
  \/ g = "return" /\ n = 4 /\ s = "clone"
  \/ g = "return" /\ n > 4 /\ s \in FlushStages
  \/ g = "closed" /\ n = 1 /\ s = "closed"
  \/ g = "closed" /\ n = 2 /\ s = "unlink"
  \/ g = "closed" /\ n = 3 /\ s = "closeDeleter"
  \/ g = "closed" /\ n = 4 /\ s = "unlink"
  \/ g = "closed" /\ n = 5 /\ s = "refresh"
  \/ g = "closed" /\ n = 6 /\ s = "pin"
  \/ g = "closed" /\ n = 7 /\ s = "checkpoint"
  \/ g = "closed" /\ n = 8 /\ s = "restore"
  \/ g = "closed" /\ n = 9 /\ s = "unlink"
  \/ g = "closed" /\ n = 10 /\ s = "discard"
  \/ g = "closed" /\ n > 10 /\ s \in PurgeSteps \cup {"abort"}
  \/ g = "poolEnd" /\ n >= 1 /\ s \in FlushStages
  \/ g = "purge" /\ n >= 1 /\ s \in PurgeSteps
  \/ g = "tryPurge" /\ n = 1 /\ s = "tryPurge"

\* The steps of a flush and of a purge that follow one another.
Follows(s, t) ==
  /\ s = "purge" => t \in {"endFullFlush", "discard"}
  /\ s = "changed" => t = "checkpoint"
  /\ s = "checkpoint" => t = "pin"
  /\ s = "pin" => t \in {"dropNew", "purge", "poolDrop", "poolEnd", "refresh"}
  /\ s \in {"dropNew", "flushAll", "abort"} => t = "purge"
  /\ s = "endFullFlush" => t = "pool"
  /\ s = "pool" => t = "poolDrop"
  /\ s = "poolDrop" => t = "poolEnd"
  /\ s = "poolEnd" => t = "clone"

\* k is what is left of an operation.
Plan(k) ==
  /\ k \in Seq(AllSteps)
  /\ \A i \in 1 .. Len(k) : Spot(k[i], k[Len(k)], Len(k) - i + 1)
  /\ \A i \in 1 .. Len(k) - 1 : Follows(k[i], k[i + 1])

\* A sequence without elements.
LEMMA EmptySeq ==
  ASSUME NEW A, NEW s \in Seq(A)
  PROVE  Len(s) \in Nat /\ (s = <<>> <=> Len(s) = 0)
  OBVIOUS

\* A sequence after its first element.
LEMMA TailOf ==
  ASSUME NEW A, NEW k \in Seq(A), k # <<>>
  PROVE  /\ Tail(k) \in Seq(A) /\ Len(Tail(k)) = Len(k) - 1 /\ Len(k) \in Nat \ {0}
         /\ \A i \in 1 .. Len(k) - 1 : Tail(k)[i] = k[i + 1]
         /\ Head(k) = k[1] /\ k[1] \in A
         /\ Len(k) = 1 => Tail(k) = <<>>
         /\ Len(k) > 1 => Tail(k) # <<>> /\ Head(Tail(k)) = k[2]
<1> DEFINE t == Tail(k)
<1>1. t \in Seq(A) /\ Len(t) = Len(k) - 1 /\ \A i \in 1 .. Len(k) - 1 : t[i] = k[i + 1]
  OBVIOUS
<1>2. Len(k) \in Nat \ {0} /\ Head(k) = k[1] /\ k[1] \in A
  OBVIOUS
<1> HIDE DEF t
<1>3. Len(k) = 1 => t = <<>>
  BY <1>1, EmptySeq
<1>4. Len(k) > 1 => t # <<>>
  BY <1>1, EmptySeq
<1>5. Len(k) > 1 => Head(t) = k[2]
  BY <1>1, <1>2, <1>4
<1> QED BY <1>1, <1>2, <1>3, <1>4, <1>5 DEF t

\* A sequence with an element in front.
LEMMA ConsOf ==
  ASSUME NEW A, NEW k \in Seq(A), NEW s \in A
  PROVE  LET c == <<s>> \o k IN
         /\ c \in Seq(A) /\ Len(c) = Len(k) + 1 /\ c # <<>>
         /\ c[1] = s /\ \A i \in 2 .. Len(k) + 1 : c[i] = k[i - 1]
         /\ Head(c) = s /\ Tail(c) = k
<1>1. <<s>> \o k \in Seq(A)
  <2>1. \A t \in Seq(A) : t \o k \in Seq(A)
    OBVIOUS
  <2>2. <<s>> \in Seq(A)
    OBVIOUS
  <2> QED BY <2>1, <2>2, Zenon
<1>2. Len(<<s>> \o k) = Len(k) + 1
  OBVIOUS
<1>3. (<<s>> \o k)[1] = s
  OBVIOUS
<1>4. \A i \in 2 .. Len(k) + 1 : (<<s>> \o k)[i] = k[i - 1]
  OBVIOUS
<1>5. Tail(<<s>> \o k) = k
  OBVIOUS
<1> DEFINE c == <<s>> \o k
<1>6. /\ c \in Seq(A) /\ Len(c) = Len(k) + 1 /\ c[1] = s /\ Tail(c) = k
      /\ \A i \in 2 .. Len(k) + 1 : c[i] = k[i - 1]
  BY <1>1, <1>2, <1>3, <1>4, <1>5, Zenon
<1> HIDE DEF c
<1>7. c # <<>> /\ Head(c) = s
  BY <1>6, EmptySeq
<1> QED BY <1>6, <1>7, Zenon DEF c

\* The rest of an operation after its first step.
LEMMA PlanTail ==
  ASSUME NEW k, Plan(k), k # <<>>
  PROVE  /\ Plan(Tail(k)) /\ Len(Tail(k)) = Len(k) - 1 /\ Len(k) \in Nat \ {0}
         /\ Spot(Head(k), k[Len(k)], Len(k)) /\ Head(k) \in AllSteps
         /\ Len(k) = 1 => Tail(k) = <<>> /\ Head(k) = k[Len(k)]
         /\ Len(k) > 1 => /\ Tail(k) # <<>> /\ Tail(k)[Len(Tail(k))] = k[Len(k)]
                          /\ Follows(Head(k), Head(Tail(k)))
<1>1. /\ k \in Seq(AllSteps) /\ Len(k) \in Nat \ {0} /\ Head(k) = k[1] /\ Head(k) \in AllSteps
      /\ Tail(k) \in Seq(AllSteps) /\ Len(Tail(k)) = Len(k) - 1
      /\ \A i \in 1 .. Len(k) - 1 : Tail(k)[i] = k[i + 1]
  BY TailOf DEF Plan
<1>2. Len(k) = 1 => Tail(k) = <<>>
  BY <1>1, TailOf
<1>3. Len(k) > 1 => Tail(k) # <<>> /\ Head(Tail(k)) = k[2] /\ Tail(k)[Len(Tail(k))] = k[Len(k)]
  <2>1. Len(k) > 1 => Len(k) - 1 \in 1 .. Len(k) - 1 /\ Len(k) - 1 + 1 = Len(k)
    BY <1>1
  <2> QED BY <1>1, <2>1, TailOf
<1>4. Spot(Head(k), k[Len(k)], Len(k))
  <2>1. 1 \in 1 .. Len(k) /\ Len(k) - 1 + 1 = Len(k)
    BY <1>1
  <2> QED BY <1>1, <2>1 DEF Plan
<1>5. Len(k) > 1 => Follows(Head(k), Head(Tail(k)))
  <2>1. Len(k) > 1 => 1 \in 1 .. Len(k) - 1
    BY <1>1
  <2> QED BY <1>1, <1>3, <2>1 DEF Plan
<1>6. ASSUME NEW i \in 1 .. Len(Tail(k))
      PROVE  Spot(Tail(k)[i], Tail(k)[Len(Tail(k))], Len(Tail(k)) - i + 1)
  <2>1. i + 1 \in 1 .. Len(k) /\ Len(k) > 1 /\ Len(k) - (i + 1) + 1 = Len(Tail(k)) - i + 1
    BY <1>1
  <2>2. Spot(k[i + 1], k[Len(k)], Len(k) - (i + 1) + 1)
    BY <2>1 DEF Plan
  <2> QED BY <1>1, <1>3, <2>1, <2>2
<1>7. ASSUME NEW i \in 1 .. Len(Tail(k)) - 1
      PROVE  Follows(Tail(k)[i], Tail(k)[i + 1])
  <2>1. i + 1 \in 1 .. Len(k) - 1 /\ i \in 1 .. Len(k) - 1
    BY <1>1
  <2>2. Follows(k[i + 1], k[i + 1 + 1])
    BY <2>1 DEF Plan
  <2> QED BY <1>1, <2>1, <2>2
<1>8. Plan(Tail(k))
  BY <1>1, <1>6, <1>7 DEF Plan
<1> QED BY <1>1, <1>2, <1>3, <1>4, <1>5, <1>8

\* A step in front of the rest of an operation.
LEMMA PlanCons ==
  ASSUME NEW k, Plan(k), k # <<>>, NEW s \in AllSteps,
         Spot(s, k[Len(k)], Len(k) + 1), Follows(s, Head(k))
  PROVE  LET c == <<s>> \o k IN
         /\ Plan(c) /\ c # <<>> /\ Head(c) = s /\ Tail(c) = k
         /\ Len(c) = Len(k) + 1 /\ c[Len(c)] = k[Len(k)]
<1> DEFINE c == <<s>> \o k
<1>1. /\ k \in Seq(AllSteps) /\ Len(k) \in Nat \ {0} /\ Head(k) = k[1]
      /\ c \in Seq(AllSteps) /\ Len(c) = Len(k) + 1 /\ c[1] = s
      /\ \A i \in 2 .. Len(k) + 1 : c[i] = k[i - 1]
  <2>1. k \in Seq(AllSteps)
    BY DEF Plan
  <2>2. Len(k) \in Nat \ {0} /\ Head(k) = k[1]
    BY <2>1, TailOf
  <2>3. /\ c \in Seq(AllSteps) /\ Len(c) = Len(k) + 1 /\ c[1] = s
        /\ \A i \in 2 .. Len(k) + 1 : c[i] = k[i - 1]
    BY <2>1, ConsOf, ZenonT(30)
  <2> QED BY <2>1, <2>2, <2>3, Zenon
<1>2. c # <<>> /\ Head(c) = s /\ Tail(c) = k
  BY <1>1, ConsOf, ZenonT(30)
<1>4. c[Len(c)] = k[Len(k)]
  BY <1>1
<1> HIDE DEF c
<1>5. ASSUME NEW i \in 1 .. Len(c) PROVE Spot(c[i], c[Len(c)], Len(c) - i + 1)
  <2>1. CASE i = 1
    <3>1. Len(c) - i + 1 = Len(k) + 1
      BY <1>1, <2>1
    <3> QED BY <1>1, <1>4, <2>1, <3>1
  <2>2. CASE i # 1
    <3>1. i \in 2 .. Len(k) + 1 /\ i - 1 \in 1 .. Len(k) /\ Len(c) - i + 1 = Len(k) - (i - 1) + 1
      BY <1>1, <2>2
    <3>2. Spot(k[i - 1], k[Len(k)], Len(k) - (i - 1) + 1)
      BY <3>1 DEF Plan
    <3> QED BY <1>1, <1>4, <3>1, <3>2
  <2> QED BY <2>1, <2>2
<1>6. ASSUME NEW i \in 1 .. Len(c) - 1 PROVE Follows(c[i], c[i + 1])
  <2>1. CASE i = 1
    <3>1. c[i + 1] = k[1]
      BY <1>1, <2>1
    <3> QED BY <1>1, <2>1, <3>1
  <2>2. CASE i # 1
    <3>1. /\ i \in 2 .. Len(k) + 1 /\ i + 1 \in 2 .. Len(k) + 1 /\ i - 1 \in 1 .. Len(k) - 1
          /\ (i + 1) - 1 = (i - 1) + 1
      BY <1>1, <2>2
    <3>2. Follows(k[i - 1], k[(i - 1) + 1])
      BY <3>1 DEF Plan
    <3> QED BY <1>1, <3>1, <3>2
  <2> QED BY <2>1, <2>2
<1>7. Plan(c)
  BY <1>1, <1>5, <1>6 DEF Plan
<1> QED BY <1>1, <1>2, <1>4, <1>7 DEF c

\* Where an operation is.
LEMMA Where ==
  ASSUME NEW k, Plan(k)
  PROVE  /\ Len(k) \in Nat /\ (First(k) = "end" <=> k = <<>>) /\ (k = <<>> <=> Len(k) = 0)
         /\ k = <<>> => Final(k) = "end"
         /\ k # <<>> => /\ Spot(First(k), Final(k), Len(k))
                        /\ Len(k) = 1 => First(k) = Final(k)
<1>1. k \in Seq(AllSteps)
  BY DEF Plan
<1>2. Len(k) \in Nat /\ (k = <<>> <=> Len(k) = 0)
  BY <1>1, EmptySeq
<1>3. CASE k = <<>>
  BY <1>2, <1>3 DEF First, Final
<1>4. CASE k # <<>>
  <2>1. First(k) = Head(k) /\ Final(k) = k[Len(k)]
    BY <1>4 DEF First, Final
  <2>2. Spot(First(k), Final(k), Len(k)) /\ (Len(k) = 1 => First(k) = Final(k))
    BY <1>4, <2>1, PlanTail
  <2>3. First(k) # "end"
    BY <2>2 DEF Spot, FlushStages, PurgeSteps
  <2> QED BY <1>2, <1>4, <2>2, <2>3
<1> QED BY <1>3, <1>4

\* The next step of an operation.
LEMMA Advance ==
  ASSUME NEW k, Plan(k), k # <<>>
  PROVE  LET t == Tail(k) IN
         /\ Plan(t) /\ Len(t) = Len(k) - 1 /\ <<>> \o t = t
         /\ Len(k) = 1 => t = <<>> /\ First(t) = "end" /\ Final(t) = "end"
         /\ Len(k) > 1 => /\ t # <<>> /\ Final(t) = Final(k)
                          /\ Follows(First(k), First(t)) /\ Spot(First(t), Final(k), Len(k) - 1)
<1> DEFINE t == Tail(k)
<1>1. /\ Plan(t) /\ Len(t) = Len(k) - 1
      /\ Len(k) = 1 => t = <<>>
      /\ Len(k) > 1 => t # <<>> /\ t[Len(t)] = k[Len(k)] /\ Follows(Head(k), Head(t))
  BY PlanTail
<1> HIDE DEF t
<1>2. <<>> \o t = t
  BY <1>1 DEF Plan
<1>3. First(k) = Head(k) /\ Final(k) = k[Len(k)]
  BY DEF First, Final
<1>4. Len(k) = 1 => First(t) = "end" /\ Final(t) = "end"
  BY <1>1 DEF First, Final
<1>5. Len(k) > 1 => Final(t) = Final(k) /\ Follows(First(k), First(t))
  BY <1>1, <1>3 DEF First, Final
<1>6. Len(k) > 1 => Spot(First(t), Final(k), Len(k) - 1)
  BY <1>1, <1>5, Where
<1> QED BY <1>1, <1>2, <1>4, <1>5, <1>6 DEF t

\* Steps put in front of the rest of an operation.
LEMMA Pushed ==
  ASSUME NEW k, Plan(k), k # <<>>, NEW s \in AllSteps,
         Spot(s, Final(k), Len(k) + 1), Follows(s, First(k))
  PROVE  LET c == <<s>> \o k IN
         Plan(c) /\ c # <<>> /\ First(c) = s /\ Final(c) = Final(k) /\ Len(c) = Len(k) + 1
<1>1. First(k) = Head(k) /\ Final(k) = k[Len(k)]
  BY DEF First, Final
<1> DEFINE c == <<s>> \o k
<1>2. /\ Plan(c) /\ c # <<>> /\ Head(c) = s
      /\ Len(c) = Len(k) + 1 /\ c[Len(c)] = k[Len(k)]
  BY <1>1, PlanCons, Zenon
<1> HIDE DEF c
<1>3. First(c) = s /\ Final(c) = Final(k)
  BY <1>1, <1>2 DEF First, Final
<1> QED BY <1>2, <1>3 DEF c

\* Concatenations of the literals.
LEMMA Joined ==
  ASSUME NEW k \in Seq(AllSteps)
  PROVE  /\ Checkpoint \o k = <<"checkpoint">> \o (<<"pin">> \o k)
         /\ (<<"changed">> \o Checkpoint) \o k = <<"changed">> \o (<<"checkpoint">> \o (<<"pin">> \o k))
         /\ ((<<"changed">> \o Checkpoint) \o <<"dropNew">>) \o k
              = <<"changed">> \o (<<"checkpoint">> \o (<<"pin">> \o (<<"dropNew">> \o k)))
<1>1. Checkpoint \o k = <<"checkpoint">> \o (<<"pin">> \o k)
  BY DEF Checkpoint
<1>2. (<<"changed">> \o Checkpoint) \o k = <<"changed">> \o (<<"checkpoint">> \o (<<"pin">> \o k))
  BY DEF Checkpoint
<1>3. ((<<"changed">> \o Checkpoint) \o <<"dropNew">>) \o k
        = <<"changed">> \o (<<"checkpoint">> \o (<<"pin">> \o (<<"dropNew">> \o k)))
  BY DEF Checkpoint
<1> QED BY <1>1, <1>2, <1>3

\* k is at s, n steps from its end g.
Route(k, s, g, n) == Plan(k) /\ k # <<>> /\ First(k) = s /\ Final(k) = g /\ Len(k) = n

\* An operation is given by its steps.
LEMMA Given ==
  ASSUME NEW k \in Seq(AllSteps), NEW n \in Nat \ {0}, Len(k) = n,
         \A i \in 1 .. n : Spot(k[i], k[n], n - i + 1),
         \A i \in 1 .. n - 1 : Follows(k[i], k[i + 1])
  PROVE  Route(k, k[1], k[n], n)
<1>1. k # <<>> /\ Head(k) = k[1]
  BY EmptySeq
<1> QED BY <1>1 DEF Route, Plan, First, Final

\* A step in front of an operation.
LEMMA PushedRoute ==
  ASSUME NEW k, NEW s \in AllSteps, NEW t, NEW g, NEW n, NEW m, Route(k, t, g, n),
         m = n + 1, Spot(s, g, m), Follows(s, t)
  PROVE  Route(<<s>> \o k, s, g, m)
  BY Pushed, Zenon DEF Route

\* Concatenations of steps.
LEMMA ConcatIn ==
  ASSUME NEW A, NEW s \in Seq(A), NEW t \in Seq(A)
  PROVE  s \o t \in Seq(A)
  OBVIOUS

\* The purge after a flush.
LEMMA TryPurgeRoute == Route(<<"tryPurge">>, "tryPurge", "tryPurge", 1)
<1> DEFINE k == <<"tryPurge">>
<1>1. k \in Seq(AllSteps)
  <2>1. <<"tryPurge">> \in Seq(AllSteps)
    BY DEF AllSteps, FlushStages, PurgeSteps
  <2> QED BY <2>1
<1>2. Len(k) = 1
  OBVIOUS
<1>3. /\ k[1] = "tryPurge"
  OBVIOUS
<1> HIDE DEF k
<1>4. ASSUME NEW i \in 1 .. 1 PROVE Spot(k[i], k[1], 1 - i + 1)
  BY <1>3 DEF Spot, FlushStages, PurgeSteps
<1>5. ASSUME NEW i \in 1 .. 1 - 1 PROVE Follows(k[i], k[i + 1])
  BY <1>3 DEF Follows
<1>6. Route(k, k[1], k[1], 1)
  <2>1. 1 \in Nat \ {0}
    OBVIOUS
  <2> QED BY <1>1, <1>2, <1>4, <1>5, <2>1, Given, Zenon
<1> QED BY <1>3, <1>6 DEF k

\* A purge by itself.
LEMMA PurgeRoute == Route(<<"purge">>, "purge", "purge", 1)
<1> DEFINE k == <<"purge">>
<1>1. k \in Seq(AllSteps)
  <2>1. <<"purge">> \in Seq(AllSteps)
    BY DEF AllSteps, FlushStages, PurgeSteps
  <2> QED BY <2>1
<1>2. Len(k) = 1
  OBVIOUS
<1>3. /\ k[1] = "purge"
  OBVIOUS
<1> HIDE DEF k
<1>4. ASSUME NEW i \in 1 .. 1 PROVE Spot(k[i], k[1], 1 - i + 1)
  BY <1>3 DEF Spot, FlushStages, PurgeSteps
<1>5. ASSUME NEW i \in 1 .. 1 - 1 PROVE Follows(k[i], k[i + 1])
  BY <1>3 DEF Follows
<1>6. Route(k, k[1], k[1], 1)
  <2>1. 1 \in Nat \ {0}
    OBVIOUS
  <2> QED BY <1>1, <1>2, <1>4, <1>5, <2>1, Given, Zenon
<1> QED BY <1>3, <1>6 DEF k

\* doFlush from its first step.
LEMMA FlushRoute == Route(DoFlush, "flushAll", "poolEnd", 6)
<1> DEFINE k == DoFlush
<1>1. k \in Seq(AllSteps)
  <2>1. DoFlush \in Seq(AllSteps)
    BY DEF AllSteps, FlushStages, PurgeSteps, DoFlush
  <2> QED BY <2>1
<1>2. Len(k) = 6
  BY DEF DoFlush
<1>3. /\ k[1] = "flushAll" /\ k[2] = "purge" /\ k[3] = "endFullFlush" /\ k[4] = "pool"
      /\ k[5] = "poolDrop" /\ k[6] = "poolEnd"
  BY DEF DoFlush
<1> HIDE DEF k
<1>4. ASSUME NEW i \in 1 .. 6 PROVE Spot(k[i], k[6], 6 - i + 1)
  BY <1>3 DEF Spot, FlushStages, PurgeSteps
<1>5. ASSUME NEW i \in 1 .. 6 - 1 PROVE Follows(k[i], k[i + 1])
  BY <1>3 DEF Follows
<1>6. Route(k, k[1], k[6], 6)
  <2>1. 6 \in Nat \ {0}
    OBVIOUS
  <2> QED BY <1>1, <1>2, <1>4, <1>5, <2>1, Given, Zenon
<1> QED BY <1>3, <1>6 DEF k

\* PrepareCommit from its first step.
LEMMA PrepareRoute == Route((DoFlush \o Prepare) \o <<"return">>, "flushAll", "return", 10)
<1> DEFINE k == (DoFlush \o Prepare) \o <<"return">>
<1>1. k \in Seq(AllSteps)
  <2>1. DoFlush \in Seq(AllSteps)
    BY DEF AllSteps, FlushStages, PurgeSteps, DoFlush
  <2>2. Prepare \in Seq(AllSteps)
    BY DEF AllSteps, FlushStages, PurgeSteps, Prepare
  <2>3. <<"return">> \in Seq(AllSteps)
    BY DEF AllSteps, FlushStages, PurgeSteps
  <2> QED BY <2>1, <2>2, <2>3, ConcatIn, Zenon
<1>2. Len(k) = 10
  BY DEF DoFlush, Prepare
<1>3. /\ k[1] = "flushAll" /\ k[2] = "purge" /\ k[3] = "endFullFlush" /\ k[4] = "pool"
      /\ k[5] = "poolDrop" /\ k[6] = "poolEnd" /\ k[7] = "clone" /\ k[8] = "protect"
      /\ k[9] = "unlink" /\ k[10] = "return"
  BY DEF DoFlush, Prepare
<1> HIDE DEF k
<1>4. ASSUME NEW i \in 1 .. 10 PROVE Spot(k[i], k[10], 10 - i + 1)
  BY <1>3 DEF Spot, FlushStages, PurgeSteps
<1>5. ASSUME NEW i \in 1 .. 10 - 1 PROVE Follows(k[i], k[i + 1])
  BY <1>3 DEF Follows
<1>6. Route(k, k[1], k[10], 10)
  <2>1. 10 \in Nat \ {0}
    OBVIOUS
  <2> QED BY <1>1, <1>2, <1>4, <1>5, <2>1, Given, Zenon
<1> QED BY <1>3, <1>6 DEF k

\* The second phase of a commit from its first step.
LEMMA FinishRoute == Route(Finish, "write", "finish", 6)
<1> DEFINE k == Finish
<1>1. k \in Seq(AllSteps)
  <2>1. Finish \in Seq(AllSteps)
    BY DEF AllSteps, FlushStages, PurgeSteps, Finish
  <2> QED BY <2>1
<1>2. Len(k) = 6
  BY DEF Finish
<1>3. /\ k[1] = "write" /\ k[2] = "rename" /\ k[3] = "sync" /\ k[4] = "register"
      /\ k[5] = "unlink" /\ k[6] = "finish"
  BY DEF Finish
<1> HIDE DEF k
<1>4. ASSUME NEW i \in 1 .. 6 PROVE Spot(k[i], k[6], 6 - i + 1)
  BY <1>3 DEF Spot, FlushStages, PurgeSteps
<1>5. ASSUME NEW i \in 1 .. 6 - 1 PROVE Follows(k[i], k[i + 1])
  BY <1>3 DEF Follows
<1>6. Route(k, k[1], k[6], 6)
  <2>1. 6 \in Nat \ {0}
    OBVIOUS
  <2> QED BY <1>1, <1>2, <1>4, <1>5, <2>1, Given, Zenon
<1> QED BY <1>3, <1>6 DEF k

\* Commit from its first step.
LEMMA CommitRoute == Route((DoFlush \o Prepare) \o Finish, "flushAll", "finish", 15)
<1> DEFINE k == (DoFlush \o Prepare) \o Finish
<1>1. k \in Seq(AllSteps)
  <2>1. DoFlush \in Seq(AllSteps)
    BY DEF AllSteps, FlushStages, PurgeSteps, DoFlush
  <2>2. Prepare \in Seq(AllSteps)
    BY DEF AllSteps, FlushStages, PurgeSteps, Prepare
  <2>3. Finish \in Seq(AllSteps)
    BY DEF AllSteps, FlushStages, PurgeSteps, Finish
  <2> QED BY <2>1, <2>2, <2>3, ConcatIn, Zenon
<1>2. Len(k) = 15
  BY DEF DoFlush, Prepare, Finish
<1>3. /\ k[1] = "flushAll" /\ k[2] = "purge" /\ k[3] = "endFullFlush" /\ k[4] = "pool"
      /\ k[5] = "poolDrop" /\ k[6] = "poolEnd" /\ k[7] = "clone" /\ k[8] = "protect"
      /\ k[9] = "unlink" /\ k[10] = "write" /\ k[11] = "rename" /\ k[12] = "sync"
      /\ k[13] = "register" /\ k[14] = "unlink" /\ k[15] = "finish"
  BY DEF DoFlush, Prepare, Finish
<1> HIDE DEF k
<1>4. ASSUME NEW i \in 1 .. 15 PROVE Spot(k[i], k[15], 15 - i + 1)
  BY <1>3 DEF Spot, FlushStages, PurgeSteps
<1>5. ASSUME NEW i \in 1 .. 15 - 1 PROVE Follows(k[i], k[i + 1])
  BY <1>3 DEF Follows
<1>6. Route(k, k[1], k[15], 15)
  <2>1. 15 \in Nat \ {0}
    OBVIOUS
  <2> QED BY <1>1, <1>2, <1>4, <1>5, <2>1, Given, Zenon
<1> QED BY <1>3, <1>6 DEF k

\* Rollback from its first step.
LEMMA RollbackRoute == Route((<<"abort", "purge", "discard", "unlink", "restore">> \o Checkpoint)
        \o <<"refresh", "unlink", "closeDeleter", "unlink", "closed">>, "abort", "closed", 12)
<1> DEFINE k == (<<"abort", "purge", "discard", "unlink", "restore">> \o Checkpoint)
        \o <<"refresh", "unlink", "closeDeleter", "unlink", "closed">>
<1>1. k \in Seq(AllSteps)
  <2>1. <<"abort", "purge", "discard", "unlink", "restore">> \in Seq(AllSteps)
    BY DEF AllSteps, FlushStages, PurgeSteps
  <2>2. Checkpoint \in Seq(AllSteps)
    BY DEF AllSteps, FlushStages, PurgeSteps, Checkpoint
  <2>3. <<"refresh", "unlink", "closeDeleter", "unlink", "closed">> \in Seq(AllSteps)
    BY DEF AllSteps, FlushStages, PurgeSteps
  <2> QED BY <2>1, <2>2, <2>3, ConcatIn, Zenon
<1>2. Len(k) = 12
  BY DEF Checkpoint
<1>3. /\ k[1] = "abort" /\ k[2] = "purge" /\ k[3] = "discard" /\ k[4] = "unlink"
      /\ k[5] = "restore" /\ k[6] = "checkpoint" /\ k[7] = "pin" /\ k[8] = "refresh"
      /\ k[9] = "unlink" /\ k[10] = "closeDeleter" /\ k[11] = "unlink" /\ k[12] = "closed"
  BY DEF Checkpoint
<1> HIDE DEF k
<1>4. ASSUME NEW i \in 1 .. 12 PROVE Spot(k[i], k[12], 12 - i + 1)
  BY <1>3 DEF Spot, FlushStages, PurgeSteps
<1>5. ASSUME NEW i \in 1 .. 12 - 1 PROVE Follows(k[i], k[i + 1])
  BY <1>3 DEF Follows
<1>6. Route(k, k[1], k[12], 12)
  <2>1. 12 \in Nat \ {0}
    OBVIOUS
  <2> QED BY <1>1, <1>2, <1>4, <1>5, <2>1, Given, Zenon
<1> QED BY <1>3, <1>6 DEF k

-----------------------------------------------------------------------------
(* The inductive invariant.                                                *)

PendingFiles == {Pending(n) : n \in Gens}

\* The files that are there, without those that could not be deleted, and the
\* commits among them.
kept == disk \ undeleted
KeptGens == {n \in GensOnDisk : SegsN(n) \notin undeleted}

\* The constructor deletes files; the writer is open or being opened: it has
\* a deleter.
Starting == state \in {"sweeping", "opening"}
Active == Starting \/ state = "open"

\* The file is in a batch of files to delete.
Doomed(f) == \E j \in 1 .. Len(todo) : f \in todo[j]

\* The operation is not yet in its second phase (commit) or past the purge
\* (rollback).
Far == (aim = "finish" => left > 9) /\ (aim = "closed" => left > 10)

\* A rollback restored segments of a commit that was let go: a Commit before
\* it failed with its own commit on disk.
Strayed == unacked # 0 /\ aim = "closed" /\ left <= 7

\* What is left of the operation is one the code has.
Routed == pc \in [Procs -> Seq(AllSteps)] /\ Plan(Steps)

Types ==
  /\ disk \subseteq Files \cup PendingFiles
  /\ content \in [Gens -> CommitType]
  /\ state \in {"down", "sweeping", "opening", "open", "closed", "failed"}
  /\ infos \in CommitType
  /\ tickets \in Seq(Names \cup {NoSeg}) /\ fresh \in Names \cup {NoSeg}
  /\ clone \in PendType \cup {NoCommit} /\ pend \in PendType \cup {NoCommit}
  /\ backup \subseteq Names /\ {dirty, pdirty, closing} \subseteq BOOLEAN
  /\ refs \in [Files -> Nat] /\ last \subseteq Files
  /\ commits \in Seq(CommitType)
  /\ todo \in Seq(SUBSET (Files \cup PendingFiles))
  /\ lock \in [Locks -> Procs \cup {None}]
  /\ acked \in CommitType /\ committed \subseteq Names
  /\ leaks \in [Files -> Nat]
  /\ undeleted \subseteq disk /\ unacked \in 0 .. MaxGen

\* What is known at the steps of an operation: who holds deleter.mu, and when
\* files are being deleted; the clone that is about to be protected; ...
Locked ==
  /\ lock["deleter.mu"] = IF step \in {"unlink", "pin"} THEN Me ELSE None
  /\ todo # <<>> \/ errs => Starting \/ step \in {"unlink", "pin"}
  /\ state # "open" => step = "end"

\* ... in a commit, the generation it may still use, then the pending commit,
\* that it is recorded, that its file has its name, that it is registered; ...
Committing ==
  /\ step = "protect" => clone = [info |-> infos, pending |-> FALSE]
  /\ step = "unlink" /\ (aim = "return" \/ (aim = "finish" /\ left = 7)) => todo = <<>> /\ ~errs
  /\ aim = "finish" /\ left > 7 => infos.gen < MaxGen
  /\ aim = "return" \/ (aim = "finish" /\ left > 7) => unacked = 0
  /\ aim = "finish" /\ left <= 7 => pend # NoCommit
  /\ aim = "finish" /\ left \in 6 .. 7 => pend.pending \/ pend.info.gen < MaxGen
  /\ aim = "finish" /\ left <= 5 => /\ pend.info.gen \in Gens /\ content[pend.info.gen] = pend.info
                                    /\ infos.gen < pend.info.gen /\ unacked < pend.info.gen
  /\ aim = "finish" /\ left <= 4 => SegsN(pend.info.gen) \in kept
  /\ aim = "finish" /\ left <= 2 => commits # <<>> /\ commits[Len(commits)] = pend.info

\* ... in a rollback, that no ticket is left, no pending commit, and that the
\* segments are those of the last commit.
RollingBack ==
  /\ aim = "closed" /\ left <= 10 => tickets = <<>>
  /\ aim = "closed" /\ left <= 9 => pend = NoCommit
  /\ aim = "closed" /\ left <= 7 => infos.segs = backup

\* The files the commit names are there, and none of them was to be deleted.
Whole(n) == FilesOf(content[n].segs) \subseteq kept

\* As many later commits are there as the policy keeps.
Outlived(n) ==
  \E w \in [1 .. Keep -> KeptGens] :
    \A i, j \in 1 .. Keep : w[i] > n /\ (i # j => w[i] # w[j])

\* What survives the process.  Every segments_n records itself and, unless it
\* could not be deleted, the files it names are there; the commit acknowledged
\* last, or a later one, is there; names committed are below the counter of
\* that commit; and a segments_n that could not be deleted is not the latest:
\* the policy of a new writer lets it go again.
Durable ==
  /\ \A n \in GensOnDisk : content[n].gen = n
  /\ \A n \in KeptGens : Whole(n)
  /\ acked.gen > 0 => \E n \in KeptGens : n >= acked.gen
  /\ acked.gen \in GensOnDisk => content[acked.gen] = acked
  /\ acked.gen = 0 => committed = {}
  /\ \A n \in GensOnDisk, s \in committed : n >= acked.gen => s < content[n].counter
  /\ \A n \in GensOnDisk : \E m \in KeptGens : n <= m
  /\ \A n \in GensOnDisk : n \in KeptGens \/ Outlived(n)

\* The commits of cs that hold f.
CountOf(cs, f) == Cardinality({i \in DOMAIN cs : f \in CommitFiles(cs[i])})
One(S, f) == IF f \in S THEN 1 ELSE 0
\* The files the last checkpoint counted; lastFiles follows at its end.
Pinned == IF step = "pin" THEN FilesOf(infos.segs) ELSE last

\* Every count is the number of holders, also while files are being deleted,
\* and lastFiles are the files of the segments except on the way to and in a
\* checkpoint, after a checkpoint that failed, which left references on them,
\* and after the deleter was closed.
Counted ==
  /\ \A f \in Files : refs[f] = CountOf(commits, f) + One(Pinned, f)
                                + One(FilesOf(pend.info.segs), f) + leaks[f]
  /\ \A n \in Gens : leaks[SegsN(n)] = 0
  /\ step \notin {"changed", "checkpoint", "pin"} /\ ~(aim = "closed" /\ left <= 2) =>
       last = FilesOf(infos.segs) \/ (last = {} /\ \A f \in FilesOf(infos.segs) : leaks[f] > 0)
  /\ aim = "closed" /\ left <= 2 => last = {}

\* What is counted, and what is live, is there; a rollback that strayed counts
\* the files of the segments it restored whether they are there or not.
OnDisk ==
  /\ \A f \in Files : refs[f] > 0 => f \in kept \/ (Strayed /\ f \in Pinned /\ refs[f] = 1)
  /\ ~Strayed => FilesOf(infos.segs) \subseteq kept

\* What is deleted is not counted, and a segments_n goes before the files it
\* names; a pending_segments_n is deleted or belongs to the commit; and after
\* the refresh of a rollback everything not counted is deleted.
Deletions ==
  /\ \A f \in Files : Doomed(f) => refs[f] = 0
  /\ \A j \in 1 .. Len(todo) : \A n \in KeptGens : \A f \in todo[j] :
       f \in FilesOf(content[n].segs) => \E i \in 1 .. j : SegsN(n) \in todo[i]
  /\ \A n \in PendingOnDisk : \/ Starting /\ (Doomed(Pending(n)) \/ errs)
                              \/ step = "rename" /\ n = pend.info.gen /\ Pending(n) \notin undeleted
  /\ aim = "closed" /\ left <= 4 /\ ~errs =>
       \A f \in disk : Doomed(f) \/ (f \in Files /\ refs[f] > 0)

\* The commits of the deleter are those in the directory, oldest first, at
\* most as many as the policy keeps, and the last is the latest; it is the one
\* acknowledged, and the one a rollback returns to, unless its Commit failed.
Retaining ==
  /\ Len(commits) <= Keep
  /\ \A i \in 1 .. Len(commits) : commits[i].gen > 0 /\ commits[i] = content[commits[i].gen]
  /\ \A i, j \in 1 .. Len(commits) : i < j => commits[i].gen < commits[j].gen
  /\ \A n \in GensOnDisk :
       \/ \E i \in 1 .. Len(commits) : commits[i].gen = n
       \/ /\ Len(commits) = Keep /\ \A i \in 1 .. Len(commits) : n < commits[i].gen
          /\ Doomed(SegsN(n)) \/ n \notin KeptGens
       \/ step \in {"sync", "register"} /\ n = pend.info.gen
  /\ ~(aim = "finish" /\ left <= 2) =>
       IF commits = <<>> THEN acked.gen = 0 /\ backup = {} /\ unacked = 0
       ELSE IF unacked = 0
            THEN acked = commits[Len(commits)] /\ backup = acked.segs
            ELSE commits[Len(commits)].gen = unacked /\ acked.gen < unacked

\* Generations: those in the directory, of the writer and of the pending commit.
Generations ==
  /\ \A n \in GensOnDisk : \/ n <= infos.gen \/ n <= unacked
                           \/ (aim = "finish" /\ left <= 4 /\ n = pend.info.gen)
  /\ acked.gen <= infos.gen
  /\ pend # NoCommit => infos.gen <= pend.info.gen /\ unacked <= pend.info.gen
  /\ unacked # 0 => pend # NoCommit \/ aim = "closed"

\* Names: those in the directory, counted or committed are below the counters.
Numbered ==
  /\ \A s \in Names : Seg(s) \in disk \/ refs[Seg(s)] > 0 => s < infos.counter
  /\ \A s \in committed \cup backup : s < infos.counter
  /\ pend # NoCommit => \A s \in committed \cup pend.info.segs : s < pend.info.counter

\* The files of tickets are there, neither counted, nor live, nor deleted.
Ticketed ==
  /\ \A i \in 1 .. Len(tickets) : tickets[i] # NoSeg =>
       /\ Seg(tickets[i]) \in kept /\ refs[Seg(tickets[i])] = 0
       /\ tickets[i] \notin infos.segs /\ ~Doomed(Seg(tickets[i]))
  /\ \A i, j \in 1 .. Len(tickets) : i # j => tickets[i] # tickets[j] \/ tickets[i] = NoSeg

\* The state of the open writer.
Live == Counted /\ OnDisk /\ Deletions /\ Retaining /\ Generations /\ Numbered /\ Ticketed

CommitInv ==
  /\ Routed /\ Types /\ Locked /\ Committing /\ RollingBack /\ Durable
  /\ Active => Live
  /\ RollbackRestores

-----------------------------------------------------------------------------
(* The steps of the goroutine.                                             *)

\* The next step of the operation.
LEMMA Advanced ==
  ASSUME Serial, Routed, step # "end", Then(Me, <<>>)
  PROVE  /\ Routed' /\ left \in Nat \ {0} /\ left' = left - 1 /\ left' \in Nat
         /\ Spot(step, aim, left)
         /\ left = 1 => step = aim /\ step' = "end" /\ aim' = "end"
         /\ left > 1 => aim' = aim /\ Follows(step, step') /\ Spot(step', aim, left - 1)
<1> USE DEF step, aim, left
<1>1. Steps # <<>> /\ Plan(Steps) /\ Steps \in Seq(AllSteps)
  BY DEF Routed, First, Plan
<1>2. /\ Plan(Tail(Steps)) /\ Len(Tail(Steps)) = Len(Steps) - 1 /\ <<>> \o Tail(Steps) = Tail(Steps)
      /\ Len(Steps) = 1 => /\ Tail(Steps) = <<>> /\ First(Tail(Steps)) = "end"
                           /\ Final(Tail(Steps)) = "end"
      /\ Len(Steps) > 1 => /\ Tail(Steps) # <<>> /\ Final(Tail(Steps)) = Final(Steps)
                           /\ Follows(First(Steps), First(Tail(Steps)))
                           /\ Spot(First(Tail(Steps)), Final(Steps), Len(Steps) - 1)
  BY <1>1, Advance, Zenon
<1>3. pc' = [pc EXCEPT ![Me] = Tail(pc[Me])] /\ pc \in [Procs -> Seq(AllSteps)] /\ Me \in Procs
  BY <1>2, Zenon DEF Then, Steps, Routed, Serial
<1>4. Steps' = Tail(Steps)
  BY <1>3, Zenon DEF Steps
<1>5. Tail(Steps) \in Seq(AllSteps)
  BY <1>2 DEF Plan
<1>6. pc' \in [Procs -> Seq(AllSteps)]
  BY <1>3, <1>5 DEF Steps
<1>7. Routed'
  BY <1>2, <1>4, <1>6, Zenon DEF Routed
<1>8. /\ Len(Steps) \in Nat \ {0} /\ Spot(First(Steps), Final(Steps), Len(Steps))
      /\ Len(Steps) = 1 => First(Steps) = Final(Steps)
  BY <1>1, Where
<1>9. Len(Tail(Steps)) \in Nat
  BY <1>2, <1>8
<1> QED BY <1>2, <1>4, <1>7, <1>8, <1>9, Zenon

\* The steps of a flush and of a purge.
LEMMA FlushAdvances ==
  ASSUME Serial, Routed, Then(Me, <<>>), step \in FlushStages
  PROVE  /\ Routed' /\ left' \in Nat /\ left \in Nat /\ left' = left - 1
         /\ aim' = IF step' = "end" THEN "end" ELSE aim
         /\ step' = "end" => left = 1
         /\ step \notin {"checkpoint", "pin"} => Far
         /\ step = "purge" => /\ step' \in {"endFullFlush", "discard", "end"}
                              /\ step' = "discard" => aim = "closed" /\ left' = 10
                              /\ step' # "discard" => Far'
         /\ step = "changed" => step' = "checkpoint" /\ Far'
         /\ step = "checkpoint" => step' = "pin" /\ ((Far /\ Far') \/ (aim = "closed" /\ left = 7))
         /\ step = "pin" => \/ step' \in {"dropNew", "purge", "poolDrop", "poolEnd"} /\ Far /\ Far'
                            \/ step' = "refresh" /\ aim = "closed" /\ left = 6
         /\ step \in {"dropNew", "flushAll"} => step' = "purge" /\ Far'
         /\ step = "endFullFlush" => step' = "pool" /\ Far'
         /\ step = "poolDrop" => step' = "poolEnd" /\ Far'
         /\ step = "poolEnd" => /\ step' \in {"clone", "end"}
                                /\ step' = "clone" => /\ aim \in {"finish", "return"}
                                                      /\ aim = "finish" => left = 10
<1>1. step # "end"
  BY DEF FlushStages, PurgeSteps
<1>2. /\ Routed' /\ left \in Nat \ {0} /\ left' = left - 1 /\ left' \in Nat /\ Spot(step, aim, left)
      /\ left = 1 => step = aim /\ step' = "end" /\ aim' = "end"
      /\ left > 1 => aim' = aim /\ Follows(step, step') /\ Spot(step', aim, left - 1)
  BY <1>1, Advanced
<1>3. left > 1 => step' # "end"
  BY <1>2 DEF Spot, FlushStages, PurgeSteps
<1>4. aim' = IF step' = "end" THEN "end" ELSE aim
  BY <1>2, <1>3
<1>5. step \notin {"checkpoint", "pin"} => Far
  BY <1>2 DEF Spot, Far, FlushStages, PurgeSteps
<1>6. ASSUME step = "purge"
      PROVE  /\ step' \in {"endFullFlush", "discard", "end"}
             /\ step' = "discard" => aim = "closed" /\ left' = 10
             /\ step' # "discard" => Far'
  BY <1>2, <1>6 DEF Spot, Follows, Far, FlushStages, PurgeSteps
<1>7. ASSUME step = "changed" PROVE step' = "checkpoint" /\ Far'
  BY <1>2, <1>7 DEF Spot, Follows, Far, FlushStages, PurgeSteps
<1>8. ASSUME step = "checkpoint" PROVE step' = "pin" /\ ((Far /\ Far') \/ (aim = "closed" /\ left = 7))
  BY <1>2, <1>8 DEF Spot, Follows, Far, FlushStages, PurgeSteps
<1>9. ASSUME step = "pin"
      PROVE  \/ step' \in {"dropNew", "purge", "poolDrop", "poolEnd"} /\ Far /\ Far'
             \/ step' = "refresh" /\ aim = "closed" /\ left = 6
  BY <1>2, <1>9 DEF Spot, Follows, Far, FlushStages, PurgeSteps
<1>10. ASSUME step \in {"dropNew", "flushAll"} PROVE step' = "purge" /\ Far'
  BY <1>2, <1>10 DEF Spot, Follows, Far, FlushStages, PurgeSteps
<1>11. ASSUME step = "endFullFlush" PROVE step' = "pool" /\ Far'
  BY <1>2, <1>11 DEF Spot, Follows, Far, FlushStages, PurgeSteps
<1>12. ASSUME step = "poolDrop" PROVE step' = "poolEnd" /\ Far'
  BY <1>2, <1>12 DEF Spot, Follows, Far, FlushStages, PurgeSteps
<1>13. ASSUME step = "poolEnd"
       PROVE  /\ step' \in {"clone", "end"}
              /\ step' = "clone" => aim \in {"finish", "return"} /\ (aim = "finish" => left = 10)
  BY <1>2, <1>13 DEF Spot, Follows, Far, FlushStages, PurgeSteps
<1> QED BY <1>2, <1>3, <1>4, <1>5, <1>6, <1>7, <1>8, <1>9, <1>10, <1>11, <1>12, <1>13

\* The steps of a commit and of a rollback.
LEMMA TailAdvances ==
  ASSUME Serial, Routed, Then(Me, <<>>), step \notin FlushStages \cup {"end", "tryPurge"}
  PROVE  /\ Routed' /\ left' \in Nat /\ left \in Nat /\ left' = left - 1
         /\ step = "clone" => /\ step' = "protect" /\ aim' = aim /\ aim \in {"finish", "return"}
                              /\ aim = "finish" => left = 9
         /\ step = "protect" => /\ step' = "unlink" /\ aim' = aim /\ aim \in {"finish", "return"}
                                /\ aim = "finish" => left = 8
         /\ step = "unlink" => /\ aim' = aim
                               /\ \/ aim = "finish" /\ left = 2 /\ step' = "finish"
                                  \/ aim = "finish" /\ left = 7 /\ step' = "write"
                                  \/ aim = "return" /\ step' = "return"
                                  \/ aim = "closed" /\ left = 9 /\ step' = "restore"
                                  \/ aim = "closed" /\ left = 4 /\ step' = "closeDeleter"
                                  \/ aim = "closed" /\ left = 2 /\ step' = "closed"
         /\ step = "write" => aim = "finish" /\ left = 6 /\ step' = "rename" /\ aim' = aim
         /\ step = "rename" => aim = "finish" /\ left = 5 /\ step' = "sync" /\ aim' = aim
         /\ step = "sync" => aim = "finish" /\ left = 4 /\ step' = "register" /\ aim' = aim
         /\ step = "register" => aim = "finish" /\ left = 3 /\ step' = "unlink" /\ aim' = aim
         /\ step = "abort" => aim = "closed" /\ Far /\ Far' /\ step' = "purge" /\ aim' = aim
         /\ step = "discard" => aim = "closed" /\ left = 10 /\ step' = "unlink" /\ aim' = aim
         /\ step = "restore" => aim = "closed" /\ left = 8 /\ step' = "checkpoint" /\ aim' = aim
         /\ step = "refresh" => aim = "closed" /\ left = 5 /\ step' = "unlink" /\ aim' = aim
         /\ step = "closeDeleter" => aim = "closed" /\ left = 3 /\ step' = "unlink" /\ aim' = aim
<1>1. /\ Routed' /\ left \in Nat \ {0} /\ left' = left - 1 /\ left' \in Nat /\ Spot(step, aim, left)
      /\ left = 1 => step = aim /\ step' = "end" /\ aim' = "end"
      /\ left > 1 => aim' = aim /\ Follows(step, step') /\ Spot(step', aim, left - 1)
  BY Advanced
<1>2. ASSUME step = "clone"
      PROVE  step' = "protect" /\ aim' = aim /\ aim \in {"finish", "return"} /\ (aim = "finish" => left = 9)
  BY <1>1, <1>2 DEF Spot, FlushStages, PurgeSteps
<1>3. ASSUME step = "protect"
      PROVE  step' = "unlink" /\ aim' = aim /\ aim \in {"finish", "return"} /\ (aim = "finish" => left = 8)
  BY <1>1, <1>3 DEF Spot, FlushStages, PurgeSteps
<1>4. ASSUME step = "unlink"
      PROVE  /\ aim' = aim
             /\ \/ aim = "finish" /\ left = 2 /\ step' = "finish"
                \/ aim = "finish" /\ left = 7 /\ step' = "write"
                \/ aim = "return" /\ step' = "return"
                \/ aim = "closed" /\ left = 9 /\ step' = "restore"
                \/ aim = "closed" /\ left = 4 /\ step' = "closeDeleter"
                \/ aim = "closed" /\ left = 2 /\ step' = "closed"
  BY <1>1, <1>4 DEF Spot, FlushStages, PurgeSteps
<1>5. ASSUME step = "write" PROVE aim = "finish" /\ left = 6 /\ step' = "rename" /\ aim' = aim
  BY <1>1, <1>5 DEF Spot, FlushStages, PurgeSteps
<1>6. ASSUME step = "rename" PROVE aim = "finish" /\ left = 5 /\ step' = "sync" /\ aim' = aim
  BY <1>1, <1>6 DEF Spot, FlushStages, PurgeSteps
<1>7. ASSUME step = "sync" PROVE aim = "finish" /\ left = 4 /\ step' = "register" /\ aim' = aim
  BY <1>1, <1>7 DEF Spot, FlushStages, PurgeSteps
<1>8. ASSUME step = "register" PROVE aim = "finish" /\ left = 3 /\ step' = "unlink" /\ aim' = aim
  BY <1>1, <1>8 DEF Spot, FlushStages, PurgeSteps
<1>9. ASSUME step = "abort" PROVE aim = "closed" /\ Far /\ Far' /\ step' = "purge" /\ aim' = aim
  BY <1>1, <1>9 DEF Spot, Follows, Far, FlushStages, PurgeSteps
<1>10. ASSUME step = "discard" PROVE aim = "closed" /\ left = 10 /\ step' = "unlink" /\ aim' = aim
  BY <1>1, <1>10 DEF Spot, FlushStages, PurgeSteps
<1>11. ASSUME step = "restore" PROVE aim = "closed" /\ left = 8 /\ step' = "checkpoint" /\ aim' = aim
  BY <1>1, <1>11 DEF Spot, FlushStages, PurgeSteps
<1>12. ASSUME step = "refresh" PROVE aim = "closed" /\ left = 5 /\ step' = "unlink" /\ aim' = aim
  BY <1>1, <1>12 DEF Spot, FlushStages, PurgeSteps
<1>13. ASSUME step = "closeDeleter" PROVE aim = "closed" /\ left = 3 /\ step' = "unlink" /\ aim' = aim
  BY <1>1, <1>13 DEF Spot, FlushStages, PurgeSteps
<1> QED BY <1>1, <1>2, <1>3, <1>4, <1>5, <1>6, <1>7, <1>8, <1>9, <1>10, <1>11, <1>12, <1>13

\* The goroutine is at a step.
LEMMA AtStep ==
  ASSUME NEW s, s # "end"
  PROVE  At(Me, s) <=> step = s
  BY DEF At, step, First, Steps

\* An operation begins.
LEMMA Entered ==
  ASSUME Serial, Routed, NEW k, NEW s, NEW g, NEW n, Route(k, s, g, n),
         pc' = [pc EXCEPT ![Me] = k]
  PROVE  Routed' /\ step' = s /\ aim' = g /\ left' = n
<1>1. pc \in [Procs -> Seq(AllSteps)] /\ Me \in Procs
  BY DEF Routed, Serial
<1>2. k \in Seq(AllSteps)
  BY DEF Route, Plan
<1>3. Steps' = k /\ pc' \in [Procs -> Seq(AllSteps)]
  BY <1>1, <1>2 DEF Steps
<1>4. Routed'
  BY <1>3 DEF Routed, Route
<1> QED BY <1>3, <1>4 DEF Route, step, aim, left

\* The operation returns.
LEMMA Returned ==
  ASSUME Serial, Routed, pc' = [pc EXCEPT ![Me] = <<>>]
  PROVE  Routed' /\ step' = "end" /\ aim' = "end" /\ left' = 0
<1>1. pc \in [Procs -> Seq(AllSteps)] /\ Me \in Procs
  BY DEF Routed, Serial
<1>3. Steps' = <<>> /\ pc' \in [Procs -> Seq(AllSteps)]
  BY <1>1 DEF Steps
<1>4. Plan(<<>>)
  BY DEF Plan
<1>5. Routed'
  BY <1>3, <1>4, Zenon DEF Routed
<1>6. step' = "end" /\ aim' = "end"
  BY <1>3, Zenon DEF step, aim, First, Final
<1>7. left' = 0
  BY <1>3 DEF left
<1> QED BY <1>5, <1>6, <1>7

\* The operation stays where it is.
LEMMA Stayed ==
  ASSUME Routed, pc' = pc
  PROVE  Routed' /\ step' = step /\ aim' = aim /\ left' = left
  BY DEF Routed, step, aim, left, Steps

\* What comes after the step at hand.
LEMMA Rest ==
  ASSUME Serial, Routed, step # "end"
  PROVE  LET t == Tail(pc[Me]) IN
         /\ Plan(t) /\ Len(t) = left - 1 /\ t \in Seq(AllSteps) /\ left \in Nat \ {0}
         /\ Spot(step, aim, left)
         /\ left = 1 => t = <<>> /\ step = aim
         /\ left > 1 => /\ t # <<>> /\ Final(t) = aim /\ Len(t) > 0
                        /\ Follows(step, First(t)) /\ Spot(First(t), aim, left - 1)
<1> DEFINE t == Tail(Steps)
<1>1. Plan(Steps) /\ Steps # <<>>
  BY DEF Routed, step, First
<1>2. /\ Plan(t) /\ Len(t) = Len(Steps) - 1
      /\ Len(Steps) = 1 => t = <<>>
      /\ Len(Steps) > 1 => /\ t # <<>> /\ Final(t) = Final(Steps)
                           /\ Follows(First(Steps), First(t)) /\ Spot(First(t), Final(Steps), Len(Steps) - 1)
  BY <1>1, Advance, Zenon
<1>3. /\ Len(Steps) \in Nat \ {0} /\ Spot(First(Steps), Final(Steps), Len(Steps))
      /\ Len(Steps) = 1 => First(Steps) = Final(Steps)
  BY <1>1, Where
<1> HIDE DEF t
<1>4. t \in Seq(AllSteps)
  BY <1>2 DEF Plan
<1> QED BY <1>2, <1>3, <1>4 DEF t, step, aim, left, Steps

\* A checkpoint before the rest of an operation.
LEMMA CheckpointRoute ==
  ASSUME NEW k, NEW t, NEW g, NEW n \in Nat, Route(k, t, g, n),
         t \in {"dropNew", "purge", "poolDrop", "poolEnd"},
         g \in {"finish", "return", "closed", "poolEnd", "purge"},
         g = "finish" => n > 9, g = "return" => n > 4, g = "closed" => n > 10, n >= 1
  PROVE  /\ Route(<<"checkpoint">> \o (<<"pin">> \o k), "checkpoint", g, n + 2)
         /\ Route(<<"changed">> \o (<<"checkpoint">> \o (<<"pin">> \o k)), "changed", g, n + 3)
<1>1. {"pin", "checkpoint", "changed"} \subseteq AllSteps
  BY DEF AllSteps, FlushStages, PurgeSteps
<1>2. Spot("pin", g, n + 1) /\ Spot("checkpoint", g, n + 2) /\ Spot("changed", g, n + 3)
  BY DEF Spot, FlushStages, PurgeSteps
<1>3. Follows("pin", t) /\ Follows("checkpoint", "pin") /\ Follows("changed", "checkpoint")
  BY DEF Follows
<1>4. n + 2 = (n + 1) + 1 /\ n + 3 = (n + 2) + 1 /\ n + 1 = n + 1
  OBVIOUS
<1>5. "pin" \in AllSteps /\ "checkpoint" \in AllSteps /\ "changed" \in AllSteps
  BY <1>1, Zenon
<1>6. Route(<<"pin">> \o k, "pin", g, n + 1)
  BY <1>2, <1>3, <1>4, <1>5, PushedRoute, Zenon
<1>7. Route(<<"checkpoint">> \o (<<"pin">> \o k), "checkpoint", g, n + 2)
  BY <1>2, <1>3, <1>4, <1>5, <1>6, PushedRoute, Zenon
<1>8. Route(<<"changed">> \o (<<"checkpoint">> \o (<<"pin">> \o k)), "changed", g, n + 3)
  BY <1>2, <1>3, <1>4, <1>5, <1>7, PushedRoute, Zenon
<1> QED BY <1>7, <1>8

\* What follows the second half of a checkpoint, and what a flush goes on with
\* when it failed.
LEMMA PinSkips ==
  ASSUME Serial, Routed, step = "pin"
  PROVE  LET next == pc[Me][2] IN
         /\ next \in {"dropNew", "purge", "poolDrop", "poolEnd", "refresh"}
         /\ next = "refresh" => aim = "closed"
         /\ next # "refresh" => Far
         /\ next \in {"poolDrop", "poolEnd"} =>
              /\ aim # "closed"
              /\ pc' = [pc EXCEPT ![Me] = IF next = "poolDrop" THEN Tail(Tail(@)) ELSE Tail(@)] =>
                   Routed' /\ step' = "poolEnd" /\ aim' = aim /\ left' \in Nat /\ Far'
<1> DEFINE t == Tail(pc[Me])
           next == pc[Me][2]
<1>1. /\ Plan(t) /\ Len(t) = left - 1 /\ t \in Seq(AllSteps) /\ left \in Nat \ {0}
      /\ Spot(step, aim, left)
      /\ left = 1 => t = <<>> /\ step = aim
      /\ left > 1 => /\ t # <<>> /\ Final(t) = aim /\ Len(t) > 0
                     /\ Follows(step, First(t)) /\ Spot(First(t), aim, left - 1)
  BY Rest
<1>2. left > 1
  BY <1>1 DEF Spot, FlushStages, PurgeSteps
<1>3. next = First(t)
  <2>1. pc[Me] \in Seq(AllSteps) /\ pc[Me] # <<>> /\ Len(pc[Me]) = left
    BY DEF Routed, Plan, Steps, step, First, left
  <2>2. t # <<>> /\ Head(t) = next
    BY <1>2, <2>1, TailOf
  <2> QED BY <2>2 DEF First
<1>4. next \in {"dropNew", "purge", "poolDrop", "poolEnd", "refresh"}
  BY <1>1, <1>2, <1>3 DEF Follows
<1>5. /\ next = "refresh" => aim = "closed"
      /\ next # "refresh" => Far
      /\ next \in {"poolDrop", "poolEnd"} => aim # "closed"
  BY <1>1, <1>2, <1>3, <1>4 DEF Spot, Far, FlushStages, PurgeSteps
<1>6. ASSUME next \in {"poolDrop", "poolEnd"},
             pc' = [pc EXCEPT ![Me] = IF next = "poolDrop" THEN Tail(Tail(pc[Me])) ELSE Tail(pc[Me])]
      PROVE  Routed' /\ step' = "poolEnd" /\ aim' = aim /\ left' \in Nat /\ Far'
  <2> DEFINE k == IF next = "poolDrop" THEN Tail(t) ELSE t
  <2>1. Route(k, "poolEnd", aim, Len(k))
    <3>1. CASE next = "poolEnd"
      <4>1. k = t
        BY <3>1
      <4> QED BY <1>1, <1>2, <1>3, <3>1, <4>1 DEF Route
    <3>2. CASE next = "poolDrop"
      <4>1. k = Tail(t)
        BY <3>2
      <4>2. /\ Plan(Tail(t)) /\ Len(Tail(t)) = Len(t) - 1
            /\ Len(t) = 1 => Tail(t) = <<>>
            /\ Len(t) > 1 => /\ Tail(t) # <<>> /\ Final(Tail(t)) = Final(t)
                             /\ Follows(First(t), First(Tail(t)))
        <5> HIDE DEF t
        <5> QED BY <1>1, <1>2, Advance, Zenon
      <4>3. Len(t) # 1
        BY <1>1, <1>2, <1>3, <3>2, Where DEF Spot, FlushStages, PurgeSteps
      <4>4. Len(t) > 1
        <5>1. Len(t) = left - 1 /\ left \in Nat
          BY <1>1
        <5> HIDE DEF t
        <5> QED BY <1>2, <4>3, <5>1
      <4>5. First(Tail(t)) = "poolEnd"
        BY <1>3, <3>2, <4>2, <4>4 DEF Follows
      <4> QED BY <1>1, <1>2, <4>1, <4>2, <4>4, <4>5 DEF Route
    <3> QED BY <1>6, <3>1, <3>2
  <2>2. pc \in [Procs -> Seq(AllSteps)] /\ Me \in Procs
    BY DEF Routed, Serial
  <2>3. pc' = [pc EXCEPT ![Me] = k] /\ k \in Seq(AllSteps)
    BY <1>6, <2>1 DEF Route, Plan
  <2> HIDE DEF k
  <2>4. Steps' = k /\ pc' \in [Procs -> Seq(AllSteps)]
    BY <2>2, <2>3 DEF Steps
  <2>5. Routed' /\ step' = "poolEnd" /\ aim' = aim /\ left' = Len(k)
    BY <2>1, <2>4 DEF Routed, step, aim, left, Route
  <2>6. Spot("poolEnd", aim, Len(k)) /\ Len(k) \in Nat
    BY <2>1, Where DEF Route
  <2> QED BY <2>5, <2>6 DEF Spot, Far, FlushStages, PurgeSteps
<1> QED BY <1>4, <1>5, <1>6

\* publishFlushedSegment goes on with a checkpoint.
LEMMA Publishes ==
  ASSUME Serial, Routed, step = "purge",
         pc' = [pc EXCEPT ![Me] = <<"changed">> \o Checkpoint \o <<"dropNew">> \o @]
  PROVE  Routed' /\ step' = "changed" /\ aim' = aim /\ left' = left + 4 /\ left \in Nat /\ Far /\ Far'
<1>1. /\ Plan(Steps) /\ Steps # <<>> /\ First(Steps) = "purge" /\ Final(Steps) = aim
      /\ Len(Steps) = left /\ Steps \in Seq(AllSteps) /\ left \in Nat /\ left >= 1 /\ Spot("purge", aim, left)
  <2>1. Plan(Steps) /\ Steps # <<>>
    BY DEF Routed, step, First
  <2> QED BY <2>1, Where, Rest DEF step, aim, left, Plan
<1>2. Route(Steps, "purge", aim, left)
  BY <1>1 DEF Route
<1>3. /\ aim \in {"finish", "return", "closed", "poolEnd", "purge"}
      /\ aim = "finish" => left > 9 
      /\ aim = "return" => left > 4
      /\ aim = "closed" => left > 10
  BY <1>1 DEF Spot, FlushStages, PurgeSteps
<1>4. Route(<<"dropNew">> \o Steps, "dropNew", aim, left + 1)
  <2>1. "dropNew" \in AllSteps /\ Follows("dropNew", "purge") /\ Spot("dropNew", aim, left + 1)
    BY <1>1, <1>3 DEF AllSteps, FlushStages, PurgeSteps, Follows, Spot
  <2> QED BY <1>2, <2>1, PushedRoute, Zenon
<1>5. Route(<<"changed">> \o (<<"checkpoint">> \o (<<"pin">> \o (<<"dropNew">> \o Steps))), "changed", aim, left + 4)
  <2> DEFINE m == left + 1
  <2>1. m \in Nat /\ m >= 1 /\ m + 3 = left + 4
    BY <1>1
  <2>2. (aim = "finish" => m > 9) /\ (aim = "return" => m > 4) /\ (aim = "closed" => m > 10)
    BY <1>1, <1>3
  <2>3. "dropNew" \in {"dropNew", "purge", "poolDrop", "poolEnd"}
    OBVIOUS
  <2>4. Route(<<"dropNew">> \o Steps, "dropNew", aim, m)
    BY <1>4
  <2> HIDE DEF m
  <2>5. Route(<<"changed">> \o (<<"checkpoint">> \o (<<"pin">> \o (<<"dropNew">> \o Steps))), "changed", aim, m + 3)
    BY <1>3, <2>1, <2>2, <2>3, <2>4, CheckpointRoute, Zenon
  <2> QED BY <2>1, <2>5
<1>6. ((<<"changed">> \o Checkpoint) \o <<"dropNew">>) \o Steps
        = <<"changed">> \o (<<"checkpoint">> \o (<<"pin">> \o (<<"dropNew">> \o Steps)))
  BY <1>1, Joined
<1>7. pc' = [pc EXCEPT ![Me] = <<"changed">> \o (<<"checkpoint">> \o (<<"pin">> \o (<<"dropNew">> \o Steps)))]
  BY <1>6, Zenon DEF Steps
<1>8. Routed' /\ step' = "changed" /\ aim' = aim /\ left' = left + 4
  BY <1>5, <1>7, Entered, Zenon
<1> QED BY <1>1, <1>3, <1>8 DEF Far

\* A dropped segment is followed by a checkpoint, and so is the write of the pool.
LEMMA Checkpoints ==
  ASSUME Serial, Routed, step \in {"dropNew", "poolDrop", "pool"}
  PROVE  /\ left \in Nat /\ Far
         /\ Then(Me, <<"changed">> \o Checkpoint) =>
              Routed' /\ step' = "changed" /\ aim' = aim /\ left' = left + 2 /\ Far'
         /\ Then(Me, Checkpoint) =>
              Routed' /\ step' = "checkpoint" /\ aim' = aim /\ left' = left + 1 /\ Far'
<1> DEFINE t == Tail(pc[Me])
<1>1. /\ Plan(t) /\ Len(t) = left - 1 /\ t \in Seq(AllSteps) /\ left \in Nat \ {0}
      /\ Spot(step, aim, left)
      /\ left = 1 => t = <<>> /\ step = aim
      /\ left > 1 => /\ t # <<>> /\ Final(t) = aim /\ Len(t) > 0
                     /\ Follows(step, First(t)) /\ Spot(First(t), aim, left - 1)
  <2>1. step # "end"
    OBVIOUS
  <2> QED BY <2>1, Rest, Zenon
<1>2. left > 1
  BY <1>1 DEF Spot, FlushStages, PurgeSteps
<1> HIDE DEF t
<1>3. First(t) \in {"purge", "poolDrop", "poolEnd"}
  BY <1>1, <1>2 DEF Follows
<1>4. /\ aim \in {"finish", "return", "closed", "poolEnd", "purge"}
      /\ aim = "finish" => left - 1 > 9
      /\ aim = "return" => left - 1 > 4
      /\ aim = "closed" => left - 1 > 10
  BY <1>1, <1>2, <1>3 DEF Spot, FlushStages, PurgeSteps
<1> DEFINE n == left - 1
<1>5. n \in Nat /\ n >= 1 /\ n + 3 = left + 2 /\ n + 2 = left + 1
  BY <1>1, <1>2
<1>6. Route(t, First(t), aim, n)
  BY <1>1, <1>2 DEF Route
<1>7. /\ aim = "finish" => n > 9
      /\ aim = "return" => n > 4
      /\ aim = "closed" => n > 10
      /\ First(t) \in {"dropNew", "purge", "poolDrop", "poolEnd"}
  BY <1>3, <1>4
<1> HIDE DEF n
<1>8. /\ Route(<<"checkpoint">> \o (<<"pin">> \o t), "checkpoint", aim, n + 2)
      /\ Route(<<"changed">> \o (<<"checkpoint">> \o (<<"pin">> \o t)), "changed", aim, n + 3)
  BY <1>4, <1>5, <1>6, <1>7, CheckpointRoute, Zenon
<1>9. /\ Checkpoint \o t = <<"checkpoint">> \o (<<"pin">> \o t)
      /\ (<<"changed">> \o Checkpoint) \o t = <<"changed">> \o (<<"checkpoint">> \o (<<"pin">> \o t))
  BY <1>1, Joined, Zenon
<1>10. ASSUME Then(Me, <<"changed">> \o Checkpoint)
       PROVE  Routed' /\ step' = "changed" /\ aim' = aim /\ left' = n + 3
  <2>1. pc' = [pc EXCEPT ![Me] = <<"changed">> \o (<<"checkpoint">> \o (<<"pin">> \o t))]
    BY <1>9, <1>10, Zenon DEF Then, t
  <2> QED BY <1>8, <2>1, Entered, Zenon
<1>11. ASSUME Then(Me, Checkpoint)
       PROVE  Routed' /\ step' = "checkpoint" /\ aim' = aim /\ left' = n + 2
  <2>1. pc' = [pc EXCEPT ![Me] = <<"checkpoint">> \o (<<"pin">> \o t)]
    BY <1>9, <1>11, Zenon DEF Then, t
  <2> QED BY <1>8, <2>1, Entered, Zenon
<1>12. left \in Nat /\ Far
  BY <1>1, <1>4 DEF Far
<1> QED BY <1>1, <1>4, <1>5, <1>10, <1>11, <1>12 DEF Far

\* publishFlushedSegments(false).
LEMMA Tries ==
  ASSUME Serial, Routed, step = "tryPurge", NEW c, Then(Me, IF c THEN <<"purge">> ELSE <<>>)
  PROVE  Routed' /\ step' \in {"purge", "end"} /\ aim' \in {"purge", "end"} /\ aim = "tryPurge"
<1>1. left = 1 /\ aim = "tryPurge" /\ Tail(pc[Me]) = <<>>
  <2>1. /\ left \in Nat /\ Spot(step, aim, left)
        /\ left = 1 => Tail(pc[Me]) = <<>>
    BY Rest, Zenon
  <2>2. left = 1 /\ aim = "tryPurge"
    BY <2>1 DEF Spot, FlushStages, PurgeSteps
  <2> QED BY <2>1, <2>2
<1>2. CASE c
  <2>1. pc' = [pc EXCEPT ![Me] = <<"purge">> \o <<>>]
    BY <1>1, <1>2, Zenon DEF Then
  <2>2. pc' = [pc EXCEPT ![Me] = <<"purge">>]
    <3>1. <<"purge">> \o <<>> = <<"purge">>
      OBVIOUS
    <3> QED BY <2>1, <3>1, Zenon
  <2>3. Routed' /\ step' = "purge" /\ aim' = "purge"
    BY <2>2, PurgeRoute, Entered, Zenon
  <2> QED BY <1>1, <2>3
<1>3. CASE ~c
  <2>1. pc' = [pc EXCEPT ![Me] = <<>> \o <<>>]
    BY <1>1, <1>3, Zenon DEF Then
  <2>2. <<>> \o <<>> = <<>>
    OBVIOUS
  <2>3. pc' = [pc EXCEPT ![Me] = <<>>]
    BY <2>1, <2>2, Zenon
  <2>4. Routed' /\ step' = "end" /\ aim' = "end"
    BY <2>3, Returned, Zenon
  <2> QED BY <1>1, <2>4
<1> QED BY <1>2, <1>3

-----------------------------------------------------------------------------
(* Files, commits and counts.                                              *)

\* Files with different names are different files.
LEMMA FileNames ==
  /\ \A s, t : Seg(s) = Seg(t) <=> s = t
  /\ \A m, n : SegsN(m) = SegsN(n) <=> m = n
  /\ \A m, n : Pending(m) = Pending(n) <=> m = n
  /\ \A s, n : Seg(s) # SegsN(n) /\ Seg(s) # Pending(n)
  /\ \A m, n : SegsN(m) # Pending(n)
  /\ \A s, n : Seg(s)[1] # "segments" /\ Pending(n)[1] # "segments" /\ SegsN(n)[1] = "segments"
<1>1. \A a, b, c, d : <<a, b>> = <<c, d>> <=> a = c /\ b = d
  OBVIOUS
<1>2. \A a, b : <<a, b>>[1] = a
  OBVIOUS
<1>3. "seg" # "segments" /\ "seg" # "pending_segments" /\ "segments" # "pending_segments"
  OBVIOUS
<1>4. \A s, t : Seg(s) = Seg(t) <=> s = t
  BY <1>1, Zenon DEF Seg
<1>5. \A m, n : SegsN(m) = SegsN(n) <=> m = n
  BY <1>1, Zenon DEF SegsN
<1>6. \A m, n : Pending(m) = Pending(n) <=> m = n
  BY <1>1, Zenon DEF Pending
<1>7. \A s, n : Seg(s) # SegsN(n) /\ Seg(s) # Pending(n)
  BY <1>1, <1>3, Zenon DEF Seg, SegsN, Pending
<1>8. \A m, n : SegsN(m) # Pending(n)
  BY <1>1, <1>3, Zenon DEF SegsN, Pending
<1>9. \A s, n : Seg(s)[1] = "seg" /\ Pending(n)[1] = "pending_segments" /\ SegsN(n)[1] = "segments"
  BY <1>2, Zenon DEF Seg, SegsN, Pending
<1> QED BY <1>3, <1>4, <1>5, <1>6, <1>7, <1>8, <1>9

\* The files of a commit.
LEMMA FileSets ==
  /\ \A s, S : Seg(s) \in FilesOf(S) <=> s \in S
  /\ \A n, S : SegsN(n) \notin FilesOf(S) /\ Pending(n) \notin FilesOf(S)
  /\ \A n, c : SegsN(n) \in CommitFiles(c) <=> n = c.gen
  /\ \A s, c : Seg(s) \in CommitFiles(c) <=> s \in c.segs
  /\ \A s : Seg(s) \in Files <=> s \in Names
  /\ \A n : SegsN(n) \in Files <=> n \in Gens
  /\ \A n : Pending(n) \notin Files /\ (Pending(n) \in PendingFiles <=> n \in Gens)
  /\ \A f \in Files : (\E s \in Names : f = Seg(s)) \/ (\E n \in Gens : f = SegsN(n))
  /\ \A f \in PendingFiles : f \notin Files /\ \E n \in Gens : f = Pending(n)
  /\ \A S \in SUBSET Names : FilesOf(S) \subseteq Files
  /\ \A S, f : f \in FilesOf(S) => \E s \in S : f = Seg(s)
<1>1. \A s, S : Seg(s) \in FilesOf(S) <=> s \in S
  BY FileNames DEF FilesOf
<1>2. \A n, S : SegsN(n) \notin FilesOf(S) /\ Pending(n) \notin FilesOf(S)
  BY FileNames DEF FilesOf
<1>3. \A n, c : SegsN(n) \in CommitFiles(c) <=> n = c.gen
  BY <1>2, FileNames DEF CommitFiles
<1>4. \A s, c : Seg(s) \in CommitFiles(c) <=> s \in c.segs
  BY <1>1, FileNames DEF CommitFiles
<1>5. \A s : Seg(s) \in Files <=> s \in Names
  BY FileNames DEF Files, SegFiles
<1>6. \A n : SegsN(n) \in Files <=> n \in Gens
  BY FileNames DEF Files, SegFiles
<1>7. \A n : Pending(n) \notin Files /\ (Pending(n) \in PendingFiles <=> n \in Gens)
  BY FileNames DEF Files, SegFiles, PendingFiles
<1>8. \A f \in Files : (\E s \in Names : f = Seg(s)) \/ (\E n \in Gens : f = SegsN(n))
  BY DEF Files, SegFiles
<1>9. \A f \in PendingFiles : f \notin Files /\ \E n \in Gens : f = Pending(n)
  BY <1>7 DEF PendingFiles
<1>10. \A S \in SUBSET Names : FilesOf(S) \subseteq Files
  BY DEF FilesOf, Files, SegFiles
<1>11. \A S, f : f \in FilesOf(S) => \E s \in S : f = Seg(s)
  BY DEF FilesOf
<1> QED BY <1>1, <1>2, <1>3, <1>4, <1>5, <1>6, <1>7, <1>8, <1>9, <1>10, <1>11

\* A count is a number, positive where some commit holds the file.
LEMMA CountType ==
  ASSUME NEW A, NEW cs \in Seq(A), NEW f
  PROVE  /\ CountOf(cs, f) \in Nat
         /\ CountOf(cs, f) > 0 <=> \E i \in 1 .. Len(cs) : f \in CommitFiles(cs[i])
<1> DEFINE H == {i \in DOMAIN cs : f \in CommitFiles(cs[i])}
<1>1. DOMAIN cs = 1 .. Len(cs) /\ Len(cs) \in Nat
  OBVIOUS
<1>2. IsFiniteSet(1 .. Len(cs))
  BY <1>1, FS_Interval
<1>3. IsFiniteSet(H)
  BY <1>1, <1>2, FS_Subset
<1>4. Cardinality(H) \in Nat /\ (Cardinality(H) = 0 <=> H = {})
  BY <1>3, FS_CardinalityType, FS_EmptySet
<1>5. H # {} <=> \E i \in 1 .. Len(cs) : f \in CommitFiles(cs[i])
  BY <1>1
<1>6. CountOf(cs, f) = Cardinality(H)
  BY DEF CountOf
<1> HIDE DEF H
<1> QED BY <1>4, <1>5, <1>6

\* No commits, no count.
LEMMA CountEmpty == \A f : CountOf(<<>>, f) = 0
<1> TAKE f
<1>1. {i \in DOMAIN <<>> : f \in CommitFiles(<<>>[i])} = {}
  OBVIOUS
<1> QED BY <1>1, FS_EmptySet, Zenon DEF CountOf

\* The count with one more commit.
LEMMA CountAppend ==
  ASSUME NEW A, NEW cs \in Seq(A), NEW c \in A, NEW f
  PROVE  CountOf(Append(cs, c), f) = CountOf(cs, f) + One(CommitFiles(c), f)
<1> DEFINE ds == Append(cs, c)
           n  == Len(cs)
           H  == {i \in 1 .. n : f \in CommitFiles(cs[i])}
           G  == {i \in 1 .. n + 1 : f \in CommitFiles(ds[i])}
<1>1. n \in Nat /\ DOMAIN cs = 1 .. n /\ DOMAIN ds = 1 .. n + 1 /\ ds[n + 1] = c
      /\ \A i \in 1 .. n : ds[i] = cs[i]
  OBVIOUS
<1>2. CountOf(ds, f) = Cardinality(G) /\ CountOf(cs, f) = Cardinality(H)
  BY <1>1 DEF CountOf
<1>3. IsFiniteSet(H) /\ n + 1 \notin H
  <2>1. IsFiniteSet(1 .. n)
    BY <1>1, FS_Interval
  <2> QED BY <1>1, <2>1, FS_Subset
<1>4. Cardinality(H) \in Nat
  BY <1>3, FS_CardinalityType
<1> HIDE DEF ds, n
<1>5. CASE f \in CommitFiles(c)
  <2>1. G = H \cup {n + 1}
    BY <1>1, <1>5
  <2>2. Cardinality(G) = Cardinality(H) + 1
    BY <1>3, <2>1, FS_AddElement
  <2> QED BY <1>2, <1>5, <2>2 DEF One, ds
<1>6. CASE f \notin CommitFiles(c)
  <2>1. G = H
    BY <1>1, <1>6
  <2> HIDE DEF G, H
  <2> QED BY <1>2, <1>4, <1>6, <2>1 DEF One, ds
<1> QED BY <1>5, <1>6

\* A set of subsets of a finite set has a minimal element.
LEMMA MinimalSubset ==
  ASSUME NEW S, IsFiniteSet(S), NEW T, T \subseteq SUBSET S, T # {}
  PROVE  \E x \in T : \A y \in T : y \subseteq x => y = x
<1>1. IsWellFoundedOn(StrictSubsetOrdering(S), SUBSET S)
  BY FS_StrictSubsetOrderingWellFounded, FS_FiniteSubsetsOfFinite
<1>2. \E x \in T : \A y \in T : ~ (<<y, x>> \in StrictSubsetOrdering(S))
  BY <1>1, WFMin
<1> QED BY <1>2 DEF StrictSubsetOrdering

\* A finite set of integers has a largest element.
LEMMA Largest ==
  ASSUME NEW S, IsFiniteSet(S), \A y \in S : y \in Int, S # {}
  PROVE  Max(S) \in S /\ \A y \in S : y <= Max(S)
\* the sets of the elements from some element on
<1> DEFINE Up(x) == {y \in S : y >= x}
           T == {Up(x) : x \in S}
<1>1. PICK U \in T : \A V \in T : V \subseteq U => V = U
  <2>1. T \subseteq SUBSET S /\ T # {}
    OBVIOUS
  <2> HIDE DEF T
  <2> QED BY <2>1, MinimalSubset
<1>2. PICK x \in S : U = Up(x)
  OBVIOUS
<1>3. \A y \in S : y <= x
  <2>1. SUFFICES ASSUME NEW y \in S, y > x PROVE FALSE
    OBVIOUS
  <2>2. Up(y) \subseteq U /\ x \in U /\ x \notin Up(y)
    <3>1. x \in Int /\ y \in Int /\ \A z \in S : z \in Int
      OBVIOUS
    <3>2. x >= x /\ ~(x >= y) /\ \A z \in S : z >= y => z >= x
      BY <2>1, <3>1
    <3> QED BY <1>2, <3>2
  <2>3. Up(y) \in T
    OBVIOUS
  <2> HIDE DEF T, Up
  <2> QED BY <1>1, <2>2, <2>3
<1>4. \E z \in S : \A y \in S : z >= y
  BY <1>3
<1>5. Max(S) \in S /\ \A y \in S : Max(S) >= y
  BY <1>4 DEF Max
<1> QED BY <1>5

\* The commits among the first i of cs that hold f.
Before(cs, i, f) == Cardinality({j \in 1 .. i : f \in CommitFiles(cs[j])})

\* They are counted one after the other.
LEMMA BeforeNext ==
  ASSUME NEW cs, NEW f
  PROVE  /\ \A i \in Nat : Before(cs, i, f) \in Nat
         /\ Before(cs, 0, f) = 0
         /\ \A i \in Nat \ {0} : Before(cs, i, f) = Before(cs, i - 1, f) + One(CommitFiles(cs[i]), f)
         /\ \A i, j \in Nat : i <= j => Before(cs, i, f) <= Before(cs, j, f)
<1> DEFINE H(i) == {j \in 1 .. i : f \in CommitFiles(cs[j])}
<1>1. \A i \in Nat : IsFiniteSet(H(i)) /\ Cardinality(H(i)) \in Nat
  <2>1. SUFFICES ASSUME NEW i \in Nat PROVE IsFiniteSet(H(i)) /\ Cardinality(H(i)) \in Nat
    OBVIOUS
  <2>2. IsFiniteSet(1 .. i) /\ H(i) \subseteq 1 .. i
    BY FS_Interval
  <2> HIDE DEF H
  <2> QED BY <2>2, FS_Subset, FS_CardinalityType
<1>2. \A i : Before(cs, i, f) = Cardinality(H(i))
  BY DEF Before
<1>3. H(0) = {}
  OBVIOUS
<1>4. ASSUME NEW i \in Nat \ {0}
      PROVE  Cardinality(H(i)) = Cardinality(H(i - 1)) + One(CommitFiles(cs[i]), f)
  <2>1. i - 1 \in Nat /\ i \notin H(i - 1)
    OBVIOUS
  <2>2. IsFiniteSet(H(i - 1)) /\ Cardinality(H(i - 1)) \in Nat
    BY <1>1, <2>1
  <2>3. CASE f \in CommitFiles(cs[i])
    <3>1. H(i) = H(i - 1) \cup {i}
      BY <2>1, <2>3
    <3> HIDE DEF H
    <3>2. Cardinality(H(i)) = Cardinality(H(i - 1)) + 1
      BY <2>1, <2>2, <3>1, FS_AddElement
    <3> QED BY <2>3, <3>2 DEF One
  <2>4. CASE f \notin CommitFiles(cs[i])
    <3>1. H(i) = H(i - 1)
      BY <2>1, <2>4
    <3> HIDE DEF H
    <3> QED BY <2>2, <2>4, <3>1 DEF One
  <2> QED BY <2>3, <2>4
<1>5. ASSUME NEW i \in Nat, NEW j \in Nat, i <= j PROVE Cardinality(H(i)) <= Cardinality(H(j))
  <2>1. H(i) \subseteq H(j)
    BY <1>5
  <2>2. IsFiniteSet(H(j))
    BY <1>1
  <2> HIDE DEF H
  <2> QED BY <2>1, <2>2, FS_Subset
<1> HIDE DEF H
<1>6. Before(cs, 0, f) = 0
  BY <1>2, <1>3, FS_EmptySet
<1> QED BY <1>1, <1>2, <1>4, <1>5, <1>6

\* The counts of the first commits and of the rest.
LEMMA BeforeSplit ==
  ASSUME NEW A, NEW cs \in Seq(A), NEW e \in 0 .. Len(cs), NEW f
  PROVE  LET k == SubSeq(cs, e + 1, Len(cs)) IN
         /\ k \in Seq(A) /\ Len(k) = Len(cs) - e
         /\ \A i \in 1 .. Len(k) : i + e \in 1 .. Len(cs) /\ k[i] = cs[i + e]
         /\ \A i \in e + 1 .. Len(cs) : i - e \in 1 .. Len(k) /\ k[i - e] = cs[i]
         /\ CountOf(cs, f) = Before(cs, e, f) + CountOf(k, f)
<1> DEFINE n == Len(cs)
           k == SubSeq(cs, e + 1, n)
           H == {i \in e + 1 .. n : f \in CommitFiles(cs[i])}
           G == {i \in 1 .. n - e : f \in CommitFiles(k[i])}
           B == {i \in 1 .. e : f \in CommitFiles(cs[i])}
           F == {i \in 1 .. n : f \in CommitFiles(cs[i])}
           m == [i \in G |-> i + e]
<1>1. n \in Nat /\ e \in Nat /\ e <= n /\ DOMAIN cs = 1 .. n
  OBVIOUS
<1>2. k \in Seq(A) /\ Len(k) = n - e /\ DOMAIN k = 1 .. n - e
  <2>1. CASE e = n
    <3>1. SubSeq(cs, n + 1, n) = <<>>
      BY <1>1
    <3>2. k = <<>> /\ n - e = 0
      BY <1>1, <2>1, <3>1
    <3> QED BY <3>2
  <2>2. CASE e < n
    <3>1. e + 1 \in 1 .. n /\ e + 1 <= n
      BY <1>1, <2>2
    <3>2. k \in Seq(A) /\ Len(k) = n - (e + 1) + 1
      BY <1>1, <3>1
    <3> HIDE DEF k, n
    <3>3. Len(k) = n - e
      BY <1>1, <3>2
    <3> QED BY <3>2, <3>3
  <2> HIDE DEF k, n
  <2>3. e = n \/ e < n
    BY <1>1
  <2> QED BY <2>1, <2>2, <2>3, Zenon
<1>3. \A i \in 1 .. n - e : i + e \in 1 .. n /\ k[i] = cs[i + e]
  BY <1>1
<1>4. CountOf(k, f) = Cardinality(G) /\ CountOf(cs, f) = Cardinality(F) /\ Before(cs, e, f) = Cardinality(B)
  BY <1>1, <1>2 DEF CountOf, Before
<1> HIDE DEF k, n
<1>5. \A i \in e + 1 .. n : i - e \in 1 .. n - e /\ (i - e) + e = i
  BY <1>1
<1>6. \A i \in e + 1 .. n : k[i - e] = cs[i]
  BY <1>3, <1>5
<1>7. IsFiniteSet(H) /\ IsFiniteSet(B) /\ IsFiniteSet(G)
  <2>0. e + 1 \in Int /\ n \in Int /\ e \in Int /\ n - e \in Int /\ 1 \in Int
    BY <1>1
  <2>1. IsFiniteSet(e + 1 .. n) /\ IsFiniteSet(1 .. e) /\ IsFiniteSet(1 .. n - e)
    BY <2>0, FS_Interval, Zenon
  <2> QED BY <2>1, FS_Subset
<1>8. Cardinality(H) = Cardinality(G)
  <2>2. m \in [G -> H]
    BY <1>1, <1>3
  <2>3. \A h \in H : h - e \in G /\ m[h - e] = h
    <3>1. SUFFICES ASSUME NEW h \in H PROVE h - e \in G /\ m[h - e] = h
      OBVIOUS
    <3>2. h \in e + 1 .. n /\ h - e \in 1 .. n - e /\ (h - e) + e = h /\ k[h - e] = cs[h]
      BY <1>5, <1>6
    <3>4. h - e \in G
      BY <3>1, <3>2
    <3> QED BY <3>2, <3>4
  <2>4. \A i, j \in G : m[i] = m[j] => i = j
    BY <1>1
  <2> HIDE DEF m, G, H
  <2>5. m \in Surjection(G, H)
    BY <2>2, <2>3 DEF Surjection
  <2>6. m \in Injection(G, H)
    BY <2>2, <2>4 DEF Injection, IsInjective
  <2> QED BY <1>7, <2>5, <2>6, FS_Surjection
<1>9. Cardinality(F) = Cardinality(B) + Cardinality(H)
  <2>1. F = B \cup H /\ B \cap H = {}
    BY <1>1
  <2> HIDE DEF F, B, H
  <2>2. Cardinality(B \cup H) = Cardinality(B) + Cardinality(H) - Cardinality(B \cap H)
    BY <1>7, FS_Union
  <2>3. Cardinality(B \cap H) = 0
    BY <2>1, FS_EmptySet
  <2>4. Cardinality(B) \in Nat /\ Cardinality(H) \in Nat
    BY <1>7, FS_CardinalityType
  <2> QED BY <2>1, <2>2, <2>3, <2>4
<1>10. CountOf(cs, f) = Before(cs, e, f) + CountOf(k, f)
  BY <1>4, <1>8, <1>9
<1> QED BY <1>2, <1>3, <1>5, <1>6, <1>10 DEF k, n

\* What the policy lets go: the oldest commits, down to those it keeps.
LEMMA Policy ==
  ASSUME NEW A, NEW cs \in Seq(A)
  PROVE  \E e \in 0 .. Len(cs) :
           /\ Expired(cs) = SubSeq(cs, 1, e) /\ Retained(cs) = SubSeq(cs, e + 1, Len(cs))
           /\ Len(cs) - e <= Keep /\ (cs # <<>> => e < Len(cs))
           /\ e > 0 \/ Len(cs) >= Keep => Len(cs) - e = Keep
<1> DEFINE n == Len(cs)
           e == IF n <= Keep THEN 0 ELSE n - Keep
<1>1. n \in Nat /\ DOMAIN cs = 1 .. n /\ Keep \in Nat \ {0}
  BY KeepAssumption
<1>2. /\ e \in Nat /\ e <= n /\ n - e <= Keep /\ (n > 0 => e < n)
      /\ e > 0 \/ n >= Keep => n - e = Keep
  <2> HIDE DEF n
  <2>1. CASE n <= Keep
    BY <1>1, <2>1
  <2>2. CASE n > Keep
    BY <1>1, <2>2
  <2> QED BY <1>1, <2>1, <2>2
<1>3. OldCommits(cs) = 1 .. e
  BY <1>1 DEF OldCommits
<1>4. cs # <<>> => n > 0
  BY <1>1, EmptySeq
<1> HIDE DEF e
<1>5. Cardinality(1 .. e) = e
  BY <1>2, FS_Interval
<1>6. Expired(cs) = SubSeq(cs, 1, e) /\ Retained(cs) = SubSeq(cs, e + 1, n)
  BY <1>3, <1>5 DEF Expired, Retained
<1> HIDE DEF n
<1>7. e \in 0 .. n
  BY <1>1, <1>2
<1> QED BY <1>2, <1>4, <1>6, <1>7 DEF n

\* The elements of a finite set of integers by rank.
LEMMA Ranked ==
  ASSUME NEW G, IsFiniteSet(G), \A n \in G : n \in Int
  PROVE  LET r == [i \in 1 .. Cardinality(G) |->
                     CHOOSE n \in G : Cardinality({m \in G : m <= n}) = i] IN
         /\ Cardinality(G) \in Nat
         /\ \A i \in 1 .. Cardinality(G) : r[i] \in G
         /\ \A i, j \in 1 .. Cardinality(G) : i < j => r[i] < r[j]
         /\ \A n \in G : \E i \in 1 .. Cardinality(G) : r[i] = n
<1> DEFINE N == Cardinality(G)
           r == [i \in 1 .. N |-> CHOOSE n \in G : Cardinality({m \in G : m <= n}) = i]
           B(n) == {m \in G : m <= n}
           rk == [n \in G |-> Cardinality(B(n))]
<1>1. N \in Nat /\ IsFiniteSet(1 .. N) /\ Cardinality(1 .. N) = N
  <2>1. N \in Nat
    BY FS_CardinalityType
  <2> HIDE DEF N
  <2> QED BY <2>1, FS_Interval
<1>2. \A n \in G : IsFiniteSet(B(n)) /\ Cardinality(B(n)) \in 1 .. N /\ n \in B(n)
  <2>1. SUFFICES ASSUME NEW n \in G
                 PROVE  IsFiniteSet(B(n)) /\ Cardinality(B(n)) \in 1 .. N /\ n \in B(n)
    OBVIOUS
  <2>2. n \in B(n) /\ B(n) \subseteq G
    OBVIOUS
  <2> HIDE DEF B, N
  <2>3. IsFiniteSet(B(n)) /\ Cardinality(B(n)) <= N
    BY <2>2, FS_Subset DEF N
  <2>4. Cardinality(B(n)) \in Nat /\ Cardinality(B(n)) # 0
    BY <2>2, <2>3, FS_CardinalityType, FS_EmptySet
  <2> QED BY <1>1, <2>2, <2>3, <2>4
<1>3. \A n, k \in G : n < k => Cardinality(B(n)) < Cardinality(B(k))
  <2>1. SUFFICES ASSUME NEW n \in G, NEW k \in G, n < k
                 PROVE  Cardinality(B(n)) < Cardinality(B(k))
    OBVIOUS
  <2>2. B(n) \subseteq B(k) /\ k \notin B(n) /\ k \in B(k)
    BY <2>1
  <2>3. /\ IsFiniteSet(B(n)) /\ Cardinality(B(n)) \in 1 .. N
        /\ IsFiniteSet(B(k)) /\ Cardinality(B(k)) \in 1 .. N
    BY <1>2
  <2> HIDE DEF B, N
  <2>4. Cardinality(B(n)) <= Cardinality(B(k)) /\ Cardinality(B(n)) # Cardinality(B(k))
    BY <2>2, <2>3, FS_Subset
  <2> QED BY <1>1, <2>3, <2>4
<1>4. rk \in [G -> 1 .. N] /\ \A n \in G : rk[n] = Cardinality(B(n))
  BY <1>2
<1>5. rk \in Injection(G, 1 .. N)
  <2>1. ASSUME NEW n \in G, NEW k \in G, rk[n] = rk[k] PROVE n = k
    <3>1. n \in Int /\ k \in Int /\ rk[n] \in 1 .. N /\ rk[k] \in 1 .. N
      BY <1>4
    <3>2. (n < k => rk[n] < rk[k]) /\ (k < n => rk[k] < rk[n])
      BY <1>3, <1>4
    <3> HIDE DEF rk, N
    <3> QED BY <1>1, <2>1, <3>1, <3>2
  <2> HIDE DEF rk, N
  <2> QED BY <1>4, <2>1 DEF Injection, IsInjective
<1>6. rk \in Surjection(G, 1 .. N)
  <2> HIDE DEF rk
  <2> QED BY <1>1, <1>5, FS_Injection
<1>7. \A i \in 1 .. N : \E n \in G : Cardinality(B(n)) = i
  <2> HIDE DEF N, B
  <2> QED BY <1>4, <1>6 DEF Surjection
<1>8. \A i \in 1 .. N : r[i] = CHOOSE n \in G : Cardinality(B(n)) = i
  OBVIOUS
<1> HIDE DEF N, B, rk, r
<1>9. \A i \in 1 .. N : r[i] \in G /\ Cardinality(B(r[i])) = i
  BY <1>7, <1>8
<1>10. ASSUME NEW i \in 1 .. N, NEW j \in 1 .. N, i < j PROVE r[i] < r[j]
  <2>1. r[i] \in G /\ r[j] \in G /\ Cardinality(B(r[i])) = i /\ Cardinality(B(r[j])) = j
    BY <1>9
  <2>2. r[i] \in Int /\ r[j] \in Int
    BY <2>1
  <2>3. r[i] # r[j]
    BY <1>1, <1>10, <2>1
  <2>4. ~(r[j] < r[i])
    BY <1>1, <1>3, <1>10, <2>1
  <2> QED BY <2>2, <2>3, <2>4
<1>11. ASSUME NEW n \in G PROVE \E i \in 1 .. N : r[i] = n
  <2>1. Cardinality(B(n)) \in 1 .. N
    BY <1>2
  <2>2. r[Cardinality(B(n))] \in G /\ Cardinality(B(r[Cardinality(B(n))])) = Cardinality(B(n))
    BY <1>9, <2>1
  <2>3. rk[r[Cardinality(B(n))]] = rk[n]
    BY <1>4, <2>2
  <2>4. r[Cardinality(B(n))] = n
    BY <1>4, <1>5, <2>2, <2>3 DEF Injection, IsInjective
  <2> QED BY <2>1, <2>4
<1> QED BY <1>1, <1>9, <1>10, <1>11, Zenon DEF N, r

\* The generations in the directory.
LEMMA DiskGens ==
  /\ IsFiniteSet(GensOnDisk) /\ Cardinality(GensOnDisk) \in Nat
  /\ \A n \in GensOnDisk : n \in Gens /\ n \in Int /\ n > 0 /\ n <= MaxGen
  /\ Latest \in 0 .. MaxGen
  /\ GensOnDisk # {} => Latest \in GensOnDisk
  /\ GensOnDisk = {} => Latest = 0
  /\ \A n \in GensOnDisk : n <= Latest
<1>1. MaxGen \in Nat \ {0} /\ Gens \subseteq Int /\ \A n \in Gens : n > 0 /\ n <= MaxGen /\ n \in Int
  BY BoundAssumption DEF Gens
<1>2. GensOnDisk \subseteq Gens
  BY DEF GensOnDisk
<1>3. IsFiniteSet(GensOnDisk) /\ Cardinality(GensOnDisk) \in Nat
  <2>1. IsFiniteSet(Gens)
    BY <1>1, FS_Interval DEF Gens
  <2> QED BY <1>2, <2>1, FS_Subset, FS_CardinalityType
<1>4. \A n \in GensOnDisk : n \in Gens /\ n \in Int /\ n > 0 /\ n <= MaxGen
  BY <1>1, <1>2
<1>5. GensOnDisk # {} => Latest \in GensOnDisk /\ \A n \in GensOnDisk : n <= Latest
  BY <1>3, <1>4, Largest DEF Latest
<1>6. GensOnDisk = {} => Latest = 0
  BY DEF Latest
<1>7. Latest \in 0 .. MaxGen
  BY <1>1, <1>4, <1>5, <1>6
<1> QED BY <1>3, <1>4, <1>5, <1>6, <1>7

\* The commits of the directory.
LEMMA DiskCommits ==
  ASSUME content \in [Gens -> CommitType], \A n \in GensOnDisk : content[n].gen = n
  PROVE  LET cs == CommitsOnDisk IN
         /\ cs \in Seq(CommitType) /\ Len(cs) = Cardinality(GensOnDisk)
         /\ \A i \in 1 .. Len(cs) : cs[i].gen \in GensOnDisk /\ cs[i] = content[cs[i].gen]
         /\ \A i, j \in 1 .. Len(cs) : i < j => cs[i].gen < cs[j].gen
         /\ \A n \in GensOnDisk : \E i \in 1 .. Len(cs) : cs[i].gen = n
         /\ GensOnDisk # {} => cs # <<>> /\ cs[Len(cs)] = content[Latest]
         /\ GensOnDisk = {} => cs = <<>>
<1> DEFINE N == Cardinality(GensOnDisk)
           r == [i \in 1 .. N |-> CHOOSE n \in GensOnDisk : Cardinality({m \in GensOnDisk : m <= n}) = i]
           cs == CommitsOnDisk
<1>1. /\ IsFiniteSet(GensOnDisk) /\ N \in Nat
      /\ \A n \in GensOnDisk : n \in Gens /\ n \in Int
      /\ GensOnDisk # {} => Latest \in GensOnDisk
      /\ \A n \in GensOnDisk : n <= Latest
  BY DiskGens
<1>2. cs = [i \in 1 .. N |-> content[r[i]]]
  BY DEF CommitsOnDisk
<1>3. /\ \A i \in 1 .. N : r[i] \in GensOnDisk
      /\ \A i, j \in 1 .. N : i < j => r[i] < r[j]
      /\ \A n \in GensOnDisk : \E i \in 1 .. N : r[i] = n
  <2>1. \A n \in GensOnDisk : n \in Int
    BY <1>1
  <2> QED BY <1>1, <2>1, Ranked, Zenon
<1> HIDE DEF r, N, cs
<1>4. \A i \in 1 .. N : cs[i] = content[r[i]] /\ cs[i].gen = r[i] /\ cs[i] \in CommitType
  BY <1>1, <1>2, <1>3
<1>5. cs \in Seq(CommitType) /\ Len(cs) = N
  <2>1. cs \in [1 .. N -> CommitType]
    BY <1>2, <1>4
  <2> QED BY <1>1, <2>1
<1>6. GensOnDisk # {} => cs # <<>> /\ cs[Len(cs)] = content[Latest]
  <2>1. SUFFICES ASSUME GensOnDisk # {} PROVE cs # <<>> /\ cs[Len(cs)] = content[Latest]
    OBVIOUS
  <2>2. PICK i \in 1 .. N : r[i] = Latest
    BY <1>1, <1>3, <2>1
  <2>3. N \in 1 .. N /\ N > 0
    BY <1>1, <2>2
  <2>4. r[N] <= Latest /\ Latest \in Int /\ r[N] \in Int
    BY <1>1, <1>3, <2>1, <2>3
  <2>5. i = N
    BY <1>1, <1>3, <2>2, <2>3, <2>4
  <2>6. cs # <<>>
    BY <1>5, <2>3, EmptySeq
  <2> QED BY <1>4, <1>5, <2>2, <2>3, <2>5, <2>6
<1>7. GensOnDisk = {} => cs = <<>>
  BY <1>5, EmptySeq, FS_EmptySet DEF N
<1>8. \A i \in 1 .. N : cs[i].gen \in GensOnDisk /\ cs[i] = content[cs[i].gen]
  BY <1>3, <1>4
<1>9. \A i, j \in 1 .. N : i < j => cs[i].gen < cs[j].gen
  BY <1>3, <1>4
<1>10. \A n \in GensOnDisk : \E i \in 1 .. N : cs[i].gen = n
  BY <1>3, <1>4
<1> QED BY <1>5, <1>6, <1>7, <1>8, <1>9, <1>10 DEF cs, N

-----------------------------------------------------------------------------
(* What a step leaves alone.                                               *)

\* The locks.
LEMMA LockSteps ==
  ASSUME Serial, lock \in [Locks -> Procs \cup {None}], NEW l \in Locks
  PROVE  /\ Take(Me, l) => /\ lock' \in [Locks -> Procs \cup {None}] /\ lock'[l] = Me
                           /\ \A k \in Locks \ {l} : lock'[k] = lock[k]
         /\ Release(l) => /\ lock' \in [Locks -> Procs \cup {None}] /\ lock'[l] = None
                          /\ \A k \in Locks \ {l} : lock'[k] = lock[k]
         /\ Return(Me) => /\ lock' \in [Locks -> Procs \cup {None}]
                          /\ \A k \in Locks : lock'[k] = None
<1>1. Me \in Procs /\ \A k \in Locks : lock[k] \in {Me, None}
  BY DEF Serial
<1>2. Take(Me, l) => /\ lock' \in [Locks -> Procs \cup {None}] /\ lock'[l] = Me
                     /\ \A k \in Locks \ {l} : lock'[k] = lock[k]
  BY <1>1 DEF Take
<1>3. Release(l) => /\ lock' \in [Locks -> Procs \cup {None}] /\ lock'[l] = None
                    /\ \A k \in Locks \ {l} : lock'[k] = lock[k]
  BY <1>1 DEF Release
<1>4. Return(Me) => /\ lock' \in [Locks -> Procs \cup {None}]
                    /\ \A k \in Locks : lock'[k] = None
  BY <1>1 DEF Return
<1> QED BY <1>2, <1>3, <1>4

\* A writer that is running an operation is open.
LEMMA Running ==
  ASSUME CommitInv, step # "end" \/ state = "open"
  PROVE  state = "open" /\ Live /\ (step \notin {"unlink", "pin"} => todo = <<>> /\ ~errs)
  BY DEF CommitInv, Locked, Active, Starting

\* The files that are there and were not to be deleted.
LEMMA KeptFiles ==
  /\ \A f : f \in kept => f \in disk
  /\ \A n : n \in KeptGens <=> n \in Gens /\ SegsN(n) \in kept
  /\ \A n : n \in KeptGens => n \in GensOnDisk
  /\ \A n : n \in GensOnDisk <=> n \in Gens /\ SegsN(n) \in disk
  BY DEF kept, KeptGens, GensOnDisk

\* They stay the same with the directory.
LEMMA SameFiles ==
  ASSUME UNCHANGED <<disk, undeleted>>
  PROVE  kept' = kept /\ KeptGens' = KeptGens /\ GensOnDisk' = GensOnDisk /\ PendingOnDisk' = PendingOnDisk
  BY DEF kept, KeptGens, GensOnDisk, PendingOnDisk

\* The counts, as long as their parts are.
LEMMA CountedKept ==
  ASSUME Counted, UNCHANGED <<refs, commits, leaks, last>>,
         pend'.info.segs = pend.info.segs, infos'.segs = infos.segs,
         step' = "pin" <=> step = "pin",
         step \in {"changed", "checkpoint", "pin"} => step' \in {"changed", "checkpoint", "pin"},
         aim' = "closed" /\ left' <= 2 <=> aim = "closed" /\ left <= 2
  PROVE  Counted'
<1>1. Pinned' = Pinned
  BY DEF Pinned
<1>2. \A f \in Files : refs'[f] = CountOf(commits, f)' + One(Pinned, f)'
                                  + One(FilesOf(pend.info.segs), f)' + leaks'[f]
  BY <1>1 DEF Counted, CountOf, One
<1> QED BY <1>2 DEF Counted

\* What is counted stays where it is.
LEMMA OnDiskKept ==
  ASSUME OnDisk, UNCHANGED <<refs, last>>, infos'.segs = infos.segs, \A f \in Files : f \in kept => f \in kept',
         infos.segs \subseteq Names, step' = "pin" <=> step = "pin", Strayed' <=> Strayed
  PROVE  OnDisk'
<1>1. FilesOf(infos.segs) \subseteq Files
  BY FileSets
<1>2. Pinned' = Pinned
  BY DEF Pinned
<1>3. \A f \in Files : refs'[f] > 0 => f \in kept' \/ (Strayed' /\ f \in Pinned' /\ refs'[f] = 1)
  BY <1>2 DEF OnDisk
<1>4. ~Strayed' => FilesOf(infos'.segs) \subseteq kept'
  BY <1>1 DEF OnDisk
<1> QED BY <1>3, <1>4 DEF OnDisk

\* The files to delete.
LEMMA DoomedKept ==
  ASSUME todo' = todo, NEW f
  PROVE  Doomed(f)' <=> Doomed(f)
  BY DEF Doomed

\* The files to delete, as long as they and the directory are.
LEMMA DeletionsKept ==
  ASSUME Deletions, UNCHANGED <<todo, refs, content>>, \A n \in KeptGens' : n \in KeptGens,
         \A n \in PendingOnDisk' : n \in PendingOnDisk /\ (step = "rename" => n # pend.info.gen),
         Starting /\ (todo # <<>> \/ errs) => Starting' /\ (errs => errs'),
         aim' = "closed" /\ left' <= 4 /\ ~errs' => aim = "closed" /\ left <= 4 /\ ~errs /\ disk' \subseteq disk
  PROVE  Deletions'
<1>1. \A f : Doomed(f)' <=> Doomed(f)
  BY DoomedKept
<1>2. \A f \in Files : Doomed(f)' => refs'[f] = 0
  BY <1>1 DEF Deletions
<1>3. \A j \in 1 .. Len(todo') : \A n \in KeptGens' : \A f \in todo'[j] :
        f \in FilesOf(content'[n].segs) => \E i \in 1 .. j : SegsN(n) \in todo'[i]
  BY DEF Deletions
<1>4. \A n \in PendingOnDisk' : Starting' /\ (Doomed(Pending(n))' \/ errs')
  <2>1. todo = <<>> => \A f : ~Doomed(f)
    BY DEF Doomed
  <2> QED BY <1>1, <2>1 DEF Deletions
<1>5. aim' = "closed" /\ left' <= 4 /\ ~errs' => \A f \in disk' : Doomed(f)' \/ (f \in Files /\ refs'[f] > 0)
  BY <1>1 DEF Deletions
<1> QED BY <1>2, <1>3, <1>4, <1>5 DEF Deletions

\* The commits, as long as the directory and the files to delete are.
LEMMA RetainingKept ==
  ASSUME Retaining, UNCHANGED <<commits, content, acked, backup, unacked>>,
         \A n \in GensOnDisk' : /\ n \in GensOnDisk
                                /\ Doomed(SegsN(n)) \/ n \notin KeptGens => Doomed(SegsN(n))' \/ n \notin KeptGens',
         pend'.info.gen = pend.info.gen \/ step \notin {"sync", "register"},
         step \in {"sync", "register"} => step' \in {"sync", "register"},
         aim = "finish" /\ left <= 2 => aim' = "finish" /\ left' <= 2
  PROVE  Retaining'
<1>1. \A n \in GensOnDisk' :
       \/ \E i \in 1 .. Len(commits') : commits'[i].gen = n
       \/ /\ Len(commits') = Keep /\ \A i \in 1 .. Len(commits') : n < commits'[i].gen
          /\ Doomed(SegsN(n))' \/ n \notin KeptGens'
       \/ step' \in {"sync", "register"} /\ n = pend'.info.gen
  BY DEF Retaining
<1> QED BY <1>1 DEF Retaining

\* The generations.
LEMMA GenerationsKept ==
  ASSUME Generations, infos'.gen = infos.gen, acked' = acked, unacked' = unacked,
         \A n \in GensOnDisk' : n \in GensOnDisk,
         pend'.info.gen = pend.info.gen, pend' # NoCommit <=> pend # NoCommit,
         aim = "closed" => aim' = "closed",
         aim = "finish" /\ left <= 4 => aim' = "finish" /\ left' <= 4
  PROVE  Generations'
  BY DEF Generations

\* The names.
LEMMA NumberedKept ==
  ASSUME Numbered, infos'.counter = infos.counter, UNCHANGED <<committed, backup, refs>>,
         \A s \in Names : Seg(s) \in disk' => Seg(s) \in disk,
         pend'.info.segs = pend.info.segs, pend'.info.counter = pend.info.counter,
         pend' # NoCommit => pend # NoCommit
  PROVE  Numbered'
  BY DEF Numbered

\* The tickets.
LEMMA TicketedKept ==
  ASSUME Ticketed, tickets \in Seq(Names \cup {NoSeg}), UNCHANGED <<tickets, refs, todo>>,
         infos'.segs = infos.segs, \A s \in Names : Seg(s) \in kept => Seg(s) \in kept'
  PROVE  Ticketed'
<1>1. \A f : Doomed(f)' <=> Doomed(f)
  BY DoomedKept
<1>2. \A i \in 1 .. Len(tickets) : tickets[i] # NoSeg => tickets[i] \in Names
  OBVIOUS
<1> QED BY <1>1, <1>2 DEF Ticketed

\* What survives, as long as the commits of the directory are the same.
LEMMA DurableKept ==
  ASSUME Durable, content \in [Gens -> CommitType], UNCHANGED <<content, acked, committed>>,
         GensOnDisk' = GensOnDisk, KeptGens' = KeptGens, \A s \in Names : Seg(s) \in kept => Seg(s) \in kept'
  PROVE  Durable'
<1>1. \A n \in KeptGens : Whole(n)'
  <2>1. SUFFICES ASSUME NEW n \in KeptGens, NEW f \in FilesOf(content[n].segs) PROVE f \in kept'
    BY DEF Whole
  <2>2. PICK s \in content[n].segs : f = Seg(s)
    BY FileSets
  <2>3. content[n] \in CommitType /\ f \in kept
    BY KeptFiles DEF Durable, Whole
  <2>4. s \in Names
    BY <2>2, <2>3 DEF CommitType
  <2> QED BY <2>2, <2>3, <2>4
<1>2. \A n : Outlived(n)' <=> Outlived(n)
  BY DEF Outlived
<1> QED BY <1>1, <1>2 DEF Durable

\* The types, when a step leaves the data alone.
LEMMA TypesKept ==
  ASSUME Types, UNCHANGED <<disk, content, state, infos, tickets, backup, refs, last, commits, todo,
                            acked, committed, leaks, undeleted, unacked>>,
         fresh' \in Names \cup {NoSeg}, clone' \in PendType \cup {NoCommit}, pend' \in PendType \cup {NoCommit},
         {dirty', pdirty', closing'} \subseteq BOOLEAN, lock' \in [Locks -> Procs \cup {None}]
  PROVE  Types'
  BY DEF Types

\* A step that leaves the files, the commits and their counts alone.
LEMMA FilesKept ==
  ASSUME CommitInv, step # "end" \/ Active, state' \in {state, "open"}, state' = state \/ (todo = <<>> /\ ~errs),
         UNCHANGED <<disk, content, backup, refs, commits, todo, acked, committed, undeleted, unacked>>,
         errs' = errs \/ (state = "open" /\ ~(aim' = "closed" /\ left' <= 4)),
         infos'.gen = infos.gen, infos'.counter = infos.counter,
         pend'.info = pend.info, pend' # NoCommit <=> pend # NoCommit,
         Routed', Types', Locked', Committing', RollingBack', Counted', OnDisk', Ticketed',
         step # "rename", aim = "closed" => aim' = "closed",
         aim' = "closed" /\ left' <= 4 => aim = "closed" /\ left <= 4,
         step \in {"sync", "register"} => step' \in {"sync", "register"},
         aim = "finish" /\ left <= 2 => aim' = "finish" /\ left' <= 2,
         aim = "finish" /\ left <= 4 => aim' = "finish" /\ left' <= 4
  PROVE  CommitInv'
<1>1. Active /\ Live
  BY DEF CommitInv, Locked, Active
<1>2. Types /\ Durable
  BY DEF CommitInv
<1>3. kept' = kept /\ GensOnDisk' = GensOnDisk /\ KeptGens' = KeptGens /\ PendingOnDisk' = PendingOnDisk
  BY SameFiles
<1>4. Deletions'
  <2>1. Starting /\ (todo # <<>> \/ errs) => Starting' /\ (errs => errs')
    BY DEF Starting
  <2> QED BY <1>1, <1>3, <2>1, DeletionsKept DEF Live
<1>5. Retaining'
  <2>1. \A f : Doomed(f) <=> Doomed(f)'
    BY DoomedKept
  <2> QED BY <1>1, <1>3, <2>1, RetainingKept DEF Live
<1>6. Generations'
  BY <1>1, <1>3, GenerationsKept DEF Live
<1>7. Numbered'
  BY <1>1, NumberedKept DEF Live
<1>8. Durable'
  BY <1>2, <1>3, DurableKept DEF Types
<1>9. RollbackRestores'
  BY <1>1 DEF RollbackRestores, Active, Starting
<1> QED BY <1>4, <1>5, <1>6, <1>7, <1>8, <1>9 DEF CommitInv, Live

\* A step that leaves the data alone keeps the invariant when the place where
\* the operation is says the same about it.
LEMMA QuietKept ==
  ASSUME CommitInv, step # "end" \/ Active, state' \in {state, "open"}, state' = state \/ (todo = <<>> /\ ~errs),
         UNCHANGED <<disk, content, infos, tickets, backup, refs, last, commits, todo, errs,
                     acked, committed, leaks, undeleted, unacked>>,
         pend'.info = pend.info, pend' # NoCommit <=> pend # NoCommit,
         Routed', Types', Locked', Committing', RollingBack',
         step' = "pin" <=> step = "pin", step # "rename",
         step \in {"changed", "checkpoint", "pin"} => step' \in {"changed", "checkpoint", "pin"},
         aim = "closed" => aim' = "closed",
         aim' = "closed" /\ left' <= 2 <=> aim = "closed" /\ left <= 2,
         aim' = "closed" /\ left' <= 4 => aim = "closed" /\ left <= 4,
         aim' = "closed" /\ left' <= 7 <=> aim = "closed" /\ left <= 7,
         step \in {"sync", "register"} => step' \in {"sync", "register"},
         aim = "finish" /\ left <= 2 => aim' = "finish" /\ left' <= 2,
         aim = "finish" /\ left <= 4 => aim' = "finish" /\ left' <= 4
  PROVE  CommitInv'
<1>1. Live /\ Types
  BY DEF CommitInv, Locked, Active
<1>2. Counted'
  BY <1>1, CountedKept DEF Live
<1>3. OnDisk'
  <2>1. kept' = kept /\ (Strayed' <=> Strayed)
    BY SameFiles DEF Strayed
  <2> QED BY <1>1, <2>1, OnDiskKept DEF Live, Types, CommitType
<1>4. Ticketed'
  BY <1>1, SameFiles, TicketedKept DEF Live, Types
<1> QED BY <1>2, <1>3, <1>4, FilesKept

\* The writer is given up: what survives is left.
LEMMA GivenUp ==
  ASSUME Serial, CommitInv, state' = "failed", Return(Me), Types', UNCHANGED <<disk, content, acked, committed, undeleted>>,
         todo' = <<>>, ~errs'
  PROVE  CommitInv'
<1>1. Routed' /\ step' = "end" /\ aim' = "end" /\ left' = 0
  BY Returned DEF CommitInv, Return
<1>2. lock'["deleter.mu"] = None
  <2>1. lock \in [Locks -> Procs \cup {None}] /\ "deleter.mu" \in Locks
    BY DEF CommitInv, Types, Locks
  <2> QED BY <2>1, LockSteps
<1>3. Locked' /\ Committing' /\ RollingBack' /\ RollbackRestores' /\ ~Active'
  BY <1>1, <1>2 DEF Locked, Committing, RollingBack, RollbackRestores, Active, Starting
<1>4. Durable'
  BY SameFiles, DurableKept DEF CommitInv, Types
<1> QED BY <1>1, <1>3, <1>4 DEF CommitInv

-----------------------------------------------------------------------------
(* The steps that leave the data alone.                                    *)

\* The data is there and has its types.
LEMMA Facts ==
  ASSUME CommitInv
  PROVE  /\ Routed /\ Types /\ Locked /\ Committing /\ RollingBack /\ Durable
         /\ lock \in [Locks -> Procs \cup {None}]
         /\ fresh \in Names \cup {NoSeg} /\ clone \in PendType \cup {NoCommit}
         /\ pend \in PendType \cup {NoCommit} /\ infos \in CommitType
         /\ {dirty, pdirty, closing} \subseteq BOOLEAN
         /\ "deleter.mu" \in Locks /\ "mu" \in Locks /\ "purgeMu" \in Locks
         /\ "fullFlushLock" \in Locks /\ "commitLock" \in Locks
         /\ left \in Nat
<1>1. left \in Nat
  BY Where DEF CommitInv, Routed, left
<1> QED BY <1>1 DEF CommitInv, Types, Locks

\* deleter.mu is held where it was.
LEMMA LockedKept ==
  ASSUME Locked, step # "end" \/ state = "open", lock'["deleter.mu"] = lock["deleter.mu"],
         UNCHANGED <<todo, errs, state>>,
         step' \notin {"unlink", "pin"}, step \notin {"unlink", "pin"}
  PROVE  Locked'
  BY DEF Locked, Starting

\* publishFlushedSegments(false) takes purgeMu or gives up.
LEMMA TryPurgeKept ==
  ASSUME Serial, CommitInv, TryPurge(Me)
  PROVE  CommitInv'
<1>1. /\ step = "tryPurge"
      /\ UNCHANGED <<disk, content, state, mem, del, hist>>
      /\ Then(Me, IF lock["purgeMu"] = None THEN <<"purge">> ELSE <<>>)
  BY AtStep DEF TryPurge
<1> USE Facts
<1>2. Routed' /\ step' \in {"purge", "end"} /\ aim' \in {"purge", "end"} /\ aim = "tryPurge"
  BY <1>1, Tries, Zenon
<1>3. lock' \in [Locks -> Procs \cup {None}] /\ lock'["deleter.mu"] = lock["deleter.mu"]
  BY DEF TryPurge, Serial, Locks
<1>4. Types'
  BY <1>1, <1>3, TypesKept DEF mem, del, hist
<1>5. Locked'
  BY <1>1, <1>2, <1>3, LockedKept DEF del
<1>6. Committing' /\ RollingBack'
  BY <1>2 DEF Committing, RollingBack
<1> QED BY <1>1, <1>2, <1>4, <1>5, <1>6, QuietKept DEF mem, del, hist

\* IndexWriter.changed.
LEMMA ChangedStepKept ==
  ASSUME Serial, CommitInv, ChangedStep(Me)
  PROVE  CommitInv'
<1>1. /\ step = "changed" /\ Then(Me, <<>>) /\ dirty' = TRUE /\ pdirty' = TRUE
      /\ UNCHANGED <<disk, content, state, closing, infos, tickets, fresh, clone, pend, backup, del, lock, hist>>
  BY AtStep DEF ChangedStep, Change
<1> USE Facts
<1>2. /\ Routed' /\ left' \in Nat /\ left \in Nat /\ left' = left - 1 /\ aim' = aim
      /\ step' = "checkpoint" /\ Far /\ Far'
  BY <1>1, FlushAdvances DEF FlushStages, PurgeSteps
<1>4. Types'
  BY <1>1, TypesKept DEF del, hist
<1>5. Locked'
  BY <1>1, <1>2, LockedKept DEF del
<1>6. Committing' /\ RollingBack'
  BY <1>1, <1>2, SameFiles DEF Committing, RollingBack, Far, hist
<1> QED BY <1>1, <1>2, <1>4, <1>5, <1>6, QuietKept DEF del, hist, Far

\* The steps of a flush that only move on: the end of a purge and of a full
\* flush, and of the write of the reader pool.
LEMMA FlushStepsKept ==
  ASSUME Serial, CommitInv, PurgeEnd(Me) \/ EndFullFlush(Me) \/ PoolEnd(Me)
  PROVE  CommitInv'
<1>1. /\ step \in {"purge", "endFullFlush", "poolEnd"} /\ Then(Me, <<>>)
      /\ UNCHANGED <<disk, content, state, mem, del, hist>>
      /\ step = "purge" => tickets = <<>>
      /\ Release("purgeMu") \/ Release("fullFlushLock") \/ Release("mu")
  BY AtStep DEF PurgeEnd, EndFullFlush, PoolEnd
<1> USE Facts
<1>2. /\ Routed' /\ left' \in Nat /\ left \in Nat /\ left' = left - 1 /\ Far
      /\ aim' = IF step' = "end" THEN "end" ELSE aim
      /\ step' \in {"endFullFlush", "pool", "clone", "discard", "end"}
      /\ step' = "discard" => step = "purge" /\ aim = "closed" /\ left' = 10
      /\ step' \in {"endFullFlush", "pool"} => Far'
      /\ step' = "clone" => aim \in {"finish", "return"} /\ (aim = "finish" => left = 10)
  BY <1>1, FlushAdvances DEF FlushStages, PurgeSteps
<1>3. lock' \in [Locks -> Procs \cup {None}] /\ lock'["deleter.mu"] = lock["deleter.mu"]
  BY <1>1, LockSteps
<1>4. Types'
  BY <1>1, <1>3, TypesKept DEF mem, del, hist
<1>5. Locked'
  BY <1>1, <1>2, <1>3, LockedKept DEF del
<1>6. Committing' /\ RollingBack'
  BY <1>1, <1>2, SameFiles DEF Committing, RollingBack, Far, mem, hist
<1>7. aim = "closed" => step' # "end"
  BY <1>1, <1>2, Rest, FlushAdvances DEF Spot, FlushStages, PurgeSteps
<1> QED BY <1>1, <1>2, <1>4, <1>5, <1>6, <1>7, QuietKept DEF mem, del, hist, Far

\* writeReaderPool goes on with a checkpoint.
LEMMA PoolKept ==
  ASSUME Serial, CommitInv, Pool(Me)
  PROVE  CommitInv'
<1>1. /\ step = "pool" /\ Then(Me, Checkpoint) /\ Take(Me, "mu") /\ dirty' = TRUE /\ pdirty' = TRUE
      /\ UNCHANGED <<disk, content, state, closing, infos, tickets, fresh, clone, pend, backup, del, hist>>
  BY AtStep DEF Pool, Change
<1> USE Facts
<1>2. /\ Routed' /\ left \in Nat /\ left' = left + 1 /\ aim' = aim
      /\ step' = "checkpoint" /\ Far /\ Far'
  BY <1>1, Checkpoints
<1>3. lock' \in [Locks -> Procs \cup {None}] /\ lock'["deleter.mu"] = lock["deleter.mu"]
  BY <1>1, LockSteps
<1>4. Types'
  BY <1>1, <1>3, TypesKept DEF del, hist
<1>5. Locked'
  BY <1>1, <1>2, <1>3, LockedKept DEF del
<1>6. Committing' /\ RollingBack'
  BY <1>1, <1>2, SameFiles DEF Committing, RollingBack, Far, hist
<1> QED BY <1>1, <1>2, <1>4, <1>5, <1>6, QuietKept DEF del, hist, Far

\* The operations that return without a change.
LEMMA ReturnsKept ==
  ASSUME Serial, CommitInv, ReturnStep(Me) \/ WriteRefused(Me)
  PROVE  CommitInv'
<1>1. /\ step \in {"return", "write"} /\ Return(Me)
      /\ UNCHANGED <<disk, content, state, mem, del, hist>>
  BY AtStep DEF ReturnStep, WriteRefused
<1> USE Facts
<1>2. Routed' /\ step' = "end" /\ aim' = "end" /\ left' = 0
  BY <1>1, Returned DEF Return
<1>3. lock' \in [Locks -> Procs \cup {None}] /\ lock'["deleter.mu"] = None
  BY <1>1, LockSteps
<1>4. Types'
  BY <1>1, <1>3, TypesKept DEF mem, del, hist
<1>5. Locked'
  BY <1>1, <1>2, <1>3 DEF del, Locked, Starting
<1>6. Committing' /\ RollingBack'
  BY <1>1, <1>2 DEF Committing, RollingBack
<1>7. ~(aim = "finish" /\ left <= 4) /\ aim # "closed"
  BY <1>1, Rest DEF Spot, FlushStages, PurgeSteps
<1> QED BY <1>1, <1>2, <1>4, <1>5, <1>6, <1>7, Rest, QuietKept DEF mem, del, hist

\* The beginnings of Flush, PrepareCommit, Commit and Rollback.
LEMMA EntersKept ==
  ASSUME Serial, CommitInv, Flush(Me) \/ PrepareCommit(Me) \/ Commit(Me) \/ Rollback(Me)
  PROVE  CommitInv'
<1> USE Facts
<1>1. /\ state = "open" /\ pc[Me] = <<>>
      /\ UNCHANGED <<disk, content, state, mem, del, acked, committed, leaks, undeleted, unacked>>
  BY DEF Flush, PrepareCommit, Commit, Rollback, EnterCommit, hist
<1>2. step = "end" /\ aim = "end"
  BY <1>1, Zenon DEF step, aim, Steps, First, Final
<1>3. lock' \in [Locks -> Procs \cup {None}] /\ lock'["deleter.mu"] = lock["deleter.mu"]
  <2>1. CASE Flush(Me)
    BY <2>1 DEF Flush
  <2>2. CASE PrepareCommit(Me) \/ Commit(Me) \/ Rollback(Me)
    <3>1. Take(Me, "commitLock")
      BY <2>2 DEF PrepareCommit, Commit, Rollback, EnterCommit
    <3> QED BY <3>1, LockSteps
  <2> QED BY <2>1, <2>2
<1>4. /\ Routed' /\ step' \notin {"unlink", "pin", "protect"}
      /\ \/ aim' = "poolEnd"
         \/ aim' = "return" /\ unacked = 0
         \/ aim' = "finish" /\ left' = 15 /\ infos.gen < MaxGen /\ pend = NoCommit
         \/ aim' = "finish" /\ left' = 6 /\ pend # NoCommit /\ (pend.pending \/ pend.info.gen < MaxGen)
         \/ aim' = "closed" /\ left' = 12
  <2>1. CASE Flush(Me)
    <3>1. Routed' /\ step' = "flushAll" /\ aim' = "poolEnd"
      BY <2>1, FlushRoute, Entered, Zenon DEF Flush
    <3> QED BY <3>1
  <2>2. CASE PrepareCommit(Me)
    <3>1. Routed' /\ step' = "flushAll" /\ aim' = "return"
      BY <2>2, PrepareRoute, Entered, Zenon DEF PrepareCommit, EnterCommit
    <3>2. unacked = 0
      BY <2>2, Zenon DEF PrepareCommit
    <3> QED BY <3>1, <3>2
  <2>3. CASE Rollback(Me)
    <3>1. Routed' /\ step' = "abort" /\ aim' = "closed" /\ left' = 12
      BY <2>3, RollbackRoute, Entered, Zenon DEF Rollback, EnterCommit
    <3> QED BY <3>1
  <2>4. CASE Commit(Me) /\ pend = NoCommit
    <3>1. pc' = [pc EXCEPT ![Me] = (DoFlush \o Prepare) \o Finish] /\ infos.gen < MaxGen
      BY <2>4, Zenon DEF Commit, EnterCommit
    <3>2. Routed' /\ step' = "flushAll" /\ aim' = "finish" /\ left' = 15
      BY <3>1, CommitRoute, Entered, Zenon
    <3> QED BY <2>4, <3>1, <3>2
  <2>5. CASE Commit(Me) /\ pend # NoCommit
    <3>1. /\ pc' = [pc EXCEPT ![Me] = <<>> \o Finish]
          /\ pend.pending \/ pend.info.gen < MaxGen
      BY <2>5, Zenon DEF Commit, EnterCommit
    <3>2. <<>> \o Finish = Finish
      <4>1. Finish \in Seq(AllSteps)
        BY FinishRoute DEF Route, Plan
      <4> QED BY <4>1
    <3>3. pc' = [pc EXCEPT ![Me] = Finish]
      BY <3>1, <3>2, Zenon
    <3>4. Routed' /\ step' = "write" /\ aim' = "finish" /\ left' = 6
      BY <3>3, FinishRoute, Entered, Zenon
    <3> QED BY <2>5, <3>1, <3>4
  <2> QED BY <2>1, <2>2, <2>3, <2>4, <2>5
<1>5. Types'
  BY <1>1, <1>3, TypesKept DEF mem, del
<1>6. Locked'
  BY <1>1, <1>2, <1>3, <1>4, LockedKept DEF del
<1>7. Committing' /\ RollingBack'
  <2>1. pend = NoCommit => unacked = 0
    BY <1>1, <1>2, Running DEF Live, Generations
  <2> QED BY <1>1, <1>4, <2>1 DEF Committing, RollingBack, mem
<1>8. /\ step' # "pin" /\ step # "pin" /\ ~(aim' = "closed" /\ left' <= 2) /\ ~(aim = "closed" /\ left <= 2)
      /\ ~(aim' = "closed" /\ left' <= 7)
  BY <1>2, <1>4
<1> QED BY <1>1, <1>2, <1>4, <1>5, <1>6, <1>7, <1>8, QuietKept DEF mem, del, Active

\* toCommit is a copy of the segments.
LEMMA CloneKept ==
  ASSUME Serial, CommitInv, Clone(Me)
  PROVE  CommitInv'
<1>1. /\ step = "clone" /\ Then(Me, <<>>) /\ clone' = [info |-> infos, pending |-> FALSE]
      /\ UNCHANGED <<disk, content, state, closing, infos, tickets, fresh, pend, backup, dirty, pdirty, del, lock, hist>>
  BY AtStep DEF Clone
<1> USE Facts
<1>2. /\ Routed' /\ left' \in Nat /\ left \in Nat /\ left' = left - 1
      /\ step' = "protect" /\ aim' = aim /\ aim \in {"finish", "return"}
      /\ aim = "finish" => left = 9
  BY <1>1, TailAdvances DEF FlushStages, PurgeSteps
<1>3. clone' \in PendType
  BY <1>1 DEF PendType
<1>4. Types'
  BY <1>1, <1>3, TypesKept DEF del, hist
<1>5. Locked'
  BY <1>1, <1>2, LockedKept DEF del
<1>6. Committing' /\ RollingBack'
  BY <1>1, <1>2, SameFiles DEF Committing, RollingBack, hist
<1> QED BY <1>1, <1>2, <1>4, <1>5, <1>6, QuietKept DEF del, hist

\* Rollback takes fullFlushLock.
LEMMA AbortKept ==
  ASSUME Serial, CommitInv, Abort(Me)
  PROVE  CommitInv'
<1>1. /\ step = "abort" /\ Then(Me, <<>>) /\ Take(Me, "fullFlushLock")
      /\ UNCHANGED <<disk, content, state, mem, del, hist>>
  BY AtStep DEF Abort
<1> USE Facts
<1>2. /\ Routed' /\ left' \in Nat /\ left \in Nat /\ left' = left - 1
      /\ step' = "purge" /\ aim' = aim /\ aim = "closed" /\ Far /\ Far'
  BY <1>1, TailAdvances DEF FlushStages, PurgeSteps
<1>3. lock' \in [Locks -> Procs \cup {None}] /\ lock'["deleter.mu"] = lock["deleter.mu"]
  BY <1>1, LockSteps
<1>4. Types'
  BY <1>1, <1>3, TypesKept DEF mem, del, hist
<1>5. Locked'
  BY <1>1, <1>2, <1>3, LockedKept DEF del
<1>6. Committing' /\ RollingBack'
  BY <1>1, <1>2 DEF Committing, RollingBack, Far
<1> QED BY <1>1, <1>2, <1>4, <1>5, <1>6, QuietKept DEF mem, del, hist, Far

\* Close sets closing and returns.
LEMMA CloseKept ==
  ASSUME Serial, CommitInv, Close(Me)
  PROVE  CommitInv'
<1>1. /\ state = "open" /\ pc' = pc /\ closing' = TRUE
      /\ UNCHANGED <<disk, content, state, infos, tickets, fresh, clone, pend, backup, dirty, pdirty, del, lock, hist>>
  BY DEF Close
<1> USE Facts
<1>2. Routed' /\ step' = step /\ aim' = aim /\ left' = left /\ step = "end"
  <2>1. step = "end"
    BY Zenon DEF Close, step, First, Steps
  <2> QED BY <1>1, <2>1, Stayed
<1>4. Types'
  BY <1>1, TypesKept DEF del, hist
<1>5. Locked'
  BY <1>1, <1>2, LockedKept DEF del
<1>6. Committing' /\ RollingBack'
  BY <1>1, <1>2, SameFiles DEF Committing, RollingBack, del, hist
<1> QED BY <1>1, <1>2, <1>4, <1>5, <1>6, QuietKept DEF del, hist, Active

\* The metadata is synced: the commit is no longer pending.
LEMMA SyncKept ==
  ASSUME Serial, CommitInv, Sync(Me)
  PROVE  CommitInv'
<1>1. /\ step = "sync" /\ Then(Me, <<>>) /\ pend' = [pend EXCEPT !.pending = FALSE]
      /\ UNCHANGED <<disk, content, state, closing, infos, tickets, fresh, clone, backup, dirty, pdirty, del, lock, hist>>
  BY AtStep DEF Sync
<1> USE Facts
<1>2. /\ Routed' /\ left' = 3 /\ left = 4
      /\ step' = "register" /\ aim' = aim /\ aim = "finish"
  BY <1>1, TailAdvances DEF FlushStages, PurgeSteps
<1>3. pend # NoCommit /\ pend \in PendType
  BY <1>1, <1>2 DEF Committing
<1>4. pend'.info = pend.info /\ pend' \in PendType /\ pend' # NoCommit
  <2>1. pend' = [info |-> pend.info, pending |-> FALSE] /\ pend.info \in CommitType
    BY <1>1, <1>3 DEF PendType
  <2>2. pend.info.gen >= 0
    BY <2>1 DEF CommitType
  <2>3. NoCommit.info.gen = -1
    BY DEF NoCommit
  <2> QED BY <2>1, <2>2, <2>3 DEF PendType
<1>5. Types'
  BY <1>1, <1>4, TypesKept DEF del, hist
<1>6. Locked'
  BY <1>1, <1>2, LockedKept DEF del
<1>7. Committing' /\ RollingBack'
  BY <1>1, <1>2, <1>4, SameFiles DEF Committing, RollingBack, del, hist
<1> QED BY <1>1, <1>2, <1>3, <1>4, <1>5, <1>6, <1>7, QuietKept DEF del, hist

\* Nothing is left to delete: deleter.mu is released.
LEMMA UnlinkEndKept ==
  ASSUME Serial, CommitInv, step = "unlink", todo = <<>>, Then(Me, <<>>), Release("deleter.mu"),
         ~errs, UNCHANGED <<disk, todo, errs, content, state, mem, refs, last, commits, hist>>
  PROVE  CommitInv'
<1> USE Facts
<1>2. /\ Routed' /\ left' \in Nat /\ left \in Nat /\ left' = left - 1 /\ aim' = aim
      /\ \/ aim = "finish" /\ left = 2 /\ step' = "finish"
         \/ aim = "finish" /\ left = 7 /\ step' = "write"
         \/ aim = "return" /\ step' = "return"
         \/ aim = "closed" /\ left = 9 /\ step' = "restore"
         \/ aim = "closed" /\ left = 4 /\ step' = "closeDeleter"
         \/ aim = "closed" /\ left = 2 /\ step' = "closed"
  BY TailAdvances DEF FlushStages, PurgeSteps
<1>3. lock' \in [Locks -> Procs \cup {None}] /\ lock'["deleter.mu"] = None
  BY LockSteps
<1>4. Types'
  BY <1>3, TypesKept DEF mem, hist
<1>5. Locked'
  BY <1>2, <1>3 DEF Locked
<1>6. Committing' /\ RollingBack'
  BY <1>2, SameFiles DEF Committing, RollingBack, mem, hist
<1> QED BY <1>2, <1>4, <1>5, <1>6, QuietKept DEF mem, hist

-----------------------------------------------------------------------------
(* What the counts protect.                                                *)

\* The pending commit's segments, and that NoCommit has none.
LEMMA PendTypes ==
  ASSUME pend \in PendType \cup {NoCommit}
  PROVE  /\ pend.info.segs \subseteq Names
         /\ pend # NoCommit => /\ pend \in PendType /\ pend.info \in CommitType /\ pend.info.gen \in 0 .. MaxGen
                               /\ pend.info.counter \in 0 .. MaxSegments
         /\ pend = NoCommit => pend.info.segs = {} /\ pend.info.gen = -1
<1>1. pend = NoCommit => pend.info.segs = {} /\ pend.info.gen = -1
  BY DEF NoCommit
<1>2. pend # NoCommit => pend \in PendType /\ pend.info \in CommitType
  BY DEF PendType
<1>3. pend # NoCommit => /\ pend.info.segs \subseteq Names /\ pend.info.gen \in 0 .. MaxGen
                         /\ pend.info.counter \in 0 .. MaxSegments
  BY <1>2 DEF CommitType
<1> QED BY <1>1, <1>2, <1>3

\* A file with a holder is counted and not being deleted, and it is there,
\* unless a rollback that strayed is its only holder.
LEMMA Held ==
  ASSUME Types, Live
  PROVE  /\ \A f \in Files : refs[f] > 0 => ~Doomed(f) /\ (f \in kept \/ Strayed)
         /\ \A i \in 1 .. Len(commits) : /\ commits[i] \in CommitType /\ commits[i].gen \in Gens
                                         /\ commits[i].segs \subseteq Names
         /\ \A i \in 1 .. Len(commits) : \A f \in CommitFiles(commits[i]) : f \in Files /\ refs[f] > 0 /\ f \in kept
         /\ \A f \in Files : f \in Pinned => refs[f] > 0
         /\ \A f \in FilesOf(pend.info.segs) : f \in Files /\ refs[f] > 0 /\ f \in kept
         /\ \A f \in Files : leaks[f] > 0 => refs[f] > 0 /\ f \in kept
<1>1. /\ commits \in Seq(CommitType) /\ refs \in [Files -> Nat] /\ leaks \in [Files -> Nat]
      /\ pend \in PendType \cup {NoCommit}
  BY DEF Types
<1>2. \A f \in Files : /\ CountOf(commits, f) \in Nat
                       /\ CountOf(commits, f) > 0 <=> \E i \in 1 .. Len(commits) : f \in CommitFiles(commits[i])
  BY <1>1, CountType
<1>3. \A S, f : One(S, f) \in Nat /\ (f \in S => One(S, f) = 1)
  BY DEF One
<1>4. \A f \in Files : refs[f] = CountOf(commits, f) + One(Pinned, f) + One(FilesOf(pend.info.segs), f) + leaks[f]
  BY DEF Live, Counted
<1>5. \A f \in Files : /\ f \in Pinned => refs[f] > 0
                       /\ CountOf(commits, f) > 0 \/ f \in FilesOf(pend.info.segs) \/ leaks[f] > 0 =>
                            refs[f] > 0 /\ f \in kept
  <2>1. SUFFICES ASSUME NEW f \in Files
                 PROVE  /\ f \in Pinned => refs[f] > 0
                        /\ CountOf(commits, f) > 0 \/ f \in FilesOf(pend.info.segs) \/ leaks[f] > 0 =>
                             refs[f] > 0 /\ f \in kept
    OBVIOUS
  <2>2. /\ CountOf(commits, f) \in Nat /\ leaks[f] \in Nat /\ One(Pinned, f) \in Nat
        /\ One(FilesOf(pend.info.segs), f) \in Nat /\ refs[f] \in Nat
        /\ f \in Pinned => One(Pinned, f) = 1
        /\ f \in FilesOf(pend.info.segs) => One(FilesOf(pend.info.segs), f) = 1
    BY <1>1, <1>2, <1>3
  <2>3. refs[f] > 0 => f \in kept \/ (f \in Pinned /\ refs[f] = 1)
    BY DEF Live, OnDisk
  <2>4. refs[f] = CountOf(commits, f) + One(Pinned, f) + One(FilesOf(pend.info.segs), f) + leaks[f]
    BY <1>4
  <2> QED BY <2>2, <2>3, <2>4
<1>6. \A i \in 1 .. Len(commits) : /\ commits[i] \in CommitType /\ commits[i].gen \in Gens
                                   /\ commits[i].segs \subseteq Names
  <2>1. SUFFICES ASSUME NEW i \in 1 .. Len(commits)
                 PROVE  commits[i] \in CommitType /\ commits[i].gen \in Gens /\ commits[i].segs \subseteq Names
    OBVIOUS
  <2>2. commits[i] \in CommitType /\ commits[i].gen > 0
    BY <1>1 DEF Live, Retaining
  <2> QED BY <2>2, BoundAssumption DEF CommitType, Gens
<1>7. \A i \in 1 .. Len(commits) : \A f \in CommitFiles(commits[i]) : f \in Files
  BY <1>6, FileSets DEF CommitFiles
<1>8. \A f \in FilesOf(pend.info.segs) : f \in Files
  BY <1>1, PendTypes, FileSets
<1>9. \A f \in Files : refs[f] > 0 => ~Doomed(f) /\ (f \in kept \/ Strayed)
  BY DEF Live, OnDisk, Deletions
<1> QED BY <1>2, <1>5, <1>6, <1>7, <1>8, <1>9

\* The files of the live segments are counted, except on the way to a
\* checkpoint and at the end of a rollback that strayed.
LEMMA InfosHeld ==
  ASSUME CommitInv, Active, step \notin {"changed", "checkpoint"}, ~Strayed
  PROVE  \A f \in FilesOf(infos.segs) : f \in Files /\ refs[f] > 0
<1>1. Types /\ Live /\ RollingBack
  BY DEF CommitInv
<1>2. infos.segs \subseteq Names
  BY <1>1 DEF Types, CommitType
<1>3. \A f \in FilesOf(infos.segs) : f \in Files
  BY <1>2, FileSets
<1>4. CASE ~(aim = "closed" /\ left <= 2)
  <2>1. \A f \in FilesOf(infos.segs) : f \in Pinned \/ leaks[f] > 0
    BY <1>1, <1>4 DEF Pinned, Live, Counted
  <2> QED BY <1>1, <1>3, <2>1, Held
<1>5. CASE aim = "closed" /\ left <= 2 /\ left \in Nat
  <2>1. infos.segs = backup /\ unacked = 0
    BY <1>1, <1>5 DEF RollingBack, Strayed
  <2>2. CASE commits = <<>>
    <3>1. infos.segs = {}
      BY <1>1, <1>5, <2>1, <2>2 DEF Live, Retaining
    <3> QED BY <3>1, FileSets
  <2>3. CASE commits # <<>>
    <3>1. infos.segs = commits[Len(commits)].segs
      BY <1>1, <1>5, <2>1, <2>3 DEF Live, Retaining
    <3>2. Len(commits) \in 1 .. Len(commits)
      BY <1>1, <2>3 DEF Types
    <3>3. FilesOf(infos.segs) \subseteq CommitFiles(commits[Len(commits)])
      BY <3>1 DEF CommitFiles
    <3> QED BY <1>1, <3>2, <3>3, Held
  <2> QED BY <2>2, <2>3
<1>6. left \in Nat
  BY DEF CommitInv, Routed, Plan, left
<1> QED BY <1>4, <1>5, <1>6

\* The last commit is there and at least as new as the one acknowledged.
LEMMA LastCommit ==
  ASSUME CommitInv, Active, acked.gen > 0 \/ commits # <<>>
  PROVE  LET c == commits[Len(commits)] IN
         /\ commits # <<>> /\ Len(commits) \in 1 .. Len(commits)
         /\ c.gen >= acked.gen /\ c.gen \in KeptGens /\ ~Doomed(SegsN(c.gen)) /\ refs[SegsN(c.gen)] > 0
<1> DEFINE c == commits[Len(commits)]
<1>1. /\ Types /\ Live /\ Committing /\ left \in Nat /\ commits \in Seq(CommitType)
      /\ acked \in CommitType /\ infos \in CommitType /\ acked.gen \in Nat /\ infos.gen \in Nat
      /\ unacked \in Nat
  <2>1. left \in Nat
    BY DEF CommitInv, Routed, Plan, left
  <2> QED BY <2>1, BoundAssumption DEF CommitInv, Types, CommitType
<1>2. commits # <<>> /\ c.gen >= acked.gen
  <2>1. CASE ~(aim = "finish" /\ left <= 2)
    BY <1>1, <2>1 DEF Live, Retaining
  <2>2. CASE aim = "finish" /\ left <= 2
    <3>1. commits # <<>> /\ c = pend.info /\ infos.gen < pend.info.gen /\ pend.info.gen \in Gens
      BY <1>1, <2>2 DEF Committing
    <3>2. acked.gen <= infos.gen
      BY <1>1 DEF Live, Generations
    <3> QED BY <1>1, <3>1, <3>2 DEF Gens
  <2> QED BY <2>1, <2>2
<1>3. Len(commits) \in 1 .. Len(commits)
  BY <1>1, <1>2
<1>4. SegsN(c.gen) \in CommitFiles(c)
  BY FileSets
<1>5. SegsN(c.gen) \in Files /\ refs[SegsN(c.gen)] > 0 /\ c.gen \in Gens /\ SegsN(c.gen) \in kept
  BY <1>1, <1>3, <1>4, Held
<1>6. ~Doomed(SegsN(c.gen))
  BY <1>1, <1>5, Held
<1> QED BY <1>2, <1>3, <1>5, <1>6, KeptFiles

\* When the deleter has as many commits as the policy keeps, it has a last one.
LEMMA LastOfAll ==
  ASSUME commits \in Seq(CommitType), Len(commits) = Keep
  PROVE  commits # <<>> /\ Len(commits) \in 1 .. Len(commits)
  BY KeepAssumption

\* A commit before all of them is outlived.
LEMMA Supplanted ==
  ASSUME NEW n, Len(commits) = Keep, \A i \in 1 .. Len(commits) : n < commits[i].gen /\ commits[i].gen \in KeptGens',
         \A i, j \in 1 .. Len(commits) : i < j => commits[i].gen < commits[j].gen
  PROVE  Outlived(n)'
<1> DEFINE w == [i \in 1 .. Keep |-> commits[i].gen]
<1>1. w \in [1 .. Keep -> KeptGens'] /\ \A i \in 1 .. Keep : w[i] = commits[i].gen
  OBVIOUS
<1>2. \A m \in KeptGens' : m \in Int
  BY BoundAssumption DEF KeptGens, GensOnDisk, Gens
<1>3. ASSUME NEW i \in 1 .. Keep, NEW j \in 1 .. Keep PROVE w[i] > n /\ (i # j => w[i] # w[j])
  <2>1. i # j => i < j \/ j < i
    BY KeepAssumption
  <2>2. w[i] \in Int /\ w[j] \in Int /\ n < w[i]
    BY <1>1, <1>2
  <2>3. (i < j => w[i] < w[j]) /\ (j < i => w[j] < w[i])
    BY <1>1
  <2> HIDE DEF w
  <2> QED BY <2>1, <2>2, <2>3
<1> HIDE DEF w
<1> QED BY <1>1, <1>3 DEF Outlived

\* The commits of the directory are not after the last one of the deleter.
LEMMA NoneLater ==
  ASSUME CommitInv, Active, step \notin {"sync", "register"}, NEW n \in GensOnDisk
  PROVE  commits # <<>> /\ n <= commits[Len(commits)].gen
<1>1. Types /\ Live /\ commits \in Seq(CommitType) /\ n \in Nat
  BY DEF CommitInv, Types, GensOnDisk, Gens
<1>2. CASE \E i \in 1 .. Len(commits) : commits[i].gen = n
  <2>1. PICK i \in 1 .. Len(commits) : commits[i].gen = n
    BY <1>2
  <2>2. Len(commits) \in 1 .. Len(commits) /\ commits # <<>> /\ (i < Len(commits) \/ i = Len(commits))
    BY <1>1, <2>1
  <2>3. commits[Len(commits)].gen \in Nat
    BY <1>1, <2>2, Held DEF Gens
  <2>4. i < Len(commits) => commits[i].gen < commits[Len(commits)].gen
    BY <1>1, <2>2 DEF Live, Retaining
  <2> QED BY <1>1, <2>1, <2>2, <2>3, <2>4
<1>3. CASE ~(\E i \in 1 .. Len(commits) : commits[i].gen = n)
  <2>1. Len(commits) = Keep /\ \A i \in 1 .. Len(commits) : n < commits[i].gen
    BY <1>1, <1>3 DEF Live, Retaining
  <2>2. commits # <<>> /\ Len(commits) \in 1 .. Len(commits)
    BY <1>1, <2>1, LastOfAll
  <2>3. commits[Len(commits)].gen \in Nat
    BY <1>1, <2>2, Held DEF Gens
  <2> QED BY <1>1, <2>1, <2>2, <2>3
<1> QED BY <1>2, <1>3

-----------------------------------------------------------------------------
(* Deleting files.                                                         *)

\* The directory after files that are to be deleted went, or could not, of
\* which the commits that are left name none.
LEMMA Shrunk ==
  ASSUME CommitInv, Active, todo # <<>>,
         UNCHANGED <<content, mem, refs, last, commits, acked, committed, leaks, unacked, lock, pc>>,
         state' = state \/ (state = "sweeping" /\ state' = "opening"),
         disk' \subseteq disk, undeleted' \subseteq disk', kept' \subseteq kept, errs => errs',
         \A g \in kept : g \in kept' \/ Doomed(g),
         todo' \in Seq(SUBSET (Files \cup PendingFiles)),
         \A g : Doomed(g)' => Doomed(g),
         \A g \in kept' : Doomed(g) => Doomed(g)',
         \A g \in disk' : Doomed(g) => Doomed(g)' \/ errs',
         \A j \in 1 .. Len(todo') : \A n \in KeptGens' : \A g \in todo'[j] :
           g \in FilesOf(content[n].segs) => \E i \in 1 .. j : SegsN(n) \in todo'[i],
         \A n \in KeptGens' : Whole(n)'
  PROVE  CommitInv'
<1>1. /\ Types /\ Live /\ Routed /\ Locked /\ Committing /\ RollingBack /\ Durable
      /\ step' = step /\ aim' = aim /\ left' = left /\ Routed'
  BY Facts, Stayed DEF CommitInv
<1>2. /\ (Starting' <=> Starting) /\ (state' = "open" <=> state = "open") /\ (Strayed' <=> Strayed) /\ Pinned' = Pinned
      /\ state' # "closed"
  BY <1>1 DEF Starting, Strayed, Pinned, mem, Active
<1>3. Types'
  BY <1>1 DEF Types, mem
<1>4. Locked'
  BY <1>1, <1>2 DEF Locked
<1>5. /\ step \notin {"changed", "checkpoint", "sync", "register", "rename"}
      /\ aim = "finish" /\ left <= 4 => left <= 2
  <2>1. Starting \/ step \in {"unlink", "pin"}
    BY <1>1 DEF Locked
  <2>2. step = "end" \/ step \in {"unlink", "pin"}
    BY <1>1, <2>1 DEF Locked, Starting
  <2>3. step \in {"unlink", "pin"} => Spot(step, aim, left) /\ left \in Nat
    BY <1>1, Where DEF Routed, step, aim, left
  <2>4. step = "end" => aim = "end"
    BY <1>1, Where DEF Routed, step, aim
  <2> QED BY <2>2, <2>3, <2>4 DEF Spot, FlushStages, PurgeSteps
<1>6. /\ \A n \in GensOnDisk' : n \in GensOnDisk
      /\ \A n \in KeptGens : n \in KeptGens' \/ Doomed(SegsN(n))
      /\ \A n \in KeptGens' : n \in KeptGens
  BY KeptFiles DEF GensOnDisk, KeptGens, kept
<1>7. Committing'
  <2>1. aim = "finish" /\ left <= 4 => SegsN(pend.info.gen) \in kept'
    <3>1. SUFFICES ASSUME aim = "finish" /\ left <= 4 PROVE SegsN(pend.info.gen) \in kept'
      OBVIOUS
    <3>2. SegsN(pend.info.gen) \in kept /\ ~Doomed(SegsN(pend.info.gen))
      BY <1>1, <1>5, <3>1, LastCommit DEF Committing
    <3> QED BY <3>2
  <2> QED BY <1>1, <2>1 DEF Committing, mem
<1>8. RollingBack'
  BY <1>1 DEF RollingBack, mem
<1>9. Durable'
  <2>1. commits # <<>> => commits[Len(commits)].gen \in KeptGens' /\ commits[Len(commits)].gen >= acked.gen
    BY <1>6, LastCommit
  <2>2. acked.gen > 0 => commits # <<>>
    BY LastCommit
  <2>3. \A n \in GensOnDisk' : \E m \in KeptGens' : n <= m
    BY <1>5, <1>6, <2>1, NoneLater
  <2>4. ASSUME NEW n \in GensOnDisk', n \notin KeptGens' PROVE Outlived(n)'
    <3>1. \A i \in 1 .. Len(commits) : commits[i].gen \in KeptGens'
      <4>1. SUFFICES ASSUME NEW i \in 1 .. Len(commits) PROVE commits[i].gen \in KeptGens'
        OBVIOUS
      <4>2. SegsN(commits[i].gen) \in CommitFiles(commits[i]) /\ commits[i].gen \in Gens
        BY <1>1, Held, FileSets
      <4>3. SegsN(commits[i].gen) \in kept /\ ~Doomed(SegsN(commits[i].gen))
        BY <1>1, <4>2, Held
      <4> QED BY <1>6, <4>2, <4>3, KeptFiles
    <3>2. Len(commits) = Keep /\ \A i \in 1 .. Len(commits) : n < commits[i].gen
      BY <1>1, <1>5, <1>6, <2>4, <3>1 DEF Live, Retaining
    <3> QED BY <1>1, <3>1, <3>2, Supplanted DEF Live, Retaining
  <2> QED BY <1>1, <1>6, <2>1, <2>2, <2>3, <2>4 DEF Durable
<1>10. Counted'
  BY <1>1, CountedKept DEF Live, mem
<1>11. OnDisk'
  <2>1. \A f \in Files : refs[f] > 0 => ~Doomed(f)
    BY <1>1, Held
  <2>2. ~Strayed => FilesOf(infos.segs) \subseteq kept'
    <3>1. ~Strayed => FilesOf(infos.segs) \subseteq kept /\ \A f \in FilesOf(infos.segs) : ~Doomed(f)
      BY <1>1, <1>5, <2>1, InfosHeld DEF Live, OnDisk
    <3> QED BY <3>1
  <2> QED BY <1>1, <1>2, <2>1, <2>2 DEF Live, OnDisk, mem
<1>12. Deletions'
  <2>1. \A f \in Files : Doomed(f)' => refs'[f] = 0
    BY <1>1 DEF Live, Deletions
  <2>2. \A n \in PendingOnDisk' : \/ Starting' /\ (Doomed(Pending(n))' \/ errs')
                                  \/ step' = "rename" /\ n = pend'.info.gen /\ Pending(n) \notin undeleted'
    BY <1>1, <1>2, <1>5 DEF Live, Deletions, PendingOnDisk, mem
  <2>3. aim' = "closed" /\ left' <= 4 /\ ~errs' => \A f \in disk' : Doomed(f)' \/ (f \in Files /\ refs'[f] > 0)
    BY <1>1 DEF Live, Deletions
  <2> QED BY <2>1, <2>2, <2>3 DEF Deletions
<1>13. Retaining'
  <2>1. ASSUME NEW n \in GensOnDisk'
        PROVE  \/ \E i \in 1 .. Len(commits) : commits[i].gen = n
               \/ /\ Len(commits) = Keep /\ \A i \in 1 .. Len(commits) : n < commits[i].gen
                  /\ Doomed(SegsN(n))' \/ n \notin KeptGens'
    <3>1. Doomed(SegsN(n)) => Doomed(SegsN(n))' \/ n \notin KeptGens'
      BY DEF KeptGens, GensOnDisk, kept
    <3> QED BY <1>1, <1>5, <1>6, <3>1 DEF Live, Retaining
  <2> QED BY <1>1, <2>1 DEF Live, Retaining, mem
<1>14. Generations'
  BY <1>1, <1>6, GenerationsKept DEF Live, mem
<1>15. Numbered'
  BY <1>1, NumberedKept DEF Live, mem
<1>16. Ticketed'
  <2>1. ASSUME NEW i \in 1 .. Len(tickets), tickets[i] # NoSeg
        PROVE  Seg(tickets[i]) \in kept' /\ ~Doomed(Seg(tickets[i]))'
    <3> DEFINE g == Seg(tickets[i])
    <3>1. g \in kept /\ ~Doomed(g)
      BY <1>1, <2>1 DEF Live, Ticketed
    <3>2. ~Doomed(g)' /\ g' = g
      BY <3>1 DEF mem
    <3> QED BY <3>1, <3>2
  <2> QED BY <1>1, <2>1 DEF Live, Ticketed, mem
<1>17. RollbackRestores'
  BY <1>2 DEF RollbackRestores
<1> QED BY <1>1, <1>3, <1>4, <1>7, <1>8, <1>9, <1>10, <1>11, <1>12, <1>13, <1>14, <1>15, <1>16, <1>17
    DEF CommitInv, Live

\* A batch without files is done.
LEMMA BatchDone ==
  ASSUME Types, Live, BatchEnd, content' = content
  PROVE  /\ todo' \in Seq(SUBSET (Files \cup PendingFiles))
         /\ \A g : Doomed(g)' <=> Doomed(g)
         /\ \A j \in 1 .. Len(todo') : \A n \in KeptGens' : \A g \in todo'[j] :
              g \in FilesOf(content[n].segs) => \E i \in 1 .. j : SegsN(n) \in todo'[i]
<1> DEFINE A == SUBSET (Files \cup PendingFiles)
<1>1. todo \in Seq(A)
  BY DEF Types
<1> HIDE DEF A
<1>2. /\ todo' \in Seq(A) /\ Len(todo') = Len(todo) - 1 /\ Len(todo) \in Nat \ {0} /\ Len(todo') \in Nat
      /\ \A i \in 1 .. Len(todo) - 1 : todo'[i] = todo[i + 1]
      /\ todo[1] = {}
  BY <1>1, TailOf DEF BatchEnd
<1>3. \A i \in 1 .. Len(todo) : i # 1 => i - 1 \in 1 .. Len(todo') /\ todo'[i - 1] = todo[i]
  <2>1. SUFFICES ASSUME NEW i \in 1 .. Len(todo), i # 1
                 PROVE  i - 1 \in 1 .. Len(todo') /\ todo'[i - 1] = todo[i]
    OBVIOUS
  <2>2. i - 1 \in 1 .. Len(todo) - 1 /\ (i - 1) + 1 = i
    BY <1>2, <2>1
  <2> QED BY <1>2, <2>2
<1>4. \A j \in 1 .. Len(todo') : j + 1 \in 1 .. Len(todo) /\ todo'[j] = todo[j + 1]
  BY <1>2
<1>5. \A g : Doomed(g)' <=> Doomed(g)
  <2>1. ASSUME NEW g, Doomed(g)' PROVE Doomed(g)
    BY <1>4, <2>1 DEF Doomed
  <2>2. ASSUME NEW g, Doomed(g) PROVE Doomed(g)'
    <3>1. PICK i \in 1 .. Len(todo) : g \in todo[i]
      BY <2>2 DEF Doomed
    <3>2. i # 1
      BY <1>2, <3>1
    <3> QED BY <1>3, <3>1, <3>2 DEF Doomed
  <2> QED BY <2>1, <2>2
<1>6. ASSUME NEW j \in 1 .. Len(todo'), NEW n \in KeptGens', NEW g \in todo'[j],
             g \in FilesOf(content[n].segs)
      PROVE  \E i \in 1 .. j : SegsN(n) \in todo'[i]
  <2>1. g \in todo[j + 1] /\ j + 1 \in 1 .. Len(todo) /\ n \in KeptGens
    BY <1>4, SameFiles DEF BatchEnd
  <2>2. PICK i \in 1 .. j + 1 : SegsN(n) \in todo[i]
    BY <1>6, <2>1 DEF Live, Deletions
  <2>3. i # 1 /\ i \in 1 .. Len(todo) /\ i - 1 \in 1 .. j
    BY <1>2, <2>1, <2>2
  <2> QED BY <1>3, <2>2, <2>3
<1> QED BY <1>2, <1>5, <1>6 DEF A

\* A file of the first batch is tried: it is deleted, or stays with those that
\* could not be.
LEMMA FileTried ==
  ASSUME Types, Live, Durable, todo # <<>>, NEW f \in NextUnlink(Head(todo)),
         disk \ {f} \subseteq disk', kept' = kept \ {f},
         todo' = <<Head(todo) \ {f}>> \o Tail(todo), content' = content
  PROVE  /\ todo' \in Seq(SUBSET (Files \cup PendingFiles))
         /\ Doomed(f)
         /\ \A g : Doomed(g)' => Doomed(g)
         /\ \A g : Doomed(g) /\ g # f => Doomed(g)'
         /\ \A j \in 1 .. Len(todo') : \A n \in KeptGens' : \A g \in todo'[j] :
              g \in FilesOf(content[n].segs) => \E i \in 1 .. j : SegsN(n) \in todo'[i]
         /\ \A n \in KeptGens' : Whole(n)'
<1> DEFINE A == SUBSET (Files \cup PendingFiles)
           h == Head(todo) \ {f}
<1>1. todo \in Seq(A)
  BY DEF Types
<1>2. /\ Tail(todo) \in Seq(A) /\ Len(Tail(todo)) = Len(todo) - 1 /\ Len(todo) \in Nat \ {0}
      /\ \A i \in 1 .. Len(todo) - 1 : Tail(todo)[i] = todo[i + 1]
      /\ Head(todo) = todo[1] /\ todo[1] \in A
  <2> HIDE DEF A
  <2> QED BY <1>1, TailOf
<1>3. h \in A /\ f \in todo[1] /\ h = todo[1] \ {f}
  BY <1>2 DEF NextUnlink
<1> HIDE DEF A, h
<1>4. /\ todo' \in Seq(A) /\ Len(todo') = Len(todo) /\ todo'[1] = todo[1] \ {f}
      /\ \A i \in 1 .. Len(todo) : i # 1 => todo'[i] = todo[i]
  <2>1. todo' = <<h>> \o Tail(todo)
    BY DEF h
  <2>2. /\ todo' \in Seq(A) /\ Len(todo') = Len(Tail(todo)) + 1
        /\ todo'[1] = h /\ \A i \in 2 .. Len(Tail(todo)) + 1 : todo'[i] = Tail(todo)[i - 1]
    <3> DEFINE t == <<h>> \o Tail(todo)
    <3>1. /\ t \in Seq(A) /\ Len(t) = Len(Tail(todo)) + 1
          /\ t[1] = h /\ \A i \in 2 .. Len(Tail(todo)) + 1 : t[i] = Tail(todo)[i - 1]
      <4>1. Tail(todo) \in Seq(A) /\ h \in A
        BY <1>2, <1>3
      <4> DEFINE k == Tail(todo)
      <4> HIDE DEF k
      <4>2. k \in Seq(A)
        BY <4>1 DEF k
      <4> QED BY <4>1, <4>2, ConsOf, ZenonT(30) DEF k
    <3> HIDE DEF t
    <3>2. todo' = t
      BY <2>1 DEF t
    <3> QED BY <3>1, <3>2
  <2>3. ASSUME NEW i \in 1 .. Len(todo), i # 1 PROVE todo'[i] = todo[i]
    <3>1. i \in 2 .. Len(Tail(todo)) + 1 /\ i - 1 \in 1 .. Len(todo) - 1 /\ (i - 1) + 1 = i
      BY <1>2, <2>3
    <3> QED BY <1>2, <2>2, <3>1
  <2> QED BY <1>2, <1>3, <2>2, <2>3
<1>5. 1 \in 1 .. Len(todo)
  BY <1>2
<1>6. \A i \in 1 .. Len(todo) : \A g : /\ g \in todo'[i] => g \in todo[i]
                                       /\ g \in todo[i] /\ g # f => g \in todo'[i]
  BY <1>4
<1>7. Doomed(f) /\ \A g : (Doomed(g)' => Doomed(g)) /\ (Doomed(g) /\ g # f => Doomed(g)')
  BY <1>3, <1>4, <1>5, <1>6 DEF Doomed
<1>8. \A n \in KeptGens' : n \in KeptGens /\ SegsN(n) # f
  <2>1. \A n \in KeptGens' : n \in Gens /\ SegsN(n) \in kept'
    BY DEF KeptGens, GensOnDisk, kept
  <2> QED BY <2>1, KeptFiles
<1>9. ASSUME NEW j \in 1 .. Len(todo'), NEW n \in KeptGens', NEW g \in todo'[j],
             g \in FilesOf(content[n].segs)
      PROVE  \E i \in 1 .. j : SegsN(n) \in todo'[i]
  <2>1. n \in KeptGens /\ SegsN(n) # f /\ g \in todo[j] /\ j \in 1 .. Len(todo)
    BY <1>4, <1>6, <1>8
  <2>2. PICK i \in 1 .. j : SegsN(n) \in todo[i]
    BY <1>9, <2>1 DEF Live, Deletions
  <2>3. i \in 1 .. Len(todo)
    BY <1>2, <2>1
  <2> QED BY <1>6, <2>1, <2>2, <2>3
<1>10. ASSUME NEW n \in KeptGens' PROVE Whole(n)'
  <2>1. n \in KeptGens /\ SegsN(n) # f
    BY <1>8
  <2>2. FilesOf(content[n].segs) \subseteq kept
    BY <2>1 DEF Durable, Whole
  <2>3. f \notin FilesOf(content[n].segs)
    <3>1. SUFFICES ASSUME f \in FilesOf(content[n].segs) PROVE FALSE
      OBVIOUS
    <3>2. \E i \in 1 .. 1 : SegsN(n) \in todo[i]
      BY <1>3, <1>5, <2>1, <3>1 DEF Live, Deletions
    <3>3. SegsN(n) \in Head(todo) /\ SegsN(n)[1] = "segments"
      BY <1>2, <3>2, FileNames
    <3>4. f[1] = "segments"
      BY <3>3 DEF NextUnlink
    <3>5. PICK s \in content[n].segs : f = Seg(s)
      BY <3>1, FileSets
    <3> QED BY <3>4, <3>5, FileNames
  <2> QED BY <2>2, <2>3 DEF Whole
<1> QED BY <1>4, <1>7, <1>9, <1>10 DEF A

\* FileDeleter.delete keeps the invariant at every step.
LEMMA UnlinkKept ==
  ASSUME CommitInv, Active, Unlink, state' = state,
         UNCHANGED <<content, mem, refs, last, commits, acked, committed, leaks, unacked, lock, pc>>
  PROVE  CommitInv'
<1>1. Types /\ Live /\ Durable /\ todo # <<>> /\ undeleted \subseteq disk
  BY DEF CommitInv, Unlink, Types
<1>2. PICK f \in NextUnlink(Head(todo)) :
        /\ todo' = <<Head(todo) \ {f}>> \o Tail(todo)
        /\ \/ disk' = disk \ {f} /\ undeleted' = undeleted \ {f} /\ errs' = errs
           \/ f \in disk /\ errs' = TRUE /\ undeleted' = undeleted \cup {f} /\ disk' = disk
  BY Zenon DEF Unlink
<1>3. /\ disk' \subseteq disk /\ disk \ {f} \subseteq disk' /\ undeleted' \subseteq disk' /\ (errs => errs')
      /\ f \in disk' => errs'
  BY <1>1, <1>2
<1>4. kept' = kept \ {f}
  BY <1>2 DEF kept
<1>5. /\ todo' \in Seq(SUBSET (Files \cup PendingFiles))
      /\ Doomed(f)
      /\ \A g : Doomed(g)' => Doomed(g)
      /\ \A g : Doomed(g) /\ g # f => Doomed(g)'
      /\ \A j \in 1 .. Len(todo') : \A n \in KeptGens' : \A g \in todo'[j] :
           g \in FilesOf(content[n].segs) => \E i \in 1 .. j : SegsN(n) \in todo'[i]
      /\ \A n \in KeptGens' : Whole(n)'
  BY <1>1, <1>2, <1>3, <1>4, FileTried, Zenon
<1>6. /\ kept' \subseteq kept /\ \A g \in kept : g \in kept' \/ Doomed(g)
      /\ \A g \in kept' : Doomed(g) => Doomed(g)'
      /\ \A g \in disk' : Doomed(g) => Doomed(g)' \/ errs'
  BY <1>3, <1>4, <1>5
<1> QED BY <1>1, <1>3, <1>5, <1>6, Shrunk, Zenon

\* So does the end of a batch.
LEMMA BatchEndKept ==
  ASSUME CommitInv, Active, BatchEnd, state' = state \/ (state = "sweeping" /\ state' = "opening"),
         UNCHANGED <<content, mem, refs, last, commits, acked, committed, leaks, unacked, lock, pc>>
  PROVE  CommitInv'
<1>1. Types /\ Live /\ Durable /\ todo # <<>> /\ undeleted \subseteq disk /\ UNCHANGED <<disk, errs, undeleted>>
  BY DEF CommitInv, BatchEnd, Types
<1>2. kept' = kept /\ KeptGens' = KeptGens
  BY <1>1, SameFiles
<1>3. /\ todo' \in Seq(SUBSET (Files \cup PendingFiles))
      /\ \A g : Doomed(g)' <=> Doomed(g)
      /\ \A j \in 1 .. Len(todo') : \A n \in KeptGens' : \A g \in todo'[j] :
           g \in FilesOf(content[n].segs) => \E i \in 1 .. j : SegsN(n) \in todo'[i]
  BY <1>1, BatchDone
<1>4. \A n \in KeptGens' : Whole(n)'
  BY <1>1, <1>2 DEF Durable, Whole
<1> QED BY <1>1, <1>2, <1>3, <1>4, Shrunk

\* The steps "unlink" of the goroutine.
LEMMA UnlinkStepKept ==
  ASSUME Serial, CommitInv, UnlinkStep(Me)
  PROVE  CommitInv'
<1>1. /\ step = "unlink"
      /\ UNCHANGED <<content, state, mem, refs, last, commits, acked, committed, leaks, unacked, crashes, prepares>>
  BY AtStep DEF UnlinkStep
<1>2. Active
  BY <1>1, Running DEF Active
<1>3. CASE Unlink /\ UNCHANGED <<pc, lock>>
  BY <1>1, <1>2, <1>3, UnlinkKept
<1>4. CASE BatchEnd /\ UNCHANGED <<pc, lock>>
  BY <1>1, <1>2, <1>4, BatchEndKept
<1>5. CASE /\ todo = <<>> /\ ~errs /\ Then(Me, <<>>) /\ Release("deleter.mu")
           /\ UNCHANGED <<disk, todo, errs, undeleted, failures>>
  BY <1>1, <1>5, UnlinkEndKept DEF hist
<1> QED BY <1>3, <1>4, <1>5 DEF UnlinkStep

\* The constructor deletes files, and then the writer is open.
LEMMA OpeningKept ==
  ASSUME Serial, CommitInv, Opening
  PROVE  CommitInv'
<1>1. /\ Starting
      /\ UNCHANGED <<content, mem, refs, last, commits, lock, pc, acked, committed, leaks, unacked, crashes, prepares>>
  BY DEF Opening, Starting
<1>2. Active
  BY <1>1 DEF Active
<1>3. CASE Unlink /\ state' = state
  BY <1>1, <1>2, <1>3, UnlinkKept
<1>4. CASE BatchEnd /\ (state' = state \/ (state = "sweeping" /\ state' = "opening"))
  BY <1>1, <1>2, <1>4, BatchEndKept
<1>5. CASE todo = <<>> /\ ~errs /\ state' = "open" /\ UNCHANGED <<disk, todo, errs, undeleted, failures>>
  <2> USE Facts
  <2>1. step = "end" /\ Routed' /\ step' = step /\ aim' = aim /\ left' = left
    BY <1>1, Stayed DEF Locked, Starting
  <2>2. Types'
    BY <1>1, <1>5 DEF Types, mem
  <2>3. Locked'
    BY <1>1, <1>5, <2>1 DEF Locked
  <2>4. Committing' /\ RollingBack'
    <3>1. kept' = kept
      BY <1>5, SameFiles
    <3> QED BY <1>1, <1>5, <2>1, <3>1 DEF Committing, RollingBack, mem
  <2> QED BY <1>1, <1>2, <1>5, <2>1, <2>2, <2>3, <2>4, QuietKept DEF mem
<1> QED BY <1>3, <1>4, <1>5 DEF Opening

\* No batch, no file to delete; one batch.
LEMMA Batches ==
  /\ todo = <<>> => \A f : ~Doomed(f)
  /\ \A Z : todo' = <<Z>> => \A f : Doomed(f)' <=> f \in Z
<1>1. todo = <<>> => \A f : ~Doomed(f)
  BY DEF Doomed
<1>2. ASSUME NEW Z, todo' = <<Z>>, NEW f PROVE Doomed(f)' <=> f \in Z
  <2>1. Len(todo') = 1 /\ todo'[1] = Z
    BY <1>2
  <2> QED BY <2>1 DEF Doomed
<1> QED BY <1>1, <1>2

\* Where nothing is being deleted, the commits of the directory are the
\* deleter's, except those that could not be deleted.
LEMMA AllRetained ==
  ASSUME Live, todo = <<>>, step \notin {"sync", "register"}, NEW n \in KeptGens
  PROVE  \E i \in 1 .. Len(commits) : commits[i].gen = n /\ commits[i] = content[n]
<1>1. ~Doomed(SegsN(n)) /\ n \in GensOnDisk
  BY Batches, KeptFiles
<1>2. PICK i \in 1 .. Len(commits) : commits[i].gen = n
  BY <1>1 DEF Live, Retaining
<1> QED BY <1>2 DEF Live, Retaining

\* A batch of files no commit holds.
LEMMA NewBatch ==
  ASSUME Types, Live, todo = <<>>, step \notin {"sync", "register", "rename"}, ~Starting,
         NEW Z \in SUBSET Files, todo' = <<Z>>, content' = content,
         \A n \in KeptGens' : n \in KeptGens, \A n \in PendingOnDisk' : n \in PendingOnDisk,
         \A f \in Z : refs'[f] = 0,
         \A f \in Files : CountOf(commits, f) > 0 => refs'[f] > 0,
         aim' = "closed" /\ left' <= 4 => \A f \in disk' : f \in Z \/ (f \in Files /\ refs'[f] > 0)
  PROVE  Deletions' /\ todo' \in Seq(SUBSET (Files \cup PendingFiles))
<1>1. /\ \A f : ~Doomed(f)
      /\ \A f : Doomed(f)' <=> f \in Z
      /\ Len(todo') = 1 /\ todo'[1] = Z
  BY Batches
<1>2. PendingOnDisk' = {}
  <2>1. \A n \in PendingOnDisk : FALSE
    BY DEF Live, Deletions
  <2> QED BY <2>1
<1>3. ASSUME NEW n \in KeptGens', NEW f \in Z, f \in FilesOf(content[n].segs) PROVE FALSE
  <2>1. PICK i \in 1 .. Len(commits) : commits[i] = content[n]
    BY AllRetained
  <2>2. f \in CommitFiles(commits[i])
    BY <1>3, <2>1 DEF CommitFiles
  <2>3. CountOf(commits, f) > 0
    BY <2>2, CountType DEF Types
  <2> QED BY <2>3
<1>4. \A j \in 1 .. Len(todo') : \A n \in KeptGens' : \A f \in todo'[j] :
        f \in FilesOf(content'[n].segs) => \E i \in 1 .. j : SegsN(n) \in todo'[i]
  BY <1>1, <1>3
<1>5. \A f \in Files : Doomed(f)' => refs'[f] = 0
  BY <1>1
<1>6. \A n \in PendingOnDisk' : \/ Starting' /\ (Doomed(Pending(n))' \/ errs')
                                \/ step' = "rename" /\ n = pend'.info.gen /\ Pending(n) \notin undeleted'
  BY <1>2
<1>7. aim' = "closed" /\ left' <= 4 => \A f \in disk' : Doomed(f)' \/ (f \in Files /\ refs'[f] > 0)
  BY <1>1
<1>8. todo' \in Seq(SUBSET (Files \cup PendingFiles))
  <2> DEFINE A == SUBSET (Files \cup PendingFiles)
  <2>1. Z \in A
    OBVIOUS
  <2> HIDE DEF A
  <2> QED BY <2>1 DEF A
<1> QED BY <1>4, <1>5, <1>6, <1>7, <1>8 DEF Deletions

-----------------------------------------------------------------------------
(* The checkpoint.                                                         *)

\* Counting up and down.
LEMMA RefOps ==
  ASSUME NEW r \in [Files -> Nat], NEW S
  PROVE  /\ IncRefAll(r, S) \in [Files -> Nat]
         /\ \A f \in Files : IncRefAll(r, S)[f] = r[f] + One(S, f)
         /\ DecRefs(r, S) \in [Files -> Nat]
         /\ \A f \in Files : r[f] >= One(S, f) => DecRefs(r, S)[f] = r[f] - One(S, f)
         /\ \A f : One(S, f) \in {0, 1} /\ (One(S, f) = 1 <=> f \in S)
<1>1. \A f : One(S, f) \in {0, 1} /\ (One(S, f) = 1 <=> f \in S)
  BY DEF One
<1>2. IncRefAll(r, S) \in [Files -> Nat] /\ \A f \in Files : IncRefAll(r, S)[f] = r[f] + One(S, f)
  BY DEF IncRefAll, One
<1>3. DecRefs(r, S) \in [Files -> Nat]
  BY DEF DecRefs
<1>4. \A f \in Files : r[f] >= One(S, f) => DecRefs(r, S)[f] = r[f] - One(S, f)
  BY DEF DecRefs, One
<1> QED BY <1>1, <1>2, <1>3, <1>4

\* The parts of a count.
LEMMA CountParts ==
  ASSUME Types, Counted, NEW f \in Files
  PROVE  /\ refs[f] = CountOf(commits, f) + One(Pinned, f) + One(FilesOf(pend.info.segs), f) + leaks[f]
         /\ refs[f] \in Nat /\ CountOf(commits, f) \in Nat /\ leaks[f] \in Nat
         /\ One(Pinned, f) \in {0, 1} /\ One(FilesOf(pend.info.segs), f) \in {0, 1}
<1>1. CountOf(commits, f) \in Nat
  BY CountType DEF Types
<1>2. refs[f] \in Nat /\ leaks[f] \in Nat
  BY DEF Types
<1>3. One(Pinned, f) \in {0, 1} /\ One(FilesOf(pend.info.segs), f) \in {0, 1}
  BY DEF One
<1> QED BY <1>1, <1>2, <1>3 DEF Counted

\* The names stay below the counter when what is counted is in the directory.
LEMMA CountedNames ==
  ASSUME Numbered, OnDisk', infos'.counter = infos.counter, UNCHANGED <<committed, backup>>,
         \A s \in Names : Seg(s) \in disk' => Seg(s) \in disk,
         Strayed' => \A s \in Names : Seg(s) \in Pinned' => s \in backup,
         pend' # NoCommit => \A s \in committed \cup pend'.info.segs : s < pend'.info.counter
  PROVE  Numbered'
<1>1. \A s \in Names : refs'[Seg(s)] > 0 => Seg(s) \in disk' \/ s \in backup
  <2>1. \A f : f \in kept' => f \in disk'
    BY DEF kept
  <2> QED BY <2>1, FileSets DEF OnDisk
<1> QED BY <1>1 DEF Numbered

\* The first half of a checkpoint: the segments are counted instead of lastFiles.
LEMMA CheckpointStepKept ==
  ASSUME Serial, CommitInv, CheckpointStep(Me)
  PROVE  CommitInv'
<1> USE Facts
<1> DEFINE I == FilesOf(infos.segs)
           r == IncRefAll(refs, I)
           Z == Zeroed(r, last)
<1>1. /\ step = "checkpoint" /\ Then(Me, <<>>) /\ Take(Me, "deleter.mu")
      /\ refs' = DecRefs(r, last) /\ todo' = <<Z>>
      /\ UNCHANGED <<disk, content, state, mem, last, commits, hist>>
  BY AtStep DEF CheckpointStep
<1>2. state = "open" /\ Live /\ todo = <<>> /\ Active /\ ~Starting
  BY <1>1, Running DEF Active, Starting
<1>3. /\ Routed' /\ left' \in Nat /\ left \in Nat /\ left' = left - 1
      /\ aim' = aim /\ step' = "pin" /\ ((Far /\ Far') \/ (aim = "closed" /\ left = 7))
  BY <1>1, FlushAdvances DEF FlushStages, PurgeSteps
<1>4. refs \in [Files -> Nat] /\ last \subseteq Files /\ I \subseteq Files
  BY FileSets DEF Types, CommitType
<1>5. Pinned = last /\ Pinned' = I
  BY <1>1, <1>3 DEF Pinned, mem
<1> HIDE DEF I
<1>6. /\ refs' \in [Files -> Nat] /\ r \in [Files -> Nat]
      /\ \A f \in Files : r[f] = refs[f] + One(I, f)
      /\ \A f \in Files : r[f] >= One(last, f) => refs'[f] = r[f] - One(last, f)
      /\ \A S, f : One(S, f) \in {0, 1} /\ (One(S, f) = 1 <=> f \in S)
  <2>1. r \in [Files -> Nat] /\ \A f \in Files : r[f] = refs[f] + One(I, f)
    BY <1>4, RefOps
  <2> HIDE DEF r
  <2>2. /\ refs' \in [Files -> Nat]
        /\ \A f \in Files : r[f] >= One(last, f) => refs'[f] = r[f] - One(last, f)
    BY <1>1, <2>1, RefOps
  <2> QED BY <2>1, <2>2 DEF One
<1> HIDE DEF r
<1>7. \A f \in Files : /\ refs'[f] = CountOf(commits, f) + One(I, f) + One(FilesOf(pend.info.segs), f) + leaks[f]
                       /\ refs'[f] = refs[f] + One(I, f) - One(last, f)
                       /\ CountOf(commits, f) > 0 => refs'[f] > 0
                       /\ f \in last => refs[f] > 0
  <2>1. SUFFICES ASSUME NEW f \in Files
                 PROVE  /\ refs'[f] = CountOf(commits, f) + One(I, f) + One(FilesOf(pend.info.segs), f) + leaks[f]
                        /\ refs'[f] = refs[f] + One(I, f) - One(last, f)
                        /\ CountOf(commits, f) > 0 => refs'[f] > 0
                        /\ f \in last => refs[f] > 0
    OBVIOUS
  <2>2. /\ refs[f] = CountOf(commits, f) + One(last, f) + One(FilesOf(pend.info.segs), f) + leaks[f]
        /\ refs[f] \in Nat /\ CountOf(commits, f) \in Nat /\ leaks[f] \in Nat
        /\ One(last, f) \in {0, 1} /\ One(FilesOf(pend.info.segs), f) \in {0, 1}
    BY <1>2, <1>5, CountParts DEF Live
  <2> QED BY <1>6, <2>2
<1>8. Counted'
  <2>1. ~(aim' = "closed" /\ left' <= 2)
    BY <1>3 DEF Far
  <2>2. \A f \in Files : refs'[f] = CountOf(commits, f)' + One(Pinned, f)'
                                    + One(FilesOf(pend.info.segs), f)' + leaks'[f]
    BY <1>1, <1>5, <1>7 DEF CountOf, One, mem, hist
  <2> QED BY <1>1, <1>2, <1>3, <2>1, <2>2 DEF Live, Counted, hist
<1>9. Z \in SUBSET Files /\ \A f \in Z : refs'[f] = 0 /\ f \in last
  BY <1>4, <1>6, <1>7 DEF Zeroed
<1>10. /\ GensOnDisk' = GensOnDisk /\ PendingOnDisk' = PendingOnDisk /\ kept' = kept /\ KeptGens' = KeptGens
       /\ Strayed' <=> Strayed
  <2>1. Strayed' <=> Strayed
    BY <1>1, <1>3 DEF Strayed, Far, hist
  <2> QED BY <1>1, <2>1, SameFiles DEF hist
<1>11. Deletions' /\ todo' \in Seq(SUBSET (Files \cup PendingFiles))
  <2>1. ~(aim' = "closed" /\ left' <= 4)
    BY <1>3 DEF Far
  <2> HIDE DEF Z
  <2> QED BY <1>1, <1>2, <1>7, <1>9, <1>10, <2>1, NewBatch
<1>12. OnDisk'
  <2>1. \A f \in Files : refs'[f] > 0 => f \in kept \/ (Strayed /\ f \in I /\ refs'[f] = 1)
    <3>1. SUFFICES ASSUME NEW f \in Files, refs'[f] > 0
                   PROVE  f \in kept \/ (Strayed /\ f \in I /\ refs'[f] = 1)
      OBVIOUS
    <3>2. /\ refs'[f] = refs[f] + One(I, f) - One(last, f) /\ refs[f] \in Nat
          /\ One(I, f) \in {0, 1} /\ (One(I, f) = 1 <=> f \in I)
          /\ One(last, f) \in {0, 1} /\ (One(last, f) = 1 <=> f \in last)
      BY <1>4, <1>6, <1>7
    <3>3. /\ refs[f] > 0 => f \in kept \/ (Strayed /\ f \in last /\ refs[f] = 1)
          /\ ~Strayed => I \subseteq kept
      BY <1>2, <1>5 DEF Live, OnDisk, I
    <3> QED BY <3>1, <3>2, <3>3
  <2>2. ~Strayed => FilesOf(infos'.segs) \subseteq kept
    BY <1>1, <1>2 DEF Live, OnDisk, mem
  <2> QED BY <1>5, <1>10, <2>1, <2>2 DEF OnDisk
<1>13. Retaining'
  <2>1. \A f : ~Doomed(f)
    BY <1>2, Batches
  <2> QED BY <1>1, <1>2, <1>3, <1>10, <2>1, RetainingKept DEF Live, Far, mem, hist
<1>14. Generations'
  BY <1>1, <1>2, <1>3, <1>10, GenerationsKept DEF Live, Far, mem, hist
<1>15. Numbered'
  <2>1. Strayed' => \A s \in Names : Seg(s) \in Pinned' => s \in backup
    BY <1>5, <1>10, FileSets DEF RollingBack, Strayed, I
  <2> QED BY <1>1, <1>2, <1>12, <2>1, CountedNames DEF Live, Numbered, mem, hist
<1>16. Ticketed'
  <2>1. ASSUME NEW i \in 1 .. Len(tickets), tickets[i] # NoSeg
        PROVE  refs'[Seg(tickets[i])] = 0 /\ ~Doomed(Seg(tickets[i]))'
    <3>1. tickets[i] \in Names /\ refs[Seg(tickets[i])] = 0 /\ tickets[i] \notin infos.segs
      BY <1>2, <2>1 DEF Live, Ticketed, Types
    <3>2. Seg(tickets[i]) \in Files /\ Seg(tickets[i]) \notin I /\ Seg(tickets[i]) \notin last
      BY <1>7, <3>1, FileSets DEF I
    <3>3. \A f : Doomed(f)' <=> f \in Z
      BY <1>1, Batches
    <3> HIDE DEF Z
    <3>4. ~Doomed(Seg(tickets[i]))'
      BY <1>1, <1>9, <3>2, <3>3 DEF mem
    <3>5. One(I, Seg(tickets[i])) = 0 /\ One(last, Seg(tickets[i])) = 0
      BY <3>2 DEF One
    <3> QED BY <1>7, <3>1, <3>2, <3>4, <3>5
  <2> QED BY <1>1, <1>2, <1>10, <2>1 DEF Live, Ticketed, mem
<1>17. Durable'
  BY <1>1, <1>10, DurableKept DEF Types, hist
<1>18. lock' \in [Locks -> Procs \cup {None}] /\ lock'["deleter.mu"] = Me
  BY <1>1, LockSteps
<1>19. Types'
  BY <1>1, <1>6, <1>11, <1>18 DEF Types, mem, hist
<1>20. Locked' /\ Committing' /\ RollingBack'
  BY <1>1, <1>2, <1>3, <1>10, <1>18 DEF Locked, Committing, RollingBack, Far, mem, hist
<1>21. RollbackRestores'
  BY <1>1, <1>2 DEF RollbackRestores
<1> QED BY <1>3, <1>8, <1>11, <1>12, <1>13, <1>14, <1>15, <1>16, <1>17, <1>19, <1>20, <1>21 DEF CommitInv, Live

\* The second half of a checkpoint: lastFiles are the files of the segments.
LEMMA PinStepKept ==
  ASSUME Serial, CommitInv, PinStep(Me)
  PROVE  CommitInv'
<1> USE Facts
<1>1. /\ step = "pin"
      /\ UNCHANGED <<content, state, mem, refs, commits, acked, committed, leaks, unacked, crashes, prepares>>
  BY AtStep DEF PinStep
<1>2. state = "open" /\ Live /\ Active
  BY <1>1, Running DEF Active
<1>3. CASE Unlink /\ UNCHANGED <<pc, lock, last>>
  BY <1>1, <1>2, <1>3, UnlinkKept
<1>5. CASE BatchEnd /\ UNCHANGED <<pc, lock, last>>
  BY <1>1, <1>2, <1>5, BatchEndKept
<1>4. CASE /\ todo = <<>> /\ ~errs /\ UNCHANGED <<disk, todo, errs, undeleted, failures>>
           /\ last' = FilesOf(infos.segs) /\ Then(Me, <<>>) /\ Release("deleter.mu")
  <2>1. /\ Routed' /\ left' \in Nat /\ left \in Nat /\ left' = left - 1 /\ aim' = aim
        /\ \/ step' \in {"dropNew", "purge", "poolDrop", "poolEnd"} /\ Far /\ Far'
           \/ step' = "refresh" /\ aim = "closed" /\ left = 6
    BY <1>1, <1>4, FlushAdvances DEF FlushStages, PurgeSteps
  <2>2. lock' \in [Locks -> Procs \cup {None}] /\ lock'["deleter.mu"] = None
    BY <1>4, LockSteps
  <2>3. last' \subseteq Files
    BY <1>4, FileSets DEF CommitType
  <2>4. Types'
    BY <1>1, <1>4, <2>2, <2>3 DEF Types, mem
  <2>8. /\ Pinned' = Pinned /\ (Strayed' <=> Strayed) /\ kept' = kept
    BY <1>1, <1>4, <2>1, SameFiles DEF Pinned, Strayed, Far, mem
  <2>5. Locked' /\ Committing' /\ RollingBack'
    BY <1>1, <1>2, <1>4, <2>1, <2>2, <2>8 DEF Locked, Committing, RollingBack, Far, mem
  <2>6. Counted'
    <3>2. \A f \in Files : refs'[f] = CountOf(commits, f)' + One(Pinned, f)'
                                      + One(FilesOf(pend.info.segs), f)' + leaks'[f]
      BY <1>1, <1>2, <2>8 DEF Live, Counted, CountOf, One, mem
    <3>3. ~(aim' = "closed" /\ left' <= 2)
      BY <2>1 DEF Far
    <3> QED BY <1>1, <1>2, <1>4, <3>2, <3>3 DEF Live, Counted, mem
  <2>7. OnDisk' /\ Ticketed'
    <3>1. OnDisk'
      BY <1>1, <1>2, <2>8 DEF Live, OnDisk, mem
    <3>2. Ticketed'
      BY <1>1, <1>2, <1>4, <2>8, TicketedKept DEF Live, Types, mem
    <3> QED BY <3>1, <3>2
  <2> QED BY <1>1, <1>4, <2>1, <2>4, <2>5, <2>6, <2>7, FilesKept DEF Far, mem
<1> QED BY <1>3, <1>4, <1>5 DEF PinStep

\* The ticket of a publication that failed stays at the head of the queue.
LEMMA TicketFailed ==
  ASSUME Ticketed, tickets \in Seq(Names \cup {NoSeg}), UNCHANGED <<disk, undeleted, refs, todo>>,
         infos'.segs = infos.segs, \/ tickets' = <<NoSeg>> \o tickets
                                   \/ tickets # <<>> /\ tickets' = <<NoSeg>> \o Tail(tickets)
  PROVE  Ticketed' /\ tickets' \in Seq(Names \cup {NoSeg})
<1> DEFINE A == Names \cup {NoSeg}
<1> HIDE DEF A
<1>1. tickets \in Seq(A) /\ NoSeg \in A
  BY DEF A
<1>2. PICK d \in {0, 1} : /\ tickets' \in Seq(A) /\ tickets'[1] = NoSeg
                          /\ \A i \in 2 .. Len(tickets') : /\ i - d \in 1 .. Len(tickets)
                                                           /\ tickets'[i] = tickets[i - d]
  <2>1. CASE tickets' = <<NoSeg>> \o tickets
    <3>1. /\ tickets' \in Seq(A) /\ Len(tickets') = Len(tickets) + 1 /\ tickets'[1] = NoSeg
          /\ \A i \in 2 .. Len(tickets) + 1 : tickets'[i] = tickets[i - 1]
      BY <1>1, <2>1
    <3>2. \A i \in 2 .. Len(tickets') : i - 1 \in 1 .. Len(tickets) /\ tickets'[i] = tickets[i - 1]
      BY <1>1, <3>1
    <3> QED BY <3>1, <3>2
  <2>2. CASE tickets # <<>> /\ tickets' = <<NoSeg>> \o Tail(tickets)
    <3> DEFINE k == Tail(tickets)
    <3>1. /\ k \in Seq(A) /\ Len(k) = Len(tickets) - 1 /\ Len(tickets) \in Nat
          /\ \A i \in 1 .. Len(tickets) - 1 : k[i] = tickets[i + 1]
      BY <1>1, <2>2, TailOf
    <3>2. tickets' = <<NoSeg>> \o k
      BY <2>2
    <3> HIDE DEF k
    <3>3. /\ tickets' \in Seq(A) /\ Len(tickets') = Len(k) + 1 /\ tickets'[1] = NoSeg
          /\ \A i \in 2 .. Len(k) + 1 : tickets'[i] = k[i - 1]
      BY <1>1, <3>1, <3>2
    <3>4. ASSUME NEW i \in 2 .. Len(tickets') PROVE i - 0 \in 1 .. Len(tickets) /\ tickets'[i] = tickets[i - 0]
      <4>1. i - 1 \in 1 .. Len(tickets) - 1 /\ (i - 1) + 1 = i /\ i - 0 = i /\ i \in 1 .. Len(tickets)
        BY <3>1, <3>3
      <4> QED BY <3>1, <3>3, <4>1
    <3> QED BY <3>3, <3>4
  <2> QED BY <2>1, <2>2
<1>3. \A i \in 1 .. Len(tickets') : tickets'[i] # NoSeg => i \in 2 .. Len(tickets')
  BY <1>2
<1>4. (\A f : Doomed(f)' <=> Doomed(f)) /\ kept' = kept
  BY DoomedKept, SameFiles
<1>5. ASSUME NEW i \in 1 .. Len(tickets'), tickets'[i] # NoSeg
      PROVE  /\ Seg(tickets'[i]) \in kept' /\ refs'[Seg(tickets'[i])] = 0
             /\ tickets'[i] \notin infos'.segs /\ ~Doomed(Seg(tickets[i]))'
  <2>1. i - d \in 1 .. Len(tickets) /\ tickets'[i] = tickets[i - d]
    BY <1>2, <1>3, <1>5
  <2> QED BY <1>4, <1>5, <2>1 DEF Ticketed
<1>6. ASSUME NEW i \in 1 .. Len(tickets'), NEW j \in 1 .. Len(tickets'), i # j
      PROVE  tickets'[i] # tickets'[j] \/ tickets'[i] = NoSeg
  <2>1. SUFFICES ASSUME tickets'[i] # NoSeg, tickets'[j] # NoSeg PROVE tickets'[i] # tickets'[j]
    OBVIOUS
  <2>2. /\ i - d \in 1 .. Len(tickets) /\ tickets'[i] = tickets[i - d]
        /\ j - d \in 1 .. Len(tickets) /\ tickets'[j] = tickets[j - d] /\ i - d # j - d
    BY <1>2, <1>3, <1>6, <2>1
  <2> QED BY <2>1, <2>2 DEF Ticketed
<1> QED BY <1>2, <1>5, <1>6 DEF Ticketed, A

\* The operation that fails.
LEMMA AimOf == step # "end" => Aim(Me) = aim
  BY DEF step, aim, First, Final, Steps, Aim

\* A checkpoint that could not delete a file leaves the references it took.
LEMMA PinFailsKept ==
  ASSUME Serial, CommitInv, PinFails(Me)
  PROVE  CommitInv'
<1> USE Facts
<1> DEFINE I == FilesOf(infos.segs)
           next == pc[Me][2]
<1>1. /\ step = "pin" /\ todo = <<>> /\ ~errs' /\ last' = {} /\ leaks' = IncRefAll(leaks, I)
      /\ UNCHANGED <<disk, content, closing, infos, clone, pend, backup, dirty, pdirty, refs, commits, todo>>
      /\ UNCHANGED <<acked, committed, undeleted, unacked>>
  BY AtStep DEF PinFails
<1>2. /\ next \in {"dropNew", "purge", "poolDrop", "poolEnd", "refresh"}
      /\ next = "refresh" => aim = "closed"
      /\ next # "refresh" => Far
      /\ next \in {"poolDrop", "poolEnd"} =>
           /\ aim # "closed"
           /\ pc' = [pc EXCEPT ![Me] = IF next = "poolDrop" THEN Tail(Tail(@)) ELSE Tail(@)] =>
                Routed' /\ step' = "poolEnd" /\ aim' = aim /\ left' \in Nat /\ Far'
  BY <1>1, PinSkips
<1>3. state = "open" /\ Live /\ Active
  BY <1>1, Running DEF Active
<1>4. /\ leaks' \in [Files -> Nat] /\ \A f \in Files : leaks'[f] = leaks[f] + One(I, f)
      /\ \A f : One(I, f) \in {0, 1} /\ (One(I, f) = 1 <=> f \in I)
  <2>1. leaks \in [Files -> Nat]
    BY DEF Types
  <2> HIDE DEF I
  <2> QED BY <1>1, <2>1, RefOps
<1>5. \/ /\ next \in {"poolDrop", "poolEnd"} /\ state' = state /\ tickets' = tickets /\ fresh' = fresh
         /\ Release("deleter.mu") /\ Routed' /\ step' = "poolEnd" /\ aim' = aim /\ Far' /\ left' \in Nat
         /\ aim # "closed"
      \/ /\ next \in {"dropNew", "purge"} /\ Fails(Me) /\ tickets' = <<NoSeg>> \o tickets /\ fresh' = NoSeg
      \/ /\ next = "refresh" /\ Fails(Me) /\ tickets' = tickets /\ fresh' = fresh
  BY <1>2 DEF PinFails
<1>6. Ticketed' /\ tickets' \in Seq(Names \cup {NoSeg}) /\ fresh' \in Names \cup {NoSeg}
  <2>1. CASE tickets' = tickets /\ fresh' = fresh
    BY <1>1, <1>3, <2>1, TicketedKept, SameFiles DEF Live, Types
  <2>2. CASE tickets' = <<NoSeg>> \o tickets /\ fresh' = NoSeg
    BY <1>1, <1>3, <2>2, TicketFailed DEF Live, Types
  <2> QED BY <1>5, <2>1, <2>2
<1>7. /\ lock' \in [Locks -> Procs \cup {None}] /\ lock'["deleter.mu"] = None
      /\ state' = state \/ (state' = "failed" /\ aim = "closed")
  <2>1. CASE Release("deleter.mu") /\ state' = state
    BY <2>1, LockSteps
  <2>2. CASE Fails(Me)
    <3>1. Return(Me) /\ state' = IF aim = "closed" THEN "failed" ELSE state
      BY <1>1, <2>2, AimOf, Zenon DEF Fails
    <3> QED BY <3>1, LockSteps
  <2> QED BY <1>5, <2>1, <2>2
<1>8. Types'
  BY <1>1, <1>4, <1>6, <1>7 DEF Types
<1>9. CASE state' # state
  <2>1. Fails(Me) /\ state' = "failed"
    BY <1>5, <1>7, <1>9
  <2> QED BY <1>1, <1>8, <2>1, GivenUp DEF Fails
<1>10. CASE state' = state
  <2>1. /\ Routed' /\ step' \in {"poolEnd", "end"} /\ aim # "closed" /\ Far
        /\ (step' = "poolEnd" /\ aim' = aim /\ Far' /\ left' \in Nat) \/ (aim' = "end" /\ step' = "end")
    <3>1. CASE next \in {"poolDrop", "poolEnd"}
      BY <1>2, <1>5, <3>1
    <3>2. CASE next \notin {"poolDrop", "poolEnd"}
      <4>1. Fails(Me)
        BY <1>5, <3>2
      <4>2. state' = (IF aim = "closed" THEN "failed" ELSE state) /\ Return(Me)
        BY <1>1, <4>1, AimOf, Zenon DEF Fails
      <4>3. aim # "closed"
        BY <1>3, <1>10, <4>2
      <4>4. Routed' /\ step' = "end" /\ aim' = "end"
        BY <4>2, Returned DEF Return
      <4> QED BY <1>2, <4>3, <4>4
    <3> QED BY <3>1, <3>2
  <2>2. ~Strayed /\ ~Strayed' /\ kept' = kept
    BY <1>1, <2>1, SameFiles DEF Strayed
  <2>3. Locked' /\ Committing' /\ RollingBack'
    <3>1. Locked'
      BY <1>1, <1>3, <1>7, <1>10, <2>1 DEF Locked
    <3>2. CASE aim' = "end" /\ step' = "end"
      BY <3>1, <3>2 DEF Committing, RollingBack
    <3>3. CASE step' = "poolEnd" /\ aim' = aim /\ Far' /\ left' \in Nat
      <4>1. RollingBack'
        BY <2>1, <3>3 DEF RollingBack
      <4>2. ~(aim' = "finish" /\ left' <= 7)
        BY <3>3 DEF Far
      <4>3. aim = "finish" => left > 7
        BY <2>1 DEF Far
      <4>4. Committing'
        BY <1>1, <3>3, <4>2, <4>3 DEF Committing
      <4> QED BY <3>1, <4>1, <4>4
    <3> QED BY <2>1, <3>2, <3>3
  <2>4. Counted'
    <3>1. Pinned = I /\ Pinned' = {}
      BY <1>1, <2>1 DEF Pinned
    <3>2. ASSUME NEW f \in Files
          PROVE  refs'[f] = CountOf(commits, f)' + One(Pinned, f)' + One(FilesOf(pend.info.segs), f)' + leaks'[f]
      <4>1. /\ refs[f] = CountOf(commits, f) + One(I, f) + One(FilesOf(pend.info.segs), f) + leaks[f]
            /\ refs[f] \in Nat /\ CountOf(commits, f) \in Nat /\ leaks[f] \in Nat
            /\ One(FilesOf(pend.info.segs), f) \in {0, 1}
        BY <1>3, <3>1, CountParts DEF Live
      <4>2. /\ CountOf(commits, f)' = CountOf(commits, f) /\ One(Pinned, f)' = 0
            /\ One(FilesOf(pend.info.segs), f)' = One(FilesOf(pend.info.segs), f)
        BY <1>1, <3>1 DEF CountOf, One
      <4> QED BY <1>1, <1>4, <4>1, <4>2
    <3>3. \A n \in Gens : leaks'[SegsN(n)] = 0
      <4>1. \A n \in Gens : SegsN(n) \in Files /\ One(I, SegsN(n)) = 0 /\ leaks[SegsN(n)] = 0
        BY <1>3, FileSets DEF Live, Counted, One, I
      <4> QED BY <1>4, <4>1
    <3>4. \A f \in FilesOf(infos'.segs) : leaks'[f] > 0
      <4>1. \A f \in I : f \in Files /\ leaks[f] \in Nat
        BY FileSets DEF Types, CommitType
      <4>2. \A f \in I : leaks'[f] = leaks[f] + 1
        BY <1>4, <4>1
      <4> QED BY <1>1, <4>1, <4>2
    <3>5. ~(aim' = "closed" /\ left' <= 2)
      BY <2>1
    <3> QED BY <1>1, <3>2, <3>3, <3>4, <3>5 DEF Counted
  <2>5. OnDisk'
    BY <1>1, <1>3, <2>2 DEF Live, OnDisk
  <2>6. /\ ~(aim = "finish" /\ left <= 2) /\ ~(aim = "finish" /\ left <= 4)
    BY <2>1 DEF Far
  <2>7. ~(aim' = "closed" /\ left' <= 4)
    BY <2>1
  <2> QED BY <1>1, <1>3, <1>6, <1>8, <1>10, <2>1, <2>3, <2>4, <2>5, <2>6, <2>7, FilesKept
<1> QED BY <1>9, <1>10

\* Publications that are refused, and those that meet a ticket that was.
LEMMA PublishFailsKept ==
  ASSUME Serial, CommitInv, PublishRefused(Me) \/ PublishPanics(Me)
  PROVE  CommitInv'
<1> USE Facts
<1>1. /\ step = "purge" /\ tickets # <<>> /\ Return(Me)
      /\ UNCHANGED <<disk, content, closing, infos, fresh, clone, pend, backup, dirty, pdirty, del, hist>>
      /\ tickets' = tickets \/ tickets' = <<NoSeg>> \o Tail(tickets)
      /\ state' = "failed" \/ (state' = state /\ aim # "closed")
  <2>1. CASE PublishRefused(Me)
    <3>1. step = "purge"
      BY <2>1, AtStep DEF PublishRefused
    <3>2. Return(Me) /\ state' = IF aim = "closed" THEN "failed" ELSE state
      BY <2>1, <3>1, AimOf, Zenon DEF PublishRefused, Fails
    <3> QED BY <2>1, <3>1, <3>2 DEF PublishRefused
  <2>2. CASE PublishPanics(Me)
    BY <2>2, AtStep DEF PublishPanics, mem
  <2> QED BY <2>1, <2>2
<1>2. state = "open" /\ Live /\ Active /\ todo = <<>> /\ ~errs
  BY <1>1, Running DEF Active
<1>3. Routed' /\ step' = "end" /\ aim' = "end" /\ left' = 0
  BY <1>1, Returned DEF Return
<1>4. lock' \in [Locks -> Procs \cup {None}] /\ lock'["deleter.mu"] = None
  BY <1>1, LockSteps
<1>5. Ticketed' /\ tickets' \in Seq(Names \cup {NoSeg})
  <2>1. CASE tickets' = tickets
    BY <1>1, <1>2, <2>1, TicketedKept, SameFiles DEF Live, Types, del, hist
  <2>2. CASE tickets' = <<NoSeg>> \o Tail(tickets)
    BY <1>1, <1>2, <2>2, TicketFailed DEF Live, Types, del, hist
  <2> QED BY <1>1, <2>1, <2>2
<1>6. Types'
  BY <1>1, <1>4, <1>5 DEF Types, del, hist
<1>7. CASE state' = "failed"
  BY <1>1, <1>2, <1>6, <1>7, GivenUp DEF del, hist
<1>8. CASE state' = state /\ aim # "closed"
  <2>1. Far
    BY <1>1, Rest DEF Spot, Far, FlushStages, PurgeSteps
  <2>2. ~Strayed /\ ~Strayed' /\ kept' = kept
    BY <1>1, <1>3, <1>8, SameFiles DEF Strayed, hist
  <2>3. Locked' /\ Committing' /\ RollingBack'
    BY <1>1, <1>2, <1>3, <1>4, <1>8 DEF Locked, Committing, RollingBack, del
  <2>4. Counted'
    BY <1>1, <1>2, <1>3, <1>8, CountedKept DEF Live, del, hist
  <2>5. OnDisk'
    BY <1>1, <1>2, <2>2 DEF Live, OnDisk, del
  <2>6. /\ ~(aim = "finish" /\ left <= 2) /\ ~(aim = "finish" /\ left <= 4)
    BY <2>1 DEF Far
  <2> QED BY <1>1, <1>2, <1>3, <1>5, <1>6, <1>8, <2>3, <2>4, <2>5, <2>6, FilesKept DEF del, hist
<1> QED BY <1>1, <1>7, <1>8

\* A deletion of the operation failed: Commit returns with its commit on disk,
\* and Rollback gives the writer up.
LEMMA UnlinkFailsKept ==
  ASSUME Serial, CommitInv, UnlinkFails(Me)
  PROVE  CommitInv'
<1> USE Facts
<1>1. /\ step = "unlink" /\ todo = <<>> /\ errs /\ ~errs' /\ Return(Me)
      /\ state' = IF aim = "closed" THEN "failed" ELSE state
      /\ unacked' = IF aim = "finish" THEN pend.info.gen ELSE unacked
      /\ UNCHANGED <<disk, content, mem, refs, last, commits, todo, acked, committed, leaks, undeleted>>
  <2>1. step = "unlink"
    BY AtStep DEF UnlinkFails
  <2> QED BY <2>1, AimOf, Zenon DEF UnlinkFails, Fails
<1>2. state = "open" /\ Live /\ Active
  BY <1>1, Running DEF Active
<1>3. Routed' /\ step' = "end" /\ aim' = "end" /\ left' = 0
  BY <1>1, Returned DEF Return
<1>4. lock' \in [Locks -> Procs \cup {None}] /\ lock'["deleter.mu"] = None
  BY <1>1, LockSteps
<1>5. \/ aim = "closed"
      \/ aim = "finish" /\ left = 2
  BY <1>1, Rest DEF Spot, Committing, FlushStages, PurgeSteps
<1>6. CASE aim = "closed"
  <2>1. Types'
    BY <1>1, <1>4, <1>6 DEF Types, mem
  <2> QED BY <1>1, <1>6, <2>1, GivenUp
<1>7. CASE aim = "finish" /\ left = 2
  <2> DEFINE g == pend.info.gen
  <2>1. /\ g \in Gens /\ infos.gen < g /\ unacked < g /\ commits # <<>> /\ commits[Len(commits)] = pend.info
        /\ pend # NoCommit
    BY <1>7 DEF Committing
  <2>2. /\ unacked' = g /\ g \in Nat /\ infos.gen \in Nat /\ acked.gen \in Nat /\ unacked \in Nat /\ g # 0
        /\ unacked' \in 0 .. MaxGen /\ acked.gen <= infos.gen
    <3>1. acked \in CommitType /\ infos \in CommitType /\ unacked \in 0 .. MaxGen
      BY DEF Types
    <3>2. acked.gen \in Nat /\ infos.gen \in Nat /\ unacked \in Nat
      BY <3>1, BoundAssumption DEF CommitType
    <3>3. acked.gen <= infos.gen /\ unacked' = g
      BY <1>1, <1>2, <1>7 DEF Live, Generations
    <3>4. g \in Nat /\ g # 0 /\ g \in 0 .. MaxGen
      BY <2>1, BoundAssumption DEF Gens
    <3> QED BY <3>2, <3>3, <3>4
  <2>3. Types'
    BY <1>1, <1>4, <1>7, <2>2 DEF Types, mem
  <2>4. Locked' /\ Committing' /\ RollingBack'
    BY <1>1, <1>2, <1>3, <1>4, <1>7 DEF Locked, Committing, RollingBack
  <2>5. GensOnDisk' = GensOnDisk /\ KeptGens' = KeptGens /\ PendingOnDisk' = PendingOnDisk /\ kept' = kept
    BY <1>1, SameFiles
  <2>6. Durable'
    BY <1>1, <2>5, DurableKept DEF Types
  <2>7. Counted'
    BY <1>1, <1>2, <1>3, <1>7, CountedKept DEF Live, mem
  <2>8. OnDisk'
    <3>1. ~Strayed /\ ~Strayed'
      BY <1>3, <1>7 DEF Strayed
    <3> QED BY <1>1, <1>2, <2>5, <3>1 DEF Live, OnDisk, mem
  <2>9. Deletions'
    BY <1>1, <1>2, <1>3, <2>5, DeletionsKept DEF Live, Starting
  <2>10. Retaining'
    <3>1. \A f : ~Doomed(f)' /\ ~Doomed(f)
      BY <1>1 DEF Doomed
    <3>2. \A n \in GensOnDisk' :
            \/ \E i \in 1 .. Len(commits') : commits'[i].gen = n
            \/ /\ Len(commits') = Keep /\ \A i \in 1 .. Len(commits') : n < commits'[i].gen
               /\ Doomed(SegsN(n))' \/ n \notin KeptGens'
      BY <1>1, <1>2, <2>5, <3>1 DEF Live, Retaining
    <3>3. commits'[Len(commits')].gen = unacked' /\ acked'.gen < unacked' /\ commits' # <<>>
      BY <1>1, <2>1, <2>2
    <3> QED BY <1>1, <1>2, <2>2, <3>2, <3>3 DEF Live, Retaining
  <2>11. Generations'
    <3>1. \A n \in GensOnDisk' : n <= infos'.gen \/ n <= unacked'
      <4>1. ASSUME NEW n \in GensOnDisk PROVE n <= infos.gen \/ n <= g
        <5>1. n \in Nat /\ (n <= infos.gen \/ n <= unacked \/ n = g)
          BY <1>2 DEF Live, Generations, GensOnDisk, Gens
        <5> QED BY <2>1, <2>2, <5>1
      <4> QED BY <1>1, <2>2, <2>5, <4>1 DEF mem
    <3> QED BY <1>1, <1>2, <2>1, <2>2, <3>1 DEF Live, Generations, mem
  <2>12. Numbered'
    BY <1>1, <1>2, NumberedKept DEF Live, mem
  <2>13. Ticketed'
    BY <1>1, <1>2, <2>5, TicketedKept DEF Live, Types, mem
  <2>14. RollbackRestores'
    BY <1>1, <1>2, <1>7 DEF RollbackRestores
  <2> QED BY <1>3, <2>3, <2>4, <2>6, <2>7, <2>8, <2>9, <2>10, <2>11, <2>12, <2>13, <2>14 DEF CommitInv, Live
<1> QED BY <1>5, <1>6, <1>7

-----------------------------------------------------------------------------
(* Publishing and dropping segments.                                       *)

\* Other segments become the live ones, on the way to a checkpoint.
LEMMA SegmentsChanged ==
  ASSUME CommitInv, step \notin {"end", "rename", "sync", "register", "unlink", "pin"},
         UNCHANGED <<disk, content, state, backup, refs, last, commits, todo, errs, acked, committed, leaks, undeleted, unacked, pend>>,
         NEW S \in SUBSET Names, infos' = [infos EXCEPT !.segs = S], ~Strayed' => FilesOf(S) \subseteq kept, ~Strayed,
         Routed', step' \in {"changed", "checkpoint"}, left' \in Nat,
         tickets' \in Seq(Names \cup {NoSeg}), fresh' \in Names \cup {NoSeg}, clone' = clone,
         {dirty', pdirty', closing'} \subseteq BOOLEAN,
         lock' \in [Locks -> Procs \cup {None}], lock'["deleter.mu"] = lock["deleter.mu"],
         Ticketed', Committing', RollingBack',
         aim = "closed" => left > 2, aim' = "closed" => left' > 4,
         aim = "finish" => left > 4, aim = "closed" => aim' = "closed"
  PROVE  CommitInv'
<1> USE Facts
<1>1. state = "open" /\ Live /\ todo = <<>> /\ ~errs
  BY Running
<1>2. infos' \in CommitType /\ infos'.segs = S /\ infos'.gen = infos.gen /\ infos'.counter = infos.counter
  BY DEF CommitType
<1>3. Types'
  BY <1>2 DEF Types
<1>4. Locked'
  BY <1>1 DEF Locked
<1>5. Counted'
  <2>1. Pinned' = Pinned
    BY DEF Pinned
  <2>2. \A f \in Files : refs'[f] = CountOf(commits, f)' + One(Pinned, f)'
                                    + One(FilesOf(pend.info.segs), f)' + leaks'[f]
    BY <1>1, <2>1 DEF Live, Counted, CountOf, One
  <2> QED BY <1>1, <2>2 DEF Live, Counted
<1>6. OnDisk'
  BY <1>1, <1>2, SameFiles DEF Live, OnDisk
<1>7. /\ ~(aim' = "closed" /\ left' <= 4)
      /\ ~(aim = "finish" /\ left <= 2) /\ ~(aim = "finish" /\ left <= 4)
  OBVIOUS
<1> QED BY <1>1, <1>2, <1>3, <1>4, <1>5, <1>6, <1>7, FilesKept

\* publishFlushedSegment of the next ticket.
LEMMA PublishSegmentKept ==
  ASSUME Serial, CommitInv, PublishSegment(Me)
  PROVE  CommitInv'
<1> USE Facts
<1> DEFINE h == Head(tickets)
           S == infos.segs \cup {h}
<1>1. /\ step = "purge" /\ tickets # <<>> /\ h # NoSeg
      /\ infos' = [infos EXCEPT !.segs = S] /\ tickets' = Tail(tickets) /\ fresh' = h
      /\ pc' = [pc EXCEPT ![Me] = <<"changed">> \o Checkpoint \o <<"dropNew">> \o @]
      /\ Take(Me, "purgeMu")
      /\ UNCHANGED <<disk, content, state, closing, clone, pend, backup, dirty, pdirty, del, hist>>
  <2>1. step = "purge"
    BY AtStep DEF PublishSegment
  <2> QED BY <2>1, Zenon DEF PublishSegment
<1>2. /\ Routed' /\ step' = "changed" /\ aim' = aim /\ left' = left + 4 /\ left \in Nat /\ Far /\ Far'
  BY <1>1, Publishes
<1>3. state = "open" /\ Live /\ ~Strayed /\ kept' = kept
  BY <1>1, <1>2, Running, SameFiles DEF Strayed, Far, hist
<1>4. /\ Tail(tickets) \in Seq(Names \cup {NoSeg}) /\ Len(Tail(tickets)) = Len(tickets) - 1 /\ Len(tickets) \in Nat \ {0}
      /\ \A i \in 1 .. Len(tickets) - 1 : Tail(tickets)[i] = tickets[i + 1]
      /\ h = tickets[1] /\ h \in Names
  <2>1. tickets \in Seq(Names \cup {NoSeg})
    BY DEF Types
  <2> QED BY <1>1, <2>1, TailOf
<1>5. S \in SUBSET Names /\ FilesOf(S) \subseteq kept
  <2>1. S \in SUBSET Names
    BY <1>4 DEF CommitType
  <2>2. Seg(h) \in kept /\ FilesOf(infos.segs) \subseteq kept
    <3>1. 1 \in 1 .. Len(tickets) /\ tickets[1] # NoSeg
      BY <1>1, <1>4
    <3>2. Seg(tickets[1]) \in kept
      BY <1>3, <3>1 DEF Live, Ticketed
    <3> QED BY <1>3, <1>4, <3>2 DEF Live, OnDisk
  <2> QED BY <2>1, <2>2 DEF FilesOf
<1>6. infos'.segs = S
  BY <1>1 DEF CommitType
<1>7. Ticketed'
  <2>1. \A f : Doomed(f)' <=> Doomed(f)
    BY <1>1, DoomedKept DEF del
  <2>2. ASSUME NEW i \in 1 .. Len(tickets'), tickets'[i] # NoSeg
        PROVE  /\ Seg(tickets'[i]) \in kept' /\ refs'[Seg(tickets'[i])] = 0
               /\ tickets'[i] \notin infos'.segs /\ ~Doomed(Seg(tickets[i]))'
    <3>1. i + 1 \in 1 .. Len(tickets) /\ i + 1 # 1 /\ 1 \in 1 .. Len(tickets) /\ tickets'[i] = tickets[i + 1]
      BY <1>1, <1>4
    <3>2. /\ Seg(tickets[i + 1]) \in kept /\ refs[Seg(tickets[i + 1])] = 0
          /\ tickets[i + 1] \notin infos.segs /\ ~Doomed(Seg(tickets[i + 1])) /\ tickets[i + 1] # h
      BY <1>3, <1>4, <2>2, <3>1 DEF Live, Ticketed
    <3>3. tickets'[i] \notin infos'.segs
      BY <1>6, <3>1, <3>2
    <3>4. ~Doomed(Seg(tickets[i]))'
      BY <2>1, <3>1, <3>2
    <3> QED BY <1>1, <1>3, <3>1, <3>2, <3>3, <3>4 DEF del
  <2>3. ASSUME NEW i \in 1 .. Len(tickets'), NEW j \in 1 .. Len(tickets'), i # j
        PROVE  tickets'[i] # tickets'[j] \/ tickets'[i] = NoSeg
    <3>1. /\ i + 1 \in 1 .. Len(tickets) /\ tickets'[i] = tickets[i + 1]
          /\ j + 1 \in 1 .. Len(tickets) /\ tickets'[j] = tickets[j + 1] /\ i + 1 # j + 1
      BY <1>1, <1>4, <2>3
    <3> QED BY <1>3, <3>1 DEF Live, Ticketed
  <2> QED BY <2>2, <2>3 DEF Ticketed
<1>8. lock' \in [Locks -> Procs \cup {None}] /\ lock'["deleter.mu"] = lock["deleter.mu"]
  BY <1>1, LockSteps
<1>9. Committing' /\ RollingBack'
  <2>1. infos'.gen = infos.gen
    BY <1>1 DEF CommitType
  <2> QED BY <1>1, <1>2, <1>3, <2>1 DEF Committing, RollingBack, Far, del, hist
<1>10. /\ aim = "closed" => left > 2
       /\ aim' = "closed" => left' > 4
       /\ aim = "finish" => left > 4
       /\ aim = "closed" => aim' = "closed"
  BY <1>2 DEF Far
<1>11. left' \in Nat /\ step' \in {"changed", "checkpoint"} /\ tickets' \in Seq(Names \cup {NoSeg})
       /\ fresh' \in Names \cup {NoSeg} /\ {dirty', pdirty', closing'} \subseteq BOOLEAN
  BY <1>1, <1>2, <1>4
<1>12. UNCHANGED <<disk, content, state, backup, refs, last, commits, todo, errs, acked, committed, leaks, undeleted, unacked, pend>>
       /\ clone' = clone
  BY <1>1 DEF del, hist
<1> HIDE DEF S
<1> QED BY <1>1, <1>2, <1>3, <1>5, <1>7, <1>8, <1>9, <1>10, <1>11, <1>12, SegmentsChanged

\* A segment all of whose documents are deleted is dropped.
LEMMA DropsKept ==
  ASSUME Serial, CommitInv, DropNew(Me) \/ PoolDrop(Me)
  PROVE  CommitInv'
<1> USE Facts
<1>1. /\ step \in {"dropNew", "poolDrop"} /\ fresh' \in {fresh, NoSeg}
      /\ UNCHANGED <<disk, content, state, closing, tickets, clone, pend, backup, dirty, pdirty, del, lock, hist>>
  BY AtStep DEF DropNew, PoolDrop
<1>2. CASE Then(Me, <<>>) /\ UNCHANGED infos
  <2>1. /\ Routed' /\ left' \in Nat /\ left \in Nat /\ left' = left - 1 /\ aim' = aim
        /\ step' \in {"purge", "poolEnd"} /\ Far /\ Far'
    BY <1>1, <1>2, FlushAdvances DEF FlushStages, PurgeSteps
  <2>2. Types'
    BY <1>1, <1>2, TypesKept DEF del, hist
  <2>3. Locked'
    BY <1>1, <2>1, LockedKept DEF del
  <2>4. Committing' /\ RollingBack'
    BY <1>1, <1>2, <2>1, SameFiles DEF Committing, RollingBack, Far, del, hist
  <2> QED BY <1>1, <1>2, <2>1, <2>2, <2>3, <2>4, QuietKept DEF del, hist, Far
<1>3. ASSUME NEW D, infos' = [infos EXCEPT !.segs = infos.segs \ D], Then(Me, <<"changed">> \o Checkpoint)
      PROVE  CommitInv'
  <2> DEFINE S == infos.segs \ D
  <2>1. Routed' /\ step' = "changed" /\ aim' = aim /\ left' = left + 2 /\ left \in Nat /\ Far /\ Far'
    BY <1>1, <1>3, Checkpoints
  <2>2. state = "open" /\ Live /\ ~Strayed /\ kept' = kept
    BY <1>1, <2>1, Running, SameFiles DEF Strayed, Far, hist
  <2>3. S \in SUBSET Names /\ FilesOf(S) \subseteq kept
    BY <2>2 DEF CommitType, Live, OnDisk, FilesOf
  <2>4. infos'.segs = S /\ infos'.gen = infos.gen
    BY <1>3 DEF CommitType
  <2>5. Ticketed'
    <3>1. \A f : Doomed(f)' <=> Doomed(f)
      BY <1>1, DoomedKept DEF del
    <3> QED BY <1>1, <2>2, <2>4, <3>1 DEF Live, Ticketed, del
  <2>6. Committing' /\ RollingBack'
    BY <1>1, <2>1, <2>2, <2>4 DEF Committing, RollingBack, Far, del, hist
  <2>7. /\ aim = "closed" => left > 2
        /\ aim' = "closed" => left' > 4
        /\ aim = "finish" => left > 4
        /\ aim = "closed" => aim' = "closed"
    BY <2>1 DEF Far
  <2>8. tickets' \in Seq(Names \cup {NoSeg}) /\ left' \in Nat /\ fresh' \in Names \cup {NoSeg}
        /\ {dirty', pdirty', closing'} \subseteq BOOLEAN /\ lock' \in [Locks -> Procs \cup {None}]
    BY <1>1, <2>1 DEF Types
  <2> HIDE DEF S
  <2>9. infos' = [infos EXCEPT !.segs = S]
    BY <1>3 DEF S
  <2> QED BY <1>1, <2>1, <2>2, <2>3, <2>5, <2>6, <2>7, <2>8, <2>9, SegmentsChanged DEF del, hist
<1> QED BY <1>2, <1>3 DEF DropNew, PoolDrop

\* A DWPT is flushed: a file with a new name, and its ticket.
LEMMA SegmentAdded ==
  ASSUME CommitInv, step \in {"end", "flushAll"}, state = "open", NewSegment(Me),
         UNCHANGED <<content, state, closing, fresh, clone, pend, backup, del, hist>>,
         Routed', step' \in {"tryPurge", "purge"}, left' \in Nat,
         Far, Far', aim' = aim \/ (aim = "end" /\ aim' # "return"), aim' # "finish" \/ aim' = aim,
         lock' \in [Locks -> Procs \cup {None}], lock'["deleter.mu"] = lock["deleter.mu"]
  PROVE  CommitInv'
<1> USE Facts
<1> DEFINE c == infos.counter
<1>1. /\ c < MaxSegments /\ infos' = [infos EXCEPT !.counter = c + 1]
      /\ disk' = disk \cup {Seg(c)} /\ tickets' = Append(tickets, c)
      /\ dirty' = TRUE /\ pdirty' = TRUE
  BY DEF NewSegment, Change
<1>2. Live /\ todo = <<>> /\ \A f : ~Doomed(f)
  BY Running, Batches
<1>21. ~Strayed /\ ~Strayed' /\ ~Starting
  BY DEF Strayed, Far, Starting
<1>3. c \in Names /\ c \in Nat /\ Seg(c) \in Files
  <2>1. c \in Names
    BY <1>1, BoundAssumption DEF CommitType, Names
  <2> QED BY <2>1, FileSets, BoundAssumption DEF Names
<1>4. /\ infos' \in CommitType /\ infos'.counter = c + 1 /\ infos'.gen = infos.gen /\ infos'.segs = infos.segs
  BY <1>1, <1>3, BoundAssumption DEF CommitType
<1>5. Seg(c) \notin disk /\ refs[Seg(c)] = 0 /\ c \notin infos.segs /\ \A i \in 1 .. Len(tickets) : tickets[i] # c
  <2>1. Seg(c) \notin disk /\ ~(refs[Seg(c)] > 0)
    BY <1>2, <1>3 DEF Live, Numbered
  <2>2. refs[Seg(c)] \in Nat
    BY <1>3 DEF Types
  <2>3. c \notin infos.segs
    BY <1>2, <1>21, <2>1, FileSets, KeptFiles DEF Live, OnDisk
  <2>4. \A i \in 1 .. Len(tickets) : tickets[i] # c
    <3>1. c # NoSeg
      BY <1>3 DEF NoSeg
    <3> QED BY <1>2, <2>1, <3>1, KeptFiles DEF Live, Ticketed
  <2> QED BY <2>1, <2>2, <2>3, <2>4
<1>6. GensOnDisk' = GensOnDisk /\ PendingOnDisk' = PendingOnDisk
  BY <1>1, FileNames DEF GensOnDisk, PendingOnDisk
<1>22. kept' = kept \cup {Seg(c)} /\ KeptGens' = KeptGens
  <2>1. undeleted' = undeleted /\ undeleted \subseteq disk
    BY DEF Types, hist
  <2> QED BY <1>1, <1>5, <1>6, <2>1 DEF kept, KeptGens
<1>7. tickets' \in Seq(Names \cup {NoSeg}) /\ Len(tickets') = Len(tickets) + 1 /\ tickets'[Len(tickets) + 1] = c
      /\ Len(tickets) \in Nat /\ \A i \in 1 .. Len(tickets) : tickets'[i] = tickets[i]
  BY <1>1, <1>3 DEF Types
<1>8. Types'
  BY <1>1, <1>3, <1>4, <1>7 DEF Types, del, hist
<1>9. Locked'
  BY LockedKept DEF del
<1>10. Committing' /\ RollingBack'
  BY <1>4, <1>22 DEF Committing, RollingBack, Far, del, hist
<1>11. ~(aim' = "closed" /\ left' <= 4) /\ ~(aim = "finish" /\ left <= 4) /\ ~(aim = "closed" /\ left <= 4)
  BY DEF Far
<1>12. Counted'
  BY <1>2, <1>4, <1>11, CountedKept DEF Live, del, hist
<1>13. OnDisk'
  BY <1>2, <1>4, <1>21, <1>22, OnDiskKept DEF Live, CommitType, del
<1>14. Deletions'
  BY <1>2, <1>6, <1>11, <1>21, <1>22, DeletionsKept DEF Live, del
<1>15. Retaining'
  BY <1>2, <1>6, <1>11, <1>22, RetainingKept DEF Live, del, hist
<1>16. Generations'
  BY <1>2, <1>4, <1>6, <1>11, GenerationsKept DEF Live, hist
<1>17. Numbered'
  <2>1. ASSUME NEW s \in Names, Seg(s) \in disk' \/ refs'[Seg(s)] > 0 PROVE s < infos'.counter
    <3>1. s = c \/ Seg(s) \in disk \/ refs[Seg(s)] > 0
      BY <1>1, <2>1, FileNames DEF del
    <3>2. s = c \/ s < c
      BY <1>2, <3>1 DEF Live, Numbered
    <3> QED BY <1>3, <1>4, <3>2 DEF Names
  <2>2. \A s \in committed \cup backup : s < infos'.counter
    <3>1. \A s \in committed \cup backup : s < c /\ s \in Int
      BY <1>2 DEF Live, Numbered, Types, Names
    <3> QED BY <1>3, <1>4, <3>1
  <2> QED BY <1>2, <2>1, <2>2 DEF Live, Numbered, hist
<1>18. Ticketed'
  <2>1. \A f : ~Doomed(f)'
    BY <1>2, DoomedKept DEF del
  <2>2. ASSUME NEW i \in 1 .. Len(tickets'), tickets'[i] # NoSeg
        PROVE  /\ Seg(tickets'[i]) \in kept' /\ refs'[Seg(tickets'[i])] = 0
               /\ tickets'[i] \notin infos'.segs
    <3>1. CASE i = Len(tickets) + 1
      BY <1>4, <1>5, <1>7, <1>22, <3>1 DEF del
    <3>2. CASE i \in 1 .. Len(tickets)
      BY <1>2, <1>4, <1>7, <1>22, <2>2, <3>2 DEF Live, Ticketed, del
    <3> QED BY <1>7, <3>1, <3>2
  <2>3. ASSUME NEW i \in 1 .. Len(tickets'), NEW j \in 1 .. Len(tickets'), i # j
        PROVE  tickets'[i] # tickets'[j] \/ tickets'[i] = NoSeg
    <3>1. CASE i \in 1 .. Len(tickets) /\ j \in 1 .. Len(tickets)
      BY <1>2, <1>7, <2>3, <3>1 DEF Live, Ticketed
    <3>2. CASE i = Len(tickets) + 1 /\ j \in 1 .. Len(tickets)
      BY <1>5, <1>7, <3>2
    <3>3. CASE j = Len(tickets) + 1 /\ i \in 1 .. Len(tickets)
      BY <1>5, <1>7, <3>3
    <3> QED BY <1>7, <2>3, <3>1, <3>2, <3>3
  <2> QED BY <2>1, <2>2, <2>3 DEF Ticketed
<1>19. Durable'
  BY <1>1, <1>6, <1>22, DurableKept DEF Types, hist
<1>20. RollbackRestores'
  BY DEF RollbackRestores
<1> QED BY <1>8, <1>9, <1>10, <1>12, <1>13, <1>14, <1>15, <1>16, <1>17, <1>18, <1>19, <1>20 DEF CommitInv, Live

\* An indexing goroutine flushes its DWPT.
LEMMA FlushDWPTKept ==
  ASSUME Serial, CommitInv, FlushDWPT(Me)
  PROVE  CommitInv'
<1> USE Facts
<1>1. /\ state = "open" /\ pc[Me] = <<>> /\ NewSegment(Me) /\ pc' = [pc EXCEPT ![Me] = <<"tryPurge">>]
      /\ UNCHANGED <<content, state, closing, fresh, clone, pend, backup, del, lock, hist>>
  BY DEF FlushDWPT
<1>2. step = "end" /\ aim = "end"
  BY <1>1, Zenon DEF step, aim, Steps, First, Final
<1>3. Routed' /\ step' = "tryPurge" /\ aim' = "tryPurge" /\ left' = 1
  BY <1>1, TryPurgeRoute, Entered, Zenon
<1>4. Far /\ Far'
  BY <1>2, <1>3 DEF Far
<1> QED BY <1>1, <1>2, <1>3, <1>4, SegmentAdded

\* FlushAllThreads: what is buffered becomes a segment.
LEMMA FlushAllKept ==
  ASSUME Serial, CommitInv, FlushAll(Me)
  PROVE  CommitInv'
<1> USE Facts
<1>1. /\ step = "flushAll" /\ Then(Me, <<>>) /\ Take(Me, "fullFlushLock")
      /\ UNCHANGED <<content, state, closing, fresh, clone, pend, backup, del, hist>>
  BY AtStep DEF FlushAll
<1>2. /\ Routed' /\ left' \in Nat /\ left \in Nat /\ left' = left - 1 /\ aim' = aim
      /\ step' = "purge" /\ Far /\ Far'
  BY <1>1, FlushAdvances DEF FlushStages, PurgeSteps
<1>3. lock' \in [Locks -> Procs \cup {None}] /\ lock'["deleter.mu"] = lock["deleter.mu"]
  BY <1>1, LockSteps
<1>4. state = "open"
  BY <1>1, Running
<1>5. CASE NewSegment(Me)
  BY <1>1, <1>2, <1>3, <1>4, <1>5, SegmentAdded
<1>6. CASE UNCHANGED <<disk, infos, tickets, dirty, pdirty>>
  <2>1. Types'
    BY <1>1, <1>3, <1>6, TypesKept DEF del, hist
  <2>2. Locked'
    BY <1>1, <1>2, <1>3, LockedKept DEF del
  <2>3. Committing' /\ RollingBack'
    BY <1>1, <1>2, <1>6, SameFiles DEF Committing, RollingBack, Far, del, hist
  <2> QED BY <1>1, <1>2, <1>6, <2>1, <2>2, <2>3, QuietKept DEF del, hist, Far
<1> QED BY <1>5, <1>6 DEF FlushAll

\* RollbackSegmentInfos: the segments of the last commit are the live ones.
LEMMA RestoreKept ==
  ASSUME Serial, CommitInv, Restore(Me)
  PROVE  CommitInv'
<1> USE Facts
<1>1. /\ step = "restore" /\ Then(Me, <<>>) /\ infos' = [infos EXCEPT !.segs = backup]
      /\ UNCHANGED <<disk, content, state, closing, tickets, fresh, clone, pend, backup, dirty, pdirty, del, lock, hist>>
  BY AtStep DEF Restore
<1>2. /\ Routed' /\ left' = 7 /\ left = 8
      /\ step' = "checkpoint" /\ aim' = aim /\ aim = "closed"
  BY <1>1, TailAdvances DEF FlushStages, PurgeSteps
<1>3. state = "open" /\ Live
  BY <1>1, Running
<1>4. backup \in SUBSET Names /\ (unacked = 0 => FilesOf(backup) \subseteq kept)
  <2>1. backup \in SUBSET Names
    BY DEF Types
  <2>2. CASE commits = <<>>
    <3>1. backup = {}
      BY <1>2, <1>3, <2>2 DEF Live, Retaining
    <3> QED BY <2>1, <3>1, FileSets
  <2>3. CASE commits # <<>>
    <3>1. unacked = 0 => backup = commits[Len(commits)].segs
      BY <1>2, <1>3, <2>3 DEF Live, Retaining
    <3>2. Len(commits) \in 1 .. Len(commits)
      BY <2>3 DEF Types
    <3>3. unacked = 0 => FilesOf(backup) \subseteq CommitFiles(commits[Len(commits)])
      BY <3>1 DEF CommitFiles
    <3> QED BY <1>3, <2>1, <3>2, <3>3, Held
  <2> QED BY <2>2, <2>3
<1>5. infos'.segs = backup /\ infos'.gen = infos.gen
  BY <1>1 DEF CommitType
<1>6. tickets = <<>>
  BY <1>2 DEF RollingBack
<1>7. Ticketed'
  BY <1>1, <1>6 DEF Ticketed
<1>8. Committing' /\ RollingBack'
  BY <1>1, <1>2, <1>5 DEF Committing, RollingBack, del
<1>11. ~Strayed /\ (~Strayed' => unacked = 0)
  BY <1>1, <1>2 DEF Strayed, hist
<1>9. tickets' \in Seq(Names \cup {NoSeg}) /\ left' \in Nat /\ fresh' \in Names \cup {NoSeg}
      /\ {dirty', pdirty', closing'} \subseteq BOOLEAN /\ lock' \in [Locks -> Procs \cup {None}]
  BY <1>1, <1>2 DEF Types
<1>10. /\ aim = "closed" => left > 2
       /\ aim' = "closed" => left' > 4
       /\ aim = "finish" => left > 4
       /\ aim = "closed" => aim' = "closed"
  BY <1>2
<1> QED BY <1>1, <1>2, <1>4, <1>7, <1>8, <1>9, <1>10, <1>11, SegmentsChanged DEF del, hist

-----------------------------------------------------------------------------
(* The two phases of a commit.                                             *)

\* Nothing is being deleted.
LEMMA NoBatch ==
  ASSUME todo' = <<>>, \A n \in PendingOnDisk' : step' = "rename" /\ n = pend'.info.gen /\ Pending(n) \notin undeleted',
         ~(aim' = "closed" /\ left' <= 4)
  PROVE  Deletions'
<1>1. \A f : ~Doomed(f)'
  BY DEF Doomed
<1> QED BY <1>1 DEF Deletions

\* No file pending_segments_n is there but that of the commit in hand.
LEMMA NonePending ==
  ASSUME Live, state = "open", NEW n \in PendingOnDisk
  PROVE  step = "rename" /\ n = pend.info.gen /\ Pending(n) \notin undeleted
  BY DEF Live, Deletions, Starting

\* The commits of the deleter are not newer than the writer's generation or the
\* commit that failed, until a commit is registered.
LEMMA CommitsOld ==
  ASSUME Types, Live, ~(aim = "finish" /\ left <= 2), NEW i \in 1 .. Len(commits)
  PROVE  (commits[i].gen <= infos.gen \/ commits[i].gen <= unacked) /\ commits[i].gen \in Gens
<1>1. /\ commits # <<>> /\ Len(commits) \in 1 .. Len(commits) /\ i <= Len(commits) /\ i \in Nat /\ Len(commits) \in Nat
  BY DEF Types
<1>2. commits[Len(commits)].gen \in {acked.gen, unacked}
  BY <1>1 DEF Live, Retaining
<1>3. commits[i].gen \in Gens /\ commits[Len(commits)].gen \in Gens
  BY <1>1, Held
<1>4. i < Len(commits) => commits[i].gen < commits[Len(commits)].gen
  BY <1>1 DEF Live, Retaining
<1>5. acked.gen <= infos.gen /\ infos.gen \in Int /\ acked.gen \in Int /\ unacked \in Int
  BY BoundAssumption DEF Live, Generations, Types, CommitType
<1> QED BY <1>1, <1>2, <1>3, <1>4, <1>5, BoundAssumption DEF Gens

\* The clone's files are counted, and it becomes the pending commit.
LEMMA ProtectKept ==
  ASSUME Serial, CommitInv, Protect(Me)
  PROVE  CommitInv'
<1> USE Facts
<1> DEFINE I == FilesOf(infos.segs)
           P == FilesOf(pend.info.segs)
<1>1. /\ step = "protect" /\ Then(Me, <<>>) /\ Take(Me, "deleter.mu")
      /\ refs' = IncRefAll(refs, FilesOf(clone.info.segs)) /\ pend' = clone /\ clone' = NoCommit /\ pdirty' = FALSE
      /\ leaks' = IncRefAll(leaks, P)
      /\ UNCHANGED <<disk, content, state, closing, infos, tickets, fresh, backup, dirty, last, commits, todo, errs, acked, committed, undeleted, unacked>>
  BY AtStep DEF Protect
<1>2. state = "open" /\ Live /\ todo = <<>> /\ ~errs
  BY <1>1, Running
<1>3. /\ Routed' /\ left' \in Nat /\ left' = left - 1
      /\ step' = "unlink" /\ aim' = aim /\ aim \in {"finish", "return"}
      /\ aim = "finish" => left = 8
  BY <1>1, TailAdvances DEF FlushStages, PurgeSteps
<1>4. pend' = [info |-> infos, pending |-> FALSE] /\ pend'.info = infos /\ clone.info = infos
  BY <1>1 DEF Committing
<1>5. pend' \in PendType /\ pend' # NoCommit
  <2>1. infos.gen >= 0
    BY BoundAssumption DEF CommitType
  <2>2. NoCommit.info.gen = -1
    BY DEF NoCommit
  <2> QED BY <1>4, <2>1, <2>2 DEF PendType
<1>6. refs \in [Files -> Nat] /\ leaks \in [Files -> Nat] /\ I \subseteq Files /\ P \subseteq Files
  BY PendTypes, FileSets DEF Types, CommitType
<1>7. refs' = IncRefAll(refs, I)
  BY <1>1, <1>4
<1> HIDE DEF I, P
<1>8. /\ refs' \in [Files -> Nat] /\ leaks' \in [Files -> Nat]
      /\ \A f \in Files : refs'[f] = refs[f] + One(I, f)
      /\ \A f \in Files : leaks'[f] = leaks[f] + One(P, f)
      /\ \A S, f : One(S, f) \in {0, 1} /\ (One(S, f) = 1 <=> f \in S)
  <2>1. refs' \in [Files -> Nat] /\ \A f \in Files : refs'[f] = refs[f] + One(I, f)
    BY <1>6, <1>7, RefOps
  <2>2. leaks' \in [Files -> Nat] /\ \A f \in Files : leaks'[f] = leaks[f] + One(P, f)
    BY <1>1, <1>6, RefOps
  <2> QED BY <2>1, <2>2 DEF One
<1>9. Counted'
  <2>1. Pinned' = Pinned
    BY <1>1, <1>3 DEF Pinned
  <2>2. ASSUME NEW f \in Files
        PROVE  refs'[f] = CountOf(commits, f) + One(Pinned, f) + One(I, f) + leaks'[f]
    <3>1. /\ refs[f] = CountOf(commits, f) + One(Pinned, f) + One(P, f) + leaks[f]
          /\ refs[f] \in Nat /\ CountOf(commits, f) \in Nat /\ leaks[f] \in Nat
          /\ One(Pinned, f) \in {0, 1}
      BY <1>2, CountParts DEF Live, P
    <3>2. One(I, f) \in {0, 1} /\ One(P, f) \in {0, 1}
      BY <1>8
    <3> QED BY <1>8, <3>1, <3>2
  <2>3. \A f \in Files : refs'[f] = CountOf(commits, f)' + One(Pinned, f)'
                                    + One(FilesOf(pend.info.segs), f)' + leaks'[f]
    BY <1>1, <1>4, <2>1, <2>2 DEF CountOf, One, I
  <2>4. \A n \in Gens : leaks'[SegsN(n)] = 0
    <3>1. \A n \in Gens : SegsN(n) \in Files /\ SegsN(n) \notin P /\ leaks[SegsN(n)] = 0
      BY <1>2, FileSets DEF Live, Counted, P
    <3>2. \A n \in Gens : One(P, SegsN(n)) = 0
      BY <3>1 DEF One
    <3> QED BY <1>8, <3>1, <3>2
  <2>5. \A f \in FilesOf(infos.segs) : leaks[f] > 0 => leaks'[f] > 0
    BY <1>6, <1>8 DEF I
  <2>6. last' = FilesOf(infos'.segs) \/ (last' = {} /\ \A f \in FilesOf(infos'.segs) : leaks'[f] > 0)
    BY <1>1, <1>2, <1>3, <2>5 DEF Live, Counted
  <2> QED BY <1>1, <1>2, <1>3, <2>3, <2>4, <2>6 DEF Live, Counted
<1>10. GensOnDisk' = GensOnDisk /\ PendingOnDisk' = PendingOnDisk /\ KeptGens' = KeptGens /\ kept' = kept
  BY <1>1, SameFiles
<1>23. unacked = 0 /\ ~Strayed /\ ~Strayed'
  BY <1>1, <1>3 DEF Committing, Strayed
<1>11. Deletions'
  BY <1>1, <1>2, <1>3, <1>10, NonePending, NoBatch
<1>12. OnDisk'
  <2>1. \A f \in Files : refs'[f] > 0 => f \in kept
    <3>1. SUFFICES ASSUME NEW f \in Files, refs'[f] > 0 PROVE f \in kept
      OBVIOUS
    <3>2. refs[f] > 0 \/ f \in I
      BY <1>6, <1>8, <3>1
    <3> QED BY <1>2, <1>23, <3>2 DEF Live, OnDisk, I
  <2> QED BY <1>1, <1>2, <1>10, <1>23, <2>1 DEF Live, OnDisk
<1>13. Retaining'
  <2>1. \A f : ~Doomed(f)
    BY <1>2, Batches
  <2>2. ~(aim = "finish" /\ left <= 2)
    BY <1>3
  <2> QED BY <1>1, <1>2, <1>10, <2>1, <2>2, RetainingKept DEF Live
<1>14. Generations'
  <2>1. infos.gen \in Int /\ infos.gen >= 0
    BY BoundAssumption DEF CommitType
  <2> QED BY <1>1, <1>2, <1>3, <1>4, <1>5, <1>10, <1>23, <2>1 DEF Live, Generations
<1>15. Numbered'
  <2>1. \A s \in infos.segs : s < infos.counter
    <3>1. \A s \in infos.segs : s \in Names /\ Seg(s) \in disk
      BY <1>2, <1>23, FileSets, KeptFiles DEF Live, OnDisk, CommitType
    <3> QED BY <1>2, <3>1 DEF Live, Numbered
  <2>2. \A s \in committed \cup infos.segs : s < infos.counter
    BY <1>2, <2>1 DEF Live, Numbered
  <2> QED BY <1>1, <1>2, <1>4, <1>12, <1>23, <2>2, CountedNames DEF Live
<1>16. Ticketed'
  <2>1. ASSUME NEW i \in 1 .. Len(tickets), tickets[i] # NoSeg PROVE refs'[Seg(tickets[i])] = 0
    <3>1. tickets[i] \in Names /\ refs[Seg(tickets[i])] = 0 /\ tickets[i] \notin infos.segs
      BY <1>2, <2>1 DEF Live, Ticketed, Types
    <3>2. Seg(tickets[i]) \in Files /\ Seg(tickets[i]) \notin I
      BY <3>1, FileSets DEF I
    <3>3. One(I, Seg(tickets[i])) = 0
      BY <3>2 DEF One
    <3> QED BY <1>8, <3>1, <3>2, <3>3
  <2>2. \A f : Doomed(f)' <=> Doomed(f)
    BY <1>1, DoomedKept
  <2> QED BY <1>1, <1>2, <1>10, <2>1, <2>2 DEF Live, Ticketed
<1>17. Durable'
  BY <1>1, <1>10, DurableKept DEF Types
<1>18. lock' \in [Locks -> Procs \cup {None}] /\ lock'["deleter.mu"] = Me
  BY <1>1, LockSteps
<1>19. Types'
  BY <1>1, <1>5, <1>8, <1>18 DEF Types
<1>20. Locked' /\ RollingBack'
  BY <1>1, <1>2, <1>3, <1>18 DEF Locked, RollingBack
<1>21. Committing'
  BY <1>1, <1>2, <1>3, <1>4, <1>5, <1>23 DEF Committing
<1>22. RollbackRestores'
  BY <1>1, <1>2 DEF RollbackRestores
<1> QED BY <1>3, <1>9, <1>11, <1>12, <1>13, <1>14, <1>15, <1>16, <1>17, <1>19, <1>20, <1>21, <1>22 DEF CommitInv, Live


\* The next generation of the pending commit is newer than every commit.
LEMMA NextGen ==
  ASSUME CommitInv, step = "write", aim = "finish", left = 6, ~pend.pending
  PROVE  LET n == pend.info.gen + 1 IN
         /\ state = "open" /\ Live /\ todo = <<>> /\ ~errs /\ pend \in PendType /\ pend # NoCommit
         /\ pend.info \in CommitType /\ pend.info.gen \in Nat /\ n \in Gens /\ n \in Nat
         /\ infos.gen < n /\ infos.gen \in Nat /\ acked.gen < n /\ unacked < n /\ unacked \in Nat
         /\ \A m \in GensOnDisk : m < n
         /\ \A i \in 1 .. Len(commits) : commits[i].gen < n
<1> USE Facts
<1>1. state = "open" /\ Live /\ todo = <<>> /\ ~errs /\ Types
  BY Running
<1>2. pend # NoCommit /\ pend.info.gen < MaxGen
  BY DEF Committing
<1>3. pend \in PendType /\ pend.info \in CommitType /\ pend.info.gen \in 0 .. MaxGen
  BY <1>2, PendTypes
<1>4. pend.info.gen \in Nat /\ pend.info.gen + 1 \in Gens /\ pend.info.gen + 1 \in Nat
  BY <1>2, <1>3, BoundAssumption DEF Gens
<1>5. infos.gen \in Nat /\ acked.gen \in Nat /\ unacked \in Nat
  BY <1>1, BoundAssumption DEF Types, CommitType
<1>6. /\ infos.gen <= pend.info.gen /\ acked.gen <= infos.gen /\ unacked <= pend.info.gen
      /\ \A m \in GensOnDisk : m <= infos.gen \/ m <= unacked
  BY <1>1, <1>2 DEF Live, Generations
<1>7. \A m \in GensOnDisk : m \in Int
  BY DiskGens
<1>8. \A i \in 1 .. Len(commits) : (commits[i].gen <= infos.gen \/ commits[i].gen <= unacked) /\ commits[i].gen \in Int
  BY <1>1, CommitsOld DEF Gens
<1>9. \A i \in 1 .. Len(commits) : commits[i].gen < pend.info.gen + 1
  BY <1>4, <1>5, <1>6, <1>8
<1>10. \A m \in GensOnDisk : m < pend.info.gen + 1
  BY <1>4, <1>5, <1>6, <1>7
<1> QED BY <1>1, <1>2, <1>3, <1>4, <1>5, <1>6, <1>9, <1>10

\* pending_segments_n is written.
LEMMA WriteKept ==
  ASSUME Serial, CommitInv, Write(Me)
  PROVE  CommitInv'
<1> USE Facts
<1> DEFINE n == pend.info.gen + 1
           c == [pend.info EXCEPT !.gen = n]
<1>1. /\ step = "write" /\ Then(Me, <<>>) /\ Take(Me, "mu") /\ ~pend.pending
      /\ disk' = disk \cup {Pending(n)} /\ content' = [content EXCEPT ![n] = c]
      /\ pend' = [info |-> c, pending |-> TRUE]
      /\ UNCHANGED <<state, closing, infos, tickets, fresh, clone, backup, dirty, pdirty, del, hist>>
  BY AtStep DEF Write
<1>2. Routed' /\ left' = 5 /\ left = 6 /\ step' = "rename" /\ aim' = aim /\ aim = "finish"
  BY <1>1, TailAdvances DEF FlushStages, PurgeSteps
<1>3. /\ state = "open" /\ Live /\ todo = <<>> /\ ~errs /\ pend \in PendType /\ pend # NoCommit
      /\ pend.info \in CommitType /\ pend.info.gen \in Nat /\ n \in Gens /\ n \in Nat
      /\ infos.gen < n /\ infos.gen \in Nat /\ acked.gen < n /\ unacked < n /\ unacked \in Nat
      /\ \A m \in GensOnDisk : m < n
      /\ \A i \in 1 .. Len(commits) : commits[i].gen < n
  BY <1>1, <1>2, NextGen
<1>4. c \in CommitType /\ c.gen = n /\ c.segs = pend.info.segs /\ c.counter = pend.info.counter
  BY <1>3 DEF CommitType, Gens
<1>5. pend'.info = c /\ pend' \in PendType /\ pend' # NoCommit
  <2>1. NoCommit.info.gen = -1
    BY DEF NoCommit
  <2> HIDE DEF c
  <2> QED BY <1>1, <1>3, <1>4, <2>1 DEF PendType
<1> HIDE DEF c
<1>6. content \in [Gens -> CommitType] /\ content' \in [Gens -> CommitType] /\ content'[n] = c
  BY <1>1, <1>3, <1>4 DEF Types
<1>7. \A m \in Gens : m # n => content'[m] = content[m]
  BY <1>1, <1>6
<1> HIDE DEF n
<1>8. GensOnDisk' = GensOnDisk /\ KeptGens' = KeptGens /\ \A m \in GensOnDisk : m \in Gens /\ m # n /\ content'[m] = content[m]
  <2>1. GensOnDisk' = GensOnDisk
    BY <1>1, FileNames DEF GensOnDisk
  <2>2. \A m \in GensOnDisk : m \in Gens /\ m # n
    BY <1>3, DiskGens
  <2>3. KeptGens' = KeptGens
    BY <1>1, <2>1 DEF KeptGens, hist
  <2> QED BY <1>7, <2>1, <2>2, <2>3
<1>24. /\ \A f \in Files : f \in kept => f \in kept'
       /\ \A s \in Names : Seg(s) \in kept => Seg(s) \in kept'
       /\ ~Strayed /\ ~Strayed'
  BY <1>1, <1>2 DEF kept, hist, Strayed
<1>9. \A m \in PendingOnDisk' : m = n /\ Pending(m) \notin undeleted'
  <2>1. \A m \in PendingOnDisk : FALSE
    BY <1>1, <1>3, NonePending
  <2>2. Pending(n) \notin disk
    BY <1>3, <2>1 DEF PendingOnDisk
  <2>3. Pending(n) \notin undeleted'
    BY <1>1, <2>2 DEF Types, hist
  <2> QED BY <1>1, <2>1, <2>3, FileNames DEF PendingOnDisk
<1>10. Deletions'
  BY <1>1, <1>2, <1>3, <1>4, <1>5, <1>9, NoBatch DEF del
<1>11. Durable'
  <2>1. \A m \in KeptGens : Whole(m)'
    <3>1. kept \subseteq kept'
      BY <1>1 DEF kept, hist
    <3> QED BY <1>8, <3>1, KeptFiles DEF Durable, Whole
  <2>2. acked.gen \in GensOnDisk => content'[acked.gen] = acked
    BY <1>8 DEF Durable
  <2>3. \A m : Outlived(m)' <=> Outlived(m)
    BY <1>8 DEF Outlived
  <2> QED BY <1>1, <1>8, <2>1, <2>2, <2>3 DEF Durable, hist
<1>12. Retaining'
  <2>1. \A i \in 1 .. Len(commits) : commits[i].gen > 0 /\ commits[i] = content'[commits[i].gen]
    <3>1. \A i \in 1 .. Len(commits) : commits[i].gen \in Gens /\ commits[i].gen # n
      BY <1>3, Held
    <3> QED BY <1>3, <1>7, <3>1 DEF Live, Retaining
  <2>2. \A f : Doomed(f) => Doomed(f)'
    BY <1>1, DoomedKept DEF del
  <2>3. \A m \in GensOnDisk :
          \/ \E i \in 1 .. Len(commits) : commits[i].gen = m
          \/ /\ Len(commits) = Keep /\ \A i \in 1 .. Len(commits) : m < commits[i].gen
             /\ Doomed(SegsN(m))' \/ m \notin KeptGens
    BY <1>1, <1>3, <2>2 DEF Live, Retaining
  <2> QED BY <1>1, <1>2, <1>3, <1>8, <2>1, <2>3 DEF Live, Retaining, del, hist
<1>13. Generations'
  BY <1>1, <1>2, <1>3, <1>4, <1>5, <1>8 DEF Live, Generations, hist
<1>14. Numbered'
  BY <1>1, <1>3, <1>4, <1>5, FileNames, NumberedKept DEF Live, del, hist
<1>15. Ticketed'
  BY <1>1, <1>3, <1>24, TicketedKept DEF Live, Types, del
<1>16. Counted'
  BY <1>1, <1>2, <1>3, <1>4, <1>5, CountedKept DEF Live, del, hist
<1>17. OnDisk'
  BY <1>1, <1>2, <1>3, <1>24, OnDiskKept DEF Live, CommitType, del
<1>18. lock' \in [Locks -> Procs \cup {None}] /\ lock'["deleter.mu"] = lock["deleter.mu"]
  BY <1>1, LockSteps
<1>19. Types'
  BY <1>1, <1>3, <1>5, <1>6, <1>18 DEF Types, del, hist, PendingFiles
<1>20. Locked'
  BY <1>1, <1>2, <1>18, LockedKept DEF del
<1>21. Committing'
  BY <1>1, <1>2, <1>3, <1>4, <1>5, <1>6 DEF Committing, del, hist
<1>22. RollingBack'
  BY <1>2 DEF RollingBack
<1>23. RollbackRestores'
  BY <1>1, <1>3 DEF RollbackRestores
<1> QED BY <1>2, <1>10, <1>11, <1>12, <1>13, <1>14, <1>15, <1>16, <1>17, <1>19, <1>20, <1>21, <1>22, <1>23
    DEF CommitInv, Live

\* The write of pending_segments_n fails; the generation has moved on.
LEMMA WriteFailsKept ==
  ASSUME Serial, CommitInv, WriteFails(Me)
  PROVE  CommitInv'
<1> USE Facts
<1> DEFINE n == pend.info.gen + 1
<1>1. /\ step = "write" /\ Return(Me) /\ ~pend.pending /\ pend' = [pend EXCEPT !.info.gen = n]
      /\ UNCHANGED <<disk, content, state, closing, infos, tickets, fresh, clone, backup, dirty, pdirty, del, acked, committed, leaks, undeleted, unacked>>
  BY AtStep DEF WriteFails
<1>2. Routed' /\ left' = 0 /\ step' = "end" /\ aim' = "end" /\ aim = "finish" /\ left = 6
  <2>1. Routed' /\ left' = 0 /\ step' = "end" /\ aim' = "end"
    BY <1>1, Returned DEF Return
  <2> QED BY <1>1, <2>1, Rest DEF Spot, FlushStages, PurgeSteps
<1>3. /\ state = "open" /\ Live /\ todo = <<>> /\ ~errs /\ pend \in PendType /\ pend # NoCommit
      /\ pend.info \in CommitType /\ pend.info.gen \in Nat /\ n \in Gens /\ n \in Nat
      /\ infos.gen < n /\ infos.gen \in Nat /\ unacked < n /\ unacked \in Nat
  BY <1>1, <1>2, NextGen
<1>4. /\ pend'.info \in CommitType /\ pend' \in PendType /\ pend'.info.gen = n
      /\ pend'.info.segs = pend.info.segs /\ pend'.info.counter = pend.info.counter
  BY <1>1, <1>3 DEF PendType, CommitType, Gens
<1>5. /\ GensOnDisk' = GensOnDisk /\ PendingOnDisk' = PendingOnDisk /\ KeptGens' = KeptGens /\ kept' = kept
      /\ ~Strayed /\ ~Strayed' /\ ~Starting
  BY <1>1, <1>2, <1>3, SameFiles DEF Strayed, Starting
<1>6. Deletions'
  BY <1>1, <1>2, <1>3, <1>5, DeletionsKept DEF Live, del
<1>7. Retaining'
  <2>1. \A f : Doomed(f) => Doomed(f)'
    BY <1>1, DoomedKept DEF del
  <2> QED BY <1>1, <1>2, <1>3, <1>5, <2>1, RetainingKept DEF Live, del
<1>8. Generations'
  <2>1. pend' # NoCommit
    BY <1>3, <1>4 DEF NoCommit
  <2> QED BY <2>1, <1>1, <1>2, <1>3, <1>4, <1>5 DEF Live, Generations
<1>9. Numbered'
  BY <1>1, <1>3, <1>4, NumberedKept DEF Live, del
<1>10. Ticketed' /\ OnDisk'
  BY <1>1, <1>2, <1>3, <1>5, TicketedKept, OnDiskKept DEF Live, Types, CommitType, del
<1>11. Counted'
  BY <1>1, <1>2, <1>3, <1>4, CountedKept DEF Live, del
<1>12. Durable'
  BY <1>1, <1>5, DurableKept DEF Types
<1>13. lock' \in [Locks -> Procs \cup {None}] /\ lock'["deleter.mu"] = None
  BY <1>1, LockSteps
<1>14. Types'
  BY <1>1, <1>4, <1>13, TypesKept DEF del
<1>15. Locked' /\ Committing' /\ RollingBack' /\ RollbackRestores'
  BY <1>1, <1>2, <1>3, <1>13 DEF Locked, Committing, RollingBack, RollbackRestores, del
<1> QED BY <1>2, <1>6, <1>7, <1>8, <1>9, <1>10, <1>11, <1>12, <1>14, <1>15 DEF CommitInv, Live

\* A commit that has its content recorded and is not registered yet.
LEMMA Recorded ==
  ASSUME CommitInv, step \in {"rename", "sync", "register"}, aim = "finish", left \in 3 .. 5
  PROVE  LET n == pend.info.gen IN
         /\ state = "open" /\ Live /\ todo = <<>> /\ ~errs /\ pend \in PendType /\ pend # NoCommit
         /\ pend.info \in CommitType /\ n \in Gens /\ n \in Nat /\ content[n] = pend.info
         /\ infos.gen < n /\ acked.gen < n /\ unacked < n /\ unacked \in Nat
         /\ \A i \in 1 .. Len(commits) : commits[i].gen \in Gens /\ commits[i].gen < n
         /\ refs[SegsN(n)] = 0
<1> USE Facts
<1> DEFINE n == pend.info.gen
<1>1. state = "open" /\ Live /\ todo = <<>> /\ ~errs /\ Types
  BY Running
<1>2. pend # NoCommit /\ n \in Gens /\ content[n] = pend.info /\ infos.gen < n /\ unacked < n
  BY DEF Committing
<1>3. pend \in PendType /\ pend.info \in CommitType /\ pend.info.segs \subseteq Names
  BY <1>2, PendTypes
<1>4. n \in Nat
  BY <1>2, BoundAssumption DEF Gens
<1>5. infos.gen \in Nat /\ acked.gen \in Nat /\ acked.gen <= infos.gen /\ unacked \in Nat
  BY <1>1, BoundAssumption DEF Types, CommitType, Live, Generations
<1>6. acked.gen < n
  BY <1>2, <1>4, <1>5
<1>7. \A i \in 1 .. Len(commits) : commits[i].gen \in Gens /\ commits[i].gen < n
  <2>1. \A i \in 1 .. Len(commits) : (commits[i].gen <= infos.gen \/ commits[i].gen <= unacked) /\ commits[i].gen \in Gens
    BY <1>1, CommitsOld
  <2> QED BY <1>2, <1>4, <1>5, <2>1, BoundAssumption DEF Gens
<1>8. refs[SegsN(n)] = 0
  <2>1. SegsN(n) \in Files
    BY <1>2, FileSets
  <2>2. CountOf(commits, SegsN(n)) = 0
    <3>1. \A i \in 1 .. Len(commits) : SegsN(n) \notin CommitFiles(commits[i])
      BY <1>4, <1>7, FileSets
    <3>2. CountOf(commits, SegsN(n)) \in Nat /\ ~(CountOf(commits, SegsN(n)) > 0)
      BY <1>1, <3>1, CountType DEF Types
    <3> QED BY <3>2
  <2>3. SegsN(n) \notin Pinned
    <3>1. Pinned = FilesOf(infos.segs) \/ Pinned = {}
      BY <1>1 DEF Pinned, Live, Counted
    <3> QED BY <3>1, FileSets
  <2>4. SegsN(n) \notin FilesOf(pend.info.segs) /\ leaks[SegsN(n)] = 0
    BY <1>1, <1>2, FileSets DEF Live, Counted
  <2>5. One(Pinned, SegsN(n)) = 0 /\ One(FilesOf(pend.info.segs), SegsN(n)) = 0
    BY <2>3, <2>4 DEF One
  <2>6. /\ refs[SegsN(n)] = CountOf(commits, SegsN(n)) + One(Pinned, SegsN(n))
                             + One(FilesOf(pend.info.segs), SegsN(n)) + leaks[SegsN(n)]
    BY <1>1, <2>1, CountParts DEF Live
  <2> QED BY <2>2, <2>4, <2>5, <2>6
<1> QED BY <1>1, <1>2, <1>3, <1>4, <1>5, <1>6, <1>7, <1>8

\* pending_segments_n becomes segments_n.
LEMMA RenameKept ==
  ASSUME Serial, CommitInv, Rename(Me)
  PROVE  CommitInv'
<1> USE Facts
<1> DEFINE n == pend.info.gen
<1>1. /\ step = "rename" /\ Then(Me, <<>>) /\ disk' = (disk \ {Pending(n)}) \cup {SegsN(n)}
      /\ UNCHANGED <<content, state, mem, del, lock, hist>>
  BY AtStep DEF Rename
<1>2. Routed' /\ left' = 4 /\ left = 5 /\ step' = "sync" /\ aim' = aim /\ aim = "finish"
  BY <1>1, TailAdvances DEF FlushStages, PurgeSteps
<1>3. /\ state = "open" /\ Live /\ todo = <<>> /\ ~errs /\ pend \in PendType /\ pend # NoCommit
      /\ pend.info \in CommitType /\ n \in Gens /\ n \in Nat /\ content[n] = pend.info
      /\ infos.gen < n /\ acked.gen < n /\ unacked < n /\ unacked \in Nat
  <2>1. left \in 3 .. 5
    BY <1>2
  <2> QED BY <1>1, <1>2, <2>1, Recorded
<1>4. /\ GensOnDisk' = GensOnDisk \cup {n} /\ PendingOnDisk' = {}
      /\ \A s : Seg(s) \in disk' <=> Seg(s) \in disk
      /\ \A f \in Files : f \in disk => f \in disk'
      /\ \A f \in Files : f \in kept => f \in kept'
      /\ KeptGens' = KeptGens \cup {n} /\ SegsN(n) \in kept' /\ undeleted' \subseteq disk'
  <2>1. \A m \in PendingOnDisk : m = n
    BY <1>3, NonePending
  <2>2. PendingOnDisk' = {}
    BY <1>1, <2>1, FileNames DEF PendingOnDisk
  <2>3. \A f \in Files : f # Pending(n)
    BY FileSets
  <2>4. GensOnDisk' = GensOnDisk \cup {n} /\ \A s : Seg(s) \in disk' <=> Seg(s) \in disk
    BY <1>1, <1>3, FileNames DEF GensOnDisk
  <2>5. n \notin GensOnDisk /\ SegsN(n) \notin undeleted
    <3>1. \A m \in GensOnDisk : m # n
      <4>1. \A m \in GensOnDisk : m <= infos.gen \/ m <= unacked
        BY <1>2, <1>3 DEF Live, Generations
      <4>2. infos.gen \in Int /\ \A m \in GensOnDisk : m \in Int
        BY BoundAssumption, DiskGens DEF CommitType
      <4> QED BY <1>3, <4>1, <4>2
    <3> QED BY <1>3, <3>1 DEF Types, GensOnDisk
  <2>6. undeleted' = undeleted /\ undeleted \subseteq disk
    BY <1>1 DEF hist, Types
  <2>7. Pending(n) \notin undeleted
    <3>1. Pending(n) \in disk => n \in PendingOnDisk
      BY <1>3 DEF PendingOnDisk
    <3> QED BY <1>3, <2>6, <3>1, NonePending
  <2>8. KeptGens' = KeptGens \cup {n}
    BY <2>4, <2>5, <2>6 DEF KeptGens
  <2>9. SegsN(n) \in kept' /\ \A f \in Files : f \in kept => f \in kept'
    BY <1>1, <2>3, <2>5, <2>6 DEF kept
  <2>10. undeleted' \subseteq disk'
    BY <1>1, <2>6, <2>7
  <2> QED BY <1>1, <2>2, <2>3, <2>4, <2>8, <2>9, <2>10
<1>5. pend' = pend /\ infos' = infos /\ clone' = clone /\ tickets' = tickets /\ backup' = backup
  BY <1>1 DEF mem
<1>6. \A m \in KeptGens' : Whole(m)'
  <2>1. \A f \in Files : f \in kept => f \in kept'
    BY <1>4
  <2>2. ASSUME NEW m \in KeptGens PROVE Whole(m)'
    <3>1. content[m] \in CommitType /\ FilesOf(content[m].segs) \subseteq kept
      BY DiskGens, KeptFiles DEF Durable, Whole, Types
    <3>2. FilesOf(content[m].segs) \subseteq Files
      BY <3>1, FileSets DEF CommitType
    <3> QED BY <1>1, <2>1, <3>1, <3>2 DEF Whole
  <2>3. Whole(n)'
    <3>1. \A f \in FilesOf(pend.info.segs) : f \in Files /\ f \in kept
      BY <1>3, Held
    <3> QED BY <1>1, <1>3, <1>5, <2>1, <3>1 DEF Whole
  <2> QED BY <1>4, <1>5, <2>2, <2>3
<1> HIDE DEF n
<1>8. Durable'
  <2>1. \A m \in GensOnDisk' : content[m].gen = m
    BY <1>3, <1>4 DEF Durable, n
  <2>2. acked.gen \in GensOnDisk' => content[acked.gen] = acked
    <3>1. acked.gen # n
      BY <1>3 DEF Types, CommitType
    <3> QED BY <1>4, <3>1 DEF Durable
  <2>3. \A m \in GensOnDisk', s \in committed : m >= acked.gen => s < content[m].counter
    <3>1. \A s \in committed : s < content[n].counter
      BY <1>3 DEF Live, Numbered
    <3> QED BY <1>4, <3>1 DEF Durable
  <2>4. acked.gen > 0 => \E m \in KeptGens' : m >= acked.gen
    BY <1>4 DEF Durable
  <2>5. \A m \in GensOnDisk' : \E k \in KeptGens' : m <= k
    <3>1. n <= n /\ n \in KeptGens'
      BY <1>3, <1>4
    <3> QED BY <1>4, <3>1 DEF Durable
  <2>6. \A m \in GensOnDisk' : m \in KeptGens' \/ Outlived(m)'
    <3>1. ASSUME NEW m, Outlived(m) PROVE Outlived(m)'
      <4>1. PICK w \in [1 .. Keep -> KeptGens] :
              \A i, j \in 1 .. Keep : w[i] > m /\ (i # j => w[i] # w[j])
        BY <3>1 DEF Outlived
      <4>2. w \in [1 .. Keep -> KeptGens']
        BY <1>4
      <4> QED BY <4>1, <4>2 DEF Outlived
    <3> QED BY <1>4, <3>1 DEF Durable
  <2> QED BY <1>1, <1>6, <2>1, <2>2, <2>3, <2>4, <2>5, <2>6 DEF Durable, hist
<1>9. Deletions'
  BY <1>1, <1>2, <1>3, <1>4, NoBatch DEF del
<1>10. Retaining'
  <2>1. \A f : Doomed(f) => Doomed(f)'
    BY <1>1, DoomedKept DEF del
  <2>3. \A m \in KeptGens' : m \in KeptGens \/ m = n
    BY <1>4
  <2>2. \A m \in GensOnDisk' :
          \/ \E i \in 1 .. Len(commits) : commits[i].gen = m
          \/ /\ Len(commits) = Keep /\ \A i \in 1 .. Len(commits) : m < commits[i].gen
             /\ Doomed(SegsN(m))' \/ m \notin KeptGens'
          \/ step' \in {"sync", "register"} /\ m = n
    BY <1>1, <1>2, <1>3, <1>4, <2>1, <2>3 DEF Live, Retaining
  <2> QED BY <1>1, <1>2, <1>3, <1>5, <2>2 DEF Live, Retaining, del, hist, n
<1>11. Generations'
  BY <1>1, <1>2, <1>3, <1>4, <1>5 DEF Live, Generations, hist, n
<1>12. Numbered'
  BY <1>1, <1>3, <1>4, <1>5, NumberedKept DEF Live, del, hist
<1>13. Ticketed' /\ OnDisk'
  <2>1. ~Strayed /\ ~Strayed'
    BY <1>1, <1>2 DEF Strayed
  <2>2. \A s \in Names : Seg(s) \in kept => Seg(s) \in kept'
    BY <1>4, FileSets
  <2>3. OnDisk'
    BY <1>1, <1>2, <1>3, <1>4, <1>5, <2>1, OnDiskKept DEF Live, CommitType, del
  <2> QED BY <1>1, <1>3, <1>5, <2>2, <2>3, TicketedKept DEF Live, Types, del
<1>14. Counted'
  BY <1>1, <1>2, <1>3, <1>5, CountedKept DEF Live, del, hist
<1>15. Types'
  <2>1. disk' \subseteq Files \cup PendingFiles
    BY <1>1, <1>3, FileSets DEF Types
  <2> QED BY <1>1, <1>4, <2>1 DEF Types, mem, del, hist
<1>16. Locked'
  BY <1>1, <1>2, LockedKept DEF del
<1>17. Committing' /\ RollingBack' /\ RollbackRestores'
  BY <1>1, <1>2, <1>3, <1>4, <1>5 DEF Committing, RollingBack, RollbackRestores, n, hist
<1> QED BY <1>2, <1>8, <1>9, <1>10, <1>11, <1>12, <1>13, <1>14, <1>15, <1>16, <1>17 DEF CommitInv, Live

\* The rename fails and pending_segments_n is deleted.
LEMMA RenameFailsKept ==
  ASSUME Serial, CommitInv, RenameFails(Me)
  PROVE  CommitInv'
<1> USE Facts
<1> DEFINE n == pend.info.gen
<1>1. /\ step = "rename" /\ Return(Me) /\ disk' = disk \ {Pending(n)}
      /\ UNCHANGED <<content, state, mem, del, acked, committed, leaks, undeleted, unacked>>
  BY AtStep DEF RenameFails
<1>2. Routed' /\ left' = 0 /\ step' = "end" /\ aim' = "end" /\ aim = "finish" /\ left = 5
  <2>1. Routed' /\ left' = 0 /\ step' = "end" /\ aim' = "end"
    BY <1>1, Returned DEF Return
  <2> QED BY <1>1, <2>1, Rest DEF Spot, FlushStages, PurgeSteps
<1>3. /\ state = "open" /\ Live /\ todo = <<>> /\ ~errs
  BY <1>1, Running
<1>4. /\ GensOnDisk' = GensOnDisk /\ PendingOnDisk' = {}
      /\ \A s : Seg(s) \in disk' <=> Seg(s) \in disk
      /\ \A f \in Files : f \in disk => f \in disk'
      /\ \A f \in Files : f \in kept => f \in kept'
      /\ KeptGens' = KeptGens /\ undeleted' \subseteq disk'
  <2>1. \A m \in PendingOnDisk : m = n
    BY <1>3, NonePending
  <2>2. PendingOnDisk' = {}
    BY <1>1, <2>1, FileNames DEF PendingOnDisk
  <2>3. \A f \in Files : f # Pending(n)
    BY FileSets
  <2>4. GensOnDisk' = GensOnDisk /\ \A s : Seg(s) \in disk' <=> Seg(s) \in disk
    BY <1>1, FileNames DEF GensOnDisk
  <2>5. undeleted' = undeleted /\ undeleted \subseteq disk
    BY <1>1 DEF Types
  <2>6. n \in Gens
    BY <1>2 DEF Committing
  <2>7. Pending(n) \notin undeleted
    <3>1. Pending(n) \in disk => n \in PendingOnDisk
      BY <2>6 DEF PendingOnDisk
    <3> QED BY <1>3, <2>5, <3>1, NonePending
  <2>8. KeptGens' = KeptGens
    BY <2>4, <2>5 DEF KeptGens
  <2>9. \A f \in Files : f \in kept => f \in kept'
    BY <1>1, <2>3, <2>5 DEF kept
  <2>10. undeleted' \subseteq disk'
    BY <1>1, <2>5, <2>7
  <2> QED BY <1>1, <2>2, <2>3, <2>4, <2>8, <2>9, <2>10
<1>5. pend' = pend /\ infos' = infos /\ clone' = clone /\ tickets' = tickets /\ backup' = backup
  BY <1>1 DEF mem
<1>6. Deletions'
  BY <1>1, <1>2, <1>3, <1>4, NoBatch DEF del
<1>7. Retaining'
  <2>1. \A f : Doomed(f) => Doomed(f)'
    BY <1>1, DoomedKept DEF del
  <2> QED BY <1>1, <1>2, <1>3, <1>4, <1>5, <2>1, RetainingKept DEF Live, del
<1>8. Generations'
  BY <1>1, <1>2, <1>3, <1>4, <1>5 DEF Live, Generations
<1>9. Numbered'
  BY <1>1, <1>3, <1>4, <1>5, NumberedKept DEF Live, del
<1>10. Ticketed' /\ OnDisk'
  <2>1. ~Strayed /\ ~Strayed'
    BY <1>1, <1>2 DEF Strayed
  <2>2. \A s \in Names : Seg(s) \in kept => Seg(s) \in kept'
    BY <1>4, FileSets
  <2>3. OnDisk'
    BY <1>1, <1>2, <1>3, <1>4, <1>5, <2>1, OnDiskKept DEF Live, CommitType, del
  <2> QED BY <1>1, <1>3, <1>5, <2>2, <2>3, TicketedKept DEF Live, Types, del
<1>11. Counted'
  BY <1>1, <1>2, <1>3, <1>5, CountedKept DEF Live, del
<1>12. Durable'
  <2>1. \A s \in Names : Seg(s) \in kept => Seg(s) \in kept'
    BY <1>4, FileSets
  <2> QED BY <1>1, <1>4, <2>1, DurableKept DEF Types
<1>13. lock' \in [Locks -> Procs \cup {None}] /\ lock'["deleter.mu"] = None
  BY <1>1, LockSteps
<1>14. Types'
  BY <1>1, <1>4, <1>13 DEF Types, mem, del
<1>15. Locked' /\ Committing' /\ RollingBack' /\ RollbackRestores'
  BY <1>1, <1>2, <1>3, <1>13 DEF Locked, Committing, RollingBack, RollbackRestores, del
<1> QED BY <1>2, <1>6, <1>7, <1>8, <1>9, <1>10, <1>11, <1>12, <1>14, <1>15 DEF CommitInv, Live

\* The sync of the metadata fails and segments_n is removed.
LEMMA SyncFailsKept ==
  ASSUME Serial, CommitInv, SyncFails(Me)
  PROVE  CommitInv'
<1> USE Facts
<1> DEFINE n == pend.info.gen
<1>1. /\ step = "sync" /\ Return(Me) /\ disk' = disk \ {SegsN(n)}
      /\ UNCHANGED <<content, state, mem, del, acked, committed, leaks, undeleted, unacked>>
  BY AtStep DEF SyncFails
<1>2. Routed' /\ left' = 0 /\ step' = "end" /\ aim' = "end" /\ aim = "finish" /\ left = 4
  <2>1. Routed' /\ left' = 0 /\ step' = "end" /\ aim' = "end"
    BY <1>1, Returned DEF Return
  <2> QED BY <1>1, <2>1, Rest DEF Spot, FlushStages, PurgeSteps
<1>3. /\ state = "open" /\ Live /\ todo = <<>> /\ ~errs /\ n \in Gens /\ n \in Nat
      /\ \A i \in 1 .. Len(commits) : commits[i].gen \in Gens /\ commits[i].gen < n
      /\ refs[SegsN(n)] = 0
  <2>1. left \in 3 .. 5
    BY <1>2
  <2> QED BY <1>1, <1>2, <2>1, Recorded
<1>4. /\ GensOnDisk' = GensOnDisk \ {n} /\ PendingOnDisk' = {}
      /\ \A s : Seg(s) \in disk' <=> Seg(s) \in disk
      /\ \A f : f \in kept /\ f # SegsN(n) => f \in kept'
      /\ KeptGens' = KeptGens \ {n} /\ undeleted' \subseteq disk'
  <2>1. \A m \in PendingOnDisk : FALSE
    BY <1>1, <1>3, NonePending
  <2>2. PendingOnDisk' = {}
    BY <1>1, <2>1 DEF PendingOnDisk
  <2>3. GensOnDisk' = GensOnDisk \ {n} /\ \A s : Seg(s) \in disk' <=> Seg(s) \in disk
    BY <1>1, FileNames DEF GensOnDisk
  <2>4. undeleted' = undeleted /\ undeleted \subseteq disk /\ SegsN(n) \in kept
    BY <1>1, <1>2 DEF Types, Committing
  <2>5. KeptGens' = KeptGens \ {n}
    BY <2>3, <2>4 DEF KeptGens
  <2>6. undeleted' \subseteq disk' /\ \A f : f \in kept /\ f # SegsN(n) => f \in kept'
    BY <1>1, <2>4 DEF kept
  <2> QED BY <2>2, <2>3, <2>5, <2>6
<1>5. pend' = pend /\ infos' = infos /\ clone' = clone /\ tickets' = tickets /\ backup' = backup
  BY <1>1 DEF mem
<1>6. Deletions'
  BY <1>1, <1>2, <1>3, <1>4, NoBatch DEF del
<1>7. Retaining'
  <2>1. \A f : Doomed(f) => Doomed(f)'
    BY <1>1, DoomedKept DEF del
  <2>2. \A m \in GensOnDisk' :
          \/ \E i \in 1 .. Len(commits) : commits[i].gen = m
          \/ /\ Len(commits) = Keep /\ \A i \in 1 .. Len(commits) : m < commits[i].gen
             /\ Doomed(SegsN(m))' \/ m \notin KeptGens'
    BY <1>1, <1>3, <1>4, <2>1 DEF Live, Retaining
  <2> QED BY <1>1, <1>2, <1>3, <1>5, <2>2 DEF Live, Retaining, del
<1>8. Generations'
  BY <1>1, <1>2, <1>3, <1>4, <1>5 DEF Live, Generations
<1>9. Numbered'
  BY <1>1, <1>3, <1>4, <1>5, NumberedKept DEF Live, del
<1>10. Ticketed'
  <2>1. \A s \in Names : Seg(s) \in kept => Seg(s) \in kept'
    BY <1>4, FileNames
  <2> QED BY <2>1, <1>1, <1>3, <1>4, <1>5, TicketedKept DEF Live, Types, del
<1>11. OnDisk'
  <2>1. SegsN(n) \notin FilesOf(infos.segs)
    BY FileSets
  <2>2. ~Strayed /\ ~Strayed'
    BY <1>1, <1>2 DEF Strayed
  <2>3. \A f \in Files : refs'[f] > 0 => f \in kept'
    BY <1>1, <1>3, <1>4, <2>2 DEF Live, OnDisk, del
  <2>4. FilesOf(infos'.segs) \subseteq kept'
    BY <1>3, <1>4, <1>5, <2>1, <2>2 DEF Live, OnDisk
  <2> QED BY <2>2, <2>3, <2>4 DEF OnDisk
<1>12. Counted'
  BY <1>1, <1>2, <1>3, <1>5, CountedKept DEF Live, del
<1>13. Durable'
  <2>1. (\A m \in GensOnDisk' : content[m].gen = m) /\ \A m \in KeptGens' : Whole(m)'
    <3>1. (\A m \in GensOnDisk' : m \in GensOnDisk) /\ \A m \in KeptGens' : m \in KeptGens /\ SegsN(n) \notin FilesOf(content[m].segs)
      BY <1>4, FileSets
    <3> QED BY <1>1, <1>4, <3>1 DEF Durable, Whole
  <2>2. acked.gen > 0 => \E m \in KeptGens' : m >= acked.gen
    <3>1. SUFFICES ASSUME acked.gen > 0 PROVE \E m \in KeptGens' : m >= acked.gen
      OBVIOUS
    <3> DEFINE c == commits[Len(commits)]
    <3>2. Active
      BY <1>3 DEF Active
    <3>3. Len(commits) \in 1 .. Len(commits) /\ c.gen >= acked.gen /\ c.gen \in KeptGens
      BY <3>1, <3>2, LastCommit
    <3>4. c.gen < n /\ c.gen \in Int
      BY <1>3, <3>3 DEF Gens
    <3>5. c.gen \in KeptGens'
      BY <1>3, <1>4, <3>3, <3>4
    <3> QED BY <3>3, <3>5
  <2>3. \A m \in GensOnDisk' : \E k \in KeptGens' : m <= k
    <3>1. SUFFICES ASSUME NEW m \in GensOnDisk' PROVE \E k \in KeptGens' : m <= k
      OBVIOUS
    <3> DEFINE c == commits[Len(commits)]
    <3>2. Active /\ m \in GensOnDisk /\ m # n /\ m \in Int
      BY <1>3, <1>4, DiskGens DEF Active
    <3>3. commits # <<>> /\ m <= c.gen
      <4>1. CASE \E i \in 1 .. Len(commits) : commits[i].gen = m
        <5>1. PICK i \in 1 .. Len(commits) : commits[i].gen = m
          BY <4>1
        <5>2. Len(commits) \in 1 .. Len(commits) /\ commits # <<>> /\ (i < Len(commits) \/ i = Len(commits))
          BY <5>1 DEF Types
        <5>3. c.gen \in Int
          BY <1>3, <5>2 DEF Gens
        <5>4. i < Len(commits) => commits[i].gen < c.gen
          BY <1>3, <5>2 DEF Live, Retaining
        <5> QED BY <3>2, <5>1, <5>2, <5>3, <5>4
      <4>2. CASE ~(\E i \in 1 .. Len(commits) : commits[i].gen = m)
        <5>1. Len(commits) = Keep /\ \A i \in 1 .. Len(commits) : m < commits[i].gen
          BY <1>3, <3>2, <4>2 DEF Live, Retaining
        <5>2. commits # <<>> /\ Len(commits) \in 1 .. Len(commits)
          BY <5>1, LastOfAll DEF Types
        <5>3. c.gen \in Int
          BY <1>3, <5>2 DEF Gens
        <5> QED BY <3>2, <5>1, <5>2, <5>3
      <4> QED BY <4>1, <4>2
    <3>4. Len(commits) \in 1 .. Len(commits) /\ c.gen \in KeptGens
      BY <3>2, <3>3, LastCommit
    <3>5. c.gen < n /\ c.gen \in Int
      BY <1>3, <3>4 DEF Gens
    <3>6. c.gen \in KeptGens'
      BY <1>3, <1>4, <3>4, <3>5
    <3> QED BY <3>3, <3>6
  <2>4. ASSUME NEW m \in GensOnDisk', m \notin KeptGens' PROVE Outlived(m)'
    <3>1. \A i \in 1 .. Len(commits) : commits[i].gen \in KeptGens'
      <4>1. SUFFICES ASSUME NEW i \in 1 .. Len(commits) PROVE commits[i].gen \in KeptGens'
        OBVIOUS
      <4>2. commits[i].gen \in Gens /\ commits[i].gen # n
        BY <1>3 DEF Gens
      <4>3. SegsN(commits[i].gen) \in kept
        BY <1>3, Held, FileSets
      <4> QED BY <1>4, <4>2, <4>3, KeptFiles
    <3>2. m \in GensOnDisk /\ m # n
      BY <1>4
    <3>3. Len(commits) = Keep /\ \A i \in 1 .. Len(commits) : m < commits[i].gen
      BY <1>3, <2>4, <3>1, <3>2 DEF Live, Retaining
    <3> QED BY <1>3, <3>1, <3>3, Supplanted DEF Live, Retaining
  <2> QED BY <1>1, <1>4, <2>1, <2>2, <2>3, <2>4 DEF Durable
<1>14. lock' \in [Locks -> Procs \cup {None}] /\ lock'["deleter.mu"] = None
  BY <1>1, LockSteps
<1>15. Types'
  BY <1>1, <1>4, <1>14 DEF Types, mem, del
<1>16. Locked' /\ Committing' /\ RollingBack' /\ RollbackRestores'
  BY <1>1, <1>2, <1>3, <1>14 DEF Locked, Committing, RollingBack, RollbackRestores, del
<1> QED BY <1>2, <1>6, <1>7, <1>8, <1>9, <1>10, <1>11, <1>12, <1>13, <1>15, <1>16 DEF CommitInv, Live

\* deleteCommits: the counts without those of the commits deleted, and in each
\* batch the files that no later commit holds, nor anybody else.
LEMMA Deleted ==
  ASSUME NEW A, NEW cs \in Seq(A), NEW r \in [Files -> Nat],
         \A f \in Files : Before(cs, Len(cs), f) <= r[f],
         \A i \in 1 .. Len(cs) : CommitFiles(cs[i]) \subseteq Files
  PROVE  LET d == DeleteCommits(r, cs) IN
         /\ d.refs \in [Files -> Nat] /\ \A f \in Files : d.refs[f] = r[f] - Before(cs, Len(cs), f)
         /\ d.batch \in Seq(SUBSET Files) /\ Len(d.batch) = Len(cs)
         /\ \A i \in 1 .. Len(cs) : \A f : f \in d.batch[i] <=>
              f \in CommitFiles(cs[i]) /\ r[f] = Before(cs, i - 1, f) + 1
<1> DEFINE n == Len(cs)
           Is(g) == g = [i \in 0 .. n |-> IF i = 0 THEN r ELSE DecRefs(g[i - 1], CommitFiles(cs[i]))]
           After == CHOOSE g : Is(g)
           b == [i \in 1 .. n |-> Zeroed(After[i - 1], CommitFiles(cs[i]))]
           d == DeleteCommits(r, cs)
           w == [i \in 0 .. n |-> [f \in Files |-> r[f] - Before(cs, i, f)]]
<1>1. d.refs = After[n] /\ d.batch = b
  <2> DEFINE D == [refs  |-> After[n], batch |-> b,
                   errs |-> \E i \in 1 .. n : Unowned(After[i - 1], CommitFiles(cs[i]))]
  <2>1. d = D
    BY Zenon DEF DeleteCommits
  <2>2. D.refs = After[n] /\ D.batch = b
    OBVIOUS
  <2> HIDE DEF d, D
  <2> QED BY <2>1, <2>2, Zenon
<1>2. n \in Nat
  OBVIOUS
<1> HIDE DEF d
<1>3. \A f \in Files : \A i \in 0 .. n : r[f] \in Nat /\ Before(cs, i, f) \in Nat /\ r[f] - Before(cs, i, f) \in Nat
  <2>1. SUFFICES ASSUME NEW f \in Files, NEW i \in 0 .. n
                 PROVE  r[f] \in Nat /\ Before(cs, i, f) \in Nat /\ r[f] - Before(cs, i, f) \in Nat
    OBVIOUS
  <2>2. i \in Nat /\ i <= n
    BY <1>2
  <2>3. Before(cs, i, f) \in Nat /\ Before(cs, n, f) \in Nat /\ Before(cs, i, f) <= Before(cs, n, f)
    BY <1>2, <2>2, BeforeNext
  <2>4. Before(cs, n, f) <= r[f] /\ r[f] \in Nat
    OBVIOUS
  <2> HIDE DEF n
  <2> QED BY <2>3, <2>4
<1> HIDE DEF n
<1>4. ASSUME NEW i \in 1 .. n
      PROVE  DecRefs([f \in Files |-> r[f] - Before(cs, i - 1, f)], CommitFiles(cs[i]))
               = [f \in Files |-> r[f] - Before(cs, i, f)]
  <2> DEFINE v == [f \in Files |-> r[f] - Before(cs, i - 1, f)]
             C == CommitFiles(cs[i])
  <2>1. i \in Nat \ {0} /\ i - 1 \in 0 .. n /\ i \in 0 .. n
    BY <1>2
  <2>2. ASSUME NEW f \in Files
        PROVE  (IF f \in C /\ v[f] > 0 THEN v[f] - 1 ELSE v[f]) = r[f] - Before(cs, i, f)
    <3>1. Before(cs, i, f) = Before(cs, i - 1, f) + One(C, f)
      BY <2>1, BeforeNext
    <3>2. /\ r[f] \in Nat /\ Before(cs, i, f) \in Nat /\ Before(cs, i - 1, f) \in Nat
          /\ r[f] - Before(cs, i, f) \in Nat
      BY <1>3, <2>1
    <3>3. v[f] = r[f] - Before(cs, i - 1, f)
      OBVIOUS
    <3> HIDE DEF v, C
    <3>4. CASE f \in C
      <4>1. One(C, f) = 1
        BY <3>4 DEF One
      <4> QED BY <3>1, <3>2, <3>3, <3>4, <4>1
    <3>5. CASE f \notin C
      <4>1. One(C, f) = 0
        BY <3>5 DEF One
      <4> QED BY <3>1, <3>2, <3>3, <3>5, <4>1
    <3> QED BY <3>4, <3>5
  <2> HIDE DEF v, C
  <2>3. DecRefs(v, C) = [f \in Files |-> IF f \in C /\ v[f] > 0 THEN v[f] - 1 ELSE v[f]]
    BY DEF DecRefs
  <2>4. DecRefs(v, C) = [f \in Files |-> r[f] - Before(cs, i, f)]
    BY <2>2, <2>3
  <2> QED BY <2>4 DEF v, C
<1>5. w[0] = r
  <2>1. w[0] = [f \in Files |-> r[f] - Before(cs, 0, f)]
    BY <1>2
  <2>2. \A f \in Files : r[f] - Before(cs, 0, f) = r[f]
    <3>1. \A f \in Files : Before(cs, 0, f) = 0 /\ r[f] \in Nat
      BY BeforeNext
    <3> QED BY <3>1
  <2> HIDE DEF w
  <2> QED BY <2>1, <2>2
<1>6. \A i \in 1 .. n : w[i] = DecRefs(w[i - 1], CommitFiles(cs[i]))
  <2>1. SUFFICES ASSUME NEW i \in 1 .. n PROVE w[i] = DecRefs(w[i - 1], CommitFiles(cs[i]))
    OBVIOUS
  <2>2. i \in 0 .. n /\ i - 1 \in 0 .. n
    BY <1>2
  <2>3. w[i] = [f \in Files |-> r[f] - Before(cs, i, f)]
    BY <2>2
  <2>4. w[i - 1] = [f \in Files |-> r[f] - Before(cs, i - 1, f)]
    BY <2>2
  <2> HIDE DEF w
  <2> QED BY <1>4, <2>3, <2>4, Zenon
<1>7. DOMAIN w = 0 .. n /\ w = [i \in 0 .. n |-> w[i]]
  OBVIOUS
<1>8. \A i \in 0 .. n : \A f \in Files : w[i][f] = r[f] - Before(cs, i, f)
  OBVIOUS
<1> HIDE DEF w
<1>9. Is(w)
  <2>1. ASSUME NEW i \in 0 .. n
        PROVE  w[i] = IF i = 0 THEN r ELSE DecRefs(w[i - 1], CommitFiles(cs[i]))
    <3>1. CASE i = 0
      BY <1>5, <3>1
    <3>2. CASE i # 0
      <4>1. i \in 1 .. n
        BY <1>2, <3>2
      <4> QED BY <1>6, <3>2, <4>1, Zenon
    <3> QED BY <3>1, <3>2
  <2> QED BY <1>7, <2>1, Zenon
<1>10. Is(After)
  <2> HIDE DEF Is
  <2> QED BY <1>9, Zenon
<1>11. After[0] = r /\ \A i \in 1 .. n : After[i] = DecRefs(After[i - 1], CommitFiles(cs[i]))
  <2> HIDE DEF After
  <2>1. 0 \in 0 .. n
    BY <1>2
  <2>2. After[0] = r
    BY <1>10, <2>1, Zenon
  <2>3. ASSUME NEW i \in 1 .. n PROVE After[i] = DecRefs(After[i - 1], CommitFiles(cs[i]))
    <3>1. i \in 0 .. n /\ i # 0
      BY <1>2
    <3> QED BY <1>10, <3>1, Zenon
  <2> QED BY <2>2, <2>3
<1> HIDE DEF After
<1>12. \A i \in 0 .. n : After[i] = w[i]
  <2>1. SUFFICES ASSUME NEW j \in 0 .. n, After[j] # w[j] PROVE FALSE
    OBVIOUS
  <2> DEFINE S == {0 - i : i \in {h \in 0 .. n : After[h] # w[h]}}
  <2>2. 0 - j \in S /\ \A y \in S : y \in Int /\ y \in (0 - n) .. 0
    BY <1>2, <2>1
  <2>3. IsFiniteSet(S)
    <3>1. 0 - n \in Int /\ 0 \in Int
      BY <1>2
    <3>2. IsFiniteSet((0 - n) .. 0)
      BY <3>1, FS_Interval
    <3>3. S \subseteq (0 - n) .. 0
      BY <2>2
    <3> HIDE DEF S
    <3> QED BY <3>2, <3>3, FS_Subset
  <2>4. Max(S) \in S /\ \A y \in S : y <= Max(S)
    <3> HIDE DEF S
    <3> QED BY <2>2, <2>3, Largest
  <2>5. PICK i \in 0 .. n : After[i] # w[i] /\ Max(S) = 0 - i
    BY <2>4
  <2>6. \A h \in 0 .. n : After[h] # w[h] => 0 - h <= 0 - i
    BY <2>4, <2>5
  <2> HIDE DEF S
  <2>7. i # 0
    BY <1>5, <1>11, <2>5
  <2>8. i \in 1 .. n /\ i - 1 \in 0 .. n /\ ~(0 - (i - 1) <= 0 - i)
    BY <1>2, <2>7
  <2>9. After[i - 1] = w[i - 1]
    BY <2>6, <2>8
  <2> QED BY <1>6, <1>11, <2>5, <2>8, <2>9
<1>13. d.refs \in [Files -> Nat] /\ \A f \in Files : d.refs[f] = r[f] - Before(cs, n, f)
  <2>1. n \in 0 .. n
    BY <1>2
  <2>2. d.refs = w[n]
    BY <1>1, <1>12, <2>1
  <2>3. w[n] = [f \in Files |-> r[f] - Before(cs, n, f)]
    BY <2>1 DEF w
  <2>4. \A f \in Files : r[f] - Before(cs, n, f) \in Nat
    BY <1>3, <2>1
  <2> QED BY <2>2, <2>3, <2>4
<1>14. ASSUME NEW i \in 1 .. n, NEW f
       PROVE  /\ f \in b[i] <=> f \in CommitFiles(cs[i]) /\ r[f] = Before(cs, i - 1, f) + 1
              /\ b[i] \subseteq Files
  <2>1. i - 1 \in 0 .. n /\ i \in 1 .. Len(cs)
    BY <1>2 DEF n
  <2>2. b[i] = {g \in CommitFiles(cs[i]) : w[i - 1][g] = 1}
    BY <1>12, <2>1 DEF Zeroed
  <2>3. CommitFiles(cs[i]) \subseteq Files
    BY <2>1
  <2>4. ASSUME f \in CommitFiles(cs[i])
        PROVE  w[i - 1][f] = 1 <=> r[f] = Before(cs, i - 1, f) + 1
    <3>1. /\ w[i - 1][f] = r[f] - Before(cs, i - 1, f)
          /\ r[f] \in Nat /\ Before(cs, i - 1, f) \in Nat
      BY <1>3, <1>8, <2>1, <2>3, <2>4
    <3> QED BY <3>1
  <2> HIDE DEF b
  <2> QED BY <2>2, <2>3, <2>4
<1>15. b \in Seq(SUBSET Files) /\ Len(b) = n
  <2>1. \A i \in 1 .. n : b[i] \in SUBSET Files
    BY <1>14
  <2>2. b = [i \in 1 .. n |-> b[i]]
    OBVIOUS
  <2> HIDE DEF b
  <2>3. b \in [1 .. n -> SUBSET Files]
    BY <2>1, <2>2
  <2> QED BY <1>2, <2>3
<1> HIDE DEF b
<1> QED BY <1>1, <1>13, <1>14, <1>15 DEF d, n

\* What the policy leaves of the commits cs: the commits k, in order and with
\* the last; counts R that are exact, X being the other holders; and batches b
\* of files to delete, where a commit whose files go loses its segments_n with
\* them or before.
Trimmed(cs, X, R, b, k) ==
  /\ R \in [Files -> Nat] /\ \A f \in Files : R[f] = CountOf(k, f) + X[f]
  /\ k \in Seq(CommitType) /\ Len(k) <= Keep
  /\ cs # <<>> => k # <<>> /\ k[Len(k)] = cs[Len(cs)]
  /\ cs = <<>> => k = <<>>
  /\ \A i \in 1 .. Len(k) : \E j \in 1 .. Len(cs) : k[i] = cs[j]
  /\ \A i, j \in 1 .. Len(k) : i < j => k[i].gen < k[j].gen
  /\ b \in Seq(SUBSET Files)
  /\ \A j \in 1 .. Len(b) : \A f \in b[j] :
       /\ R[f] = 0 /\ \E i \in 1 .. Len(cs) : f \in CommitFiles(cs[i])
       /\ \A i \in 1 .. Len(cs) : f \in CommitFiles(cs[i]) => \E h \in 1 .. j : SegsN(cs[i].gen) \in b[h]
  /\ \A i \in 1 .. Len(cs) :
       \/ \E j \in 1 .. Len(k) : k[j] = cs[i]
       \/ /\ Len(k) = Keep /\ \A j \in 1 .. Len(k) : cs[i].gen < k[j].gen
          /\ \E j \in 1 .. Len(b) : SegsN(cs[i].gen) \in b[j]
  /\ Len(cs) >= Keep => Len(k) = Keep
  /\ \A i \in 1 .. Len(cs), j \in 1 .. Len(k) : i + Keep <= Len(cs) => cs[i].gen < k[j].gen

\* The policy lets the oldest of the commits go.
LEMMA LetGo ==
  ASSUME NEW cs \in Seq(CommitType),
         \A i \in 1 .. Len(cs) : cs[i].gen \in Gens,
         \A i, j \in 1 .. Len(cs) : i < j => cs[i].gen < cs[j].gen,
         NEW r \in [Files -> Nat], NEW X \in [Files -> Nat],
         \A f \in Files : r[f] = CountOf(cs, f) + X[f],
         \A n \in Gens : X[SegsN(n)] = 0
  PROVE  LET d == DeleteCommits(r, Expired(cs)) IN Trimmed(cs, X, d.refs, d.batch, Retained(cs))
<1> DEFINE x == Expired(cs)
           d == DeleteCommits(r, x)
           k == Retained(cs)
           b == d.batch
<1>1. Len(cs) \in Nat /\ Keep \in Nat \ {0}
  BY KeepAssumption
<1>2. PICK e \in 0 .. Len(cs) : /\ x = SubSeq(cs, 1, e) /\ k = SubSeq(cs, e + 1, Len(cs))
                                /\ Len(cs) - e <= Keep /\ (cs # <<>> => e < Len(cs))
                                /\ e > 0 \/ Len(cs) >= Keep => Len(cs) - e = Keep
  BY Policy
<1>3. e \in Nat /\ e <= Len(cs)
  BY <1>1
<1>4. x \in Seq(CommitType) /\ Len(x) = e /\ \A i \in 1 .. e : x[i] = cs[i] /\ i \in 1 .. Len(cs)
  <2>1. \A i \in 1 .. e : i \in 1 .. Len(cs)
    BY <1>1, <1>3
  <2>2. SubSeq(cs, 1, e) \in Seq(CommitType) /\ Len(SubSeq(cs, 1, e)) = e /\ \A i \in 1 .. e : SubSeq(cs, 1, e)[i] = cs[i]
    BY <1>1, <1>3, <2>1
  <2> HIDE DEF x
  <2> QED BY <1>2, <2>1, <2>2
<1> HIDE DEF x, k
<1>5. /\ k \in Seq(CommitType) /\ Len(k) = Len(cs) - e
      /\ \A i \in 1 .. Len(k) : i + e \in 1 .. Len(cs) /\ k[i] = cs[i + e]
      /\ \A i \in e + 1 .. Len(cs) : i - e \in 1 .. Len(k) /\ k[i - e] = cs[i]
      /\ \A f : CountOf(cs, f) = Before(cs, e, f) + CountOf(k, f)
  <2>1. k = SubSeq(cs, e + 1, Len(cs))
    BY <1>2
  <2> DEFINE z == SubSeq(cs, e + 1, Len(cs))
  <2>2. ASSUME NEW f
        PROVE  /\ z \in Seq(CommitType) /\ Len(z) = Len(cs) - e
               /\ \A i \in 1 .. Len(z) : i + e \in 1 .. Len(cs) /\ z[i] = cs[i + e]
               /\ \A i \in e + 1 .. Len(cs) : i - e \in 1 .. Len(z) /\ z[i - e] = cs[i]
               /\ CountOf(cs, f) = Before(cs, e, f) + CountOf(z, f)
    BY BeforeSplit
  <2>3. k = z
    BY <2>1
  <2> HIDE DEF z
  <2> QED BY <2>2, <2>3, Zenon
<1>6. \A f : CountOf(k, f) \in Nat /\ (CountOf(k, f) > 0 <=> \E i \in 1 .. Len(k) : f \in CommitFiles(k[i]))
  BY <1>5, CountType
<1>7. \A f, i : i \in 0 .. e => Before(x, i, f) = Before(cs, i, f)
  <2>1. SUFFICES ASSUME NEW f, NEW i \in 0 .. e PROVE Before(x, i, f) = Before(cs, i, f)
    OBVIOUS
  <2>2. \A j \in 1 .. i : x[j] = cs[j]
    BY <1>3, <1>4
  <2>3. {j \in 1 .. i : f \in CommitFiles(x[j])} = {j \in 1 .. i : f \in CommitFiles(cs[j])}
    BY <2>2
  <2> QED BY <2>3 DEF Before
<1>8. \A i \in 1 .. Len(cs) : CommitFiles(cs[i]) \subseteq Files
  <2>1. SUFFICES ASSUME NEW i \in 1 .. Len(cs) PROVE CommitFiles(cs[i]) \subseteq Files
    OBVIOUS
  <2>2. cs[i] \in CommitType /\ cs[i].gen \in Gens
    OBVIOUS
  <2>3. FilesOf(cs[i].segs) \subseteq Files /\ SegsN(cs[i].gen) \in Files
    BY <2>2, FileSets DEF CommitType
  <2> QED BY <2>3 DEF CommitFiles
<1>9. \A f : /\ \A i \in 0 .. e : Before(cs, i, f) \in Nat
             /\ \A i \in 1 .. e : Before(cs, i, f) = Before(cs, i - 1, f) + One(CommitFiles(cs[i]), f)
             /\ \A i, j \in 0 .. e : i <= j => Before(cs, i, f) <= Before(cs, j, f)
  <2>1. SUFFICES ASSUME NEW f
                 PROVE  /\ \A i \in 0 .. e : Before(cs, i, f) \in Nat
                        /\ \A i \in 1 .. e : Before(cs, i, f) = Before(cs, i - 1, f) + One(CommitFiles(cs[i]), f)
                        /\ \A i, j \in 0 .. e : i <= j => Before(cs, i, f) <= Before(cs, j, f)
    OBVIOUS
  <2>2. /\ \A i \in Nat : Before(cs, i, f) \in Nat
        /\ \A i \in Nat \ {0} : Before(cs, i, f) = Before(cs, i - 1, f) + One(CommitFiles(cs[i]), f)
        /\ \A i, j \in Nat : i <= j => Before(cs, i, f) <= Before(cs, j, f)
    BY BeforeNext
  <2>3. (\A i \in 0 .. e : i \in Nat) /\ \A i \in 1 .. e : i \in Nat \ {0}
    BY <1>3
  <2> QED BY <2>2, <2>3
<1>10. \A f \in Files : /\ r[f] = Before(cs, e, f) + CountOf(k, f) + X[f] /\ X[f] \in Nat
                        /\ Before(cs, e, f) \in Nat /\ CountOf(k, f) \in Nat
  <2>1. e \in 0 .. e
    BY <1>3
  <2> QED BY <1>5, <1>6, <1>9, <2>1
<1>11. /\ d.refs \in [Files -> Nat] /\ \A f \in Files : d.refs[f] = r[f] - Before(x, e, f)
       /\ b \in Seq(SUBSET Files) /\ Len(b) = e
       /\ \A i \in 1 .. e : \A f : f \in b[i] <=> f \in CommitFiles(x[i]) /\ r[f] = Before(x, i - 1, f) + 1
  <2>1. \A f \in Files : Before(x, Len(x), f) <= r[f]
    <3>1. SUFFICES ASSUME NEW f \in Files PROVE Before(x, Len(x), f) <= r[f]
      OBVIOUS
    <3>2. Before(x, Len(x), f) = Before(cs, e, f)
      BY <1>3, <1>4, <1>7
    <3> QED BY <1>10, <3>2
  <2>2. \A i \in 1 .. Len(x) : CommitFiles(x[i]) \subseteq Files
    BY <1>4, <1>8
  <2> QED BY <1>4, <2>1, <2>2, Deleted
<1> HIDE DEF d, b
<1>12. \A f \in Files : d.refs[f] = CountOf(k, f) + X[f]
  <2>1. SUFFICES ASSUME NEW f \in Files PROVE d.refs[f] = CountOf(k, f) + X[f]
    OBVIOUS
  <2>2. Before(x, e, f) = Before(cs, e, f)
    BY <1>3, <1>7
  <2>3. d.refs[f] = r[f] - Before(cs, e, f)
    BY <1>11, <2>2
  <2> QED BY <1>10, <2>3
<1>13. \A i \in 1 .. e : \A f : f \in b[i] <=> f \in CommitFiles(cs[i]) /\ r[f] = Before(cs, i - 1, f) + 1
  <2>1. SUFFICES ASSUME NEW i \in 1 .. e, NEW f
                 PROVE  f \in b[i] <=> f \in CommitFiles(cs[i]) /\ r[f] = Before(cs, i - 1, f) + 1
    OBVIOUS
  <2>2. i - 1 \in 0 .. e
    BY <1>3
  <2>3. x[i] = cs[i] /\ Before(x, i - 1, f) = Before(cs, i - 1, f)
    BY <1>4, <1>7, <2>2
  <2>4. f \in b[i] <=> f \in CommitFiles(x[i]) /\ r[f] = Before(x, i - 1, f) + 1
    BY <1>11
  <2> QED BY <2>3, <2>4, Zenon
\* What is in a batch is held by nobody after it.
<1>14. ASSUME NEW j \in 1 .. e, NEW f \in b[j]
       PROVE  f \in Files /\ d.refs[f] = 0 /\ CountOf(k, f) = 0 /\ f \in CommitFiles(cs[j]) /\ Before(cs, e, f) = Before(cs, j, f)
  <2>1. f \in CommitFiles(cs[j]) /\ r[f] = Before(cs, j - 1, f) + 1 /\ f \in Files
    BY <1>4, <1>8, <1>13
  <2>2. One(CommitFiles(cs[j]), f) = 1
    BY <2>1 DEF One
  <2>3. j \in 0 .. e /\ j - 1 \in 0 .. e /\ e \in 0 .. e /\ j <= e
    BY <1>3
  <2>4. /\ Before(cs, j, f) = Before(cs, j - 1, f) + 1 /\ Before(cs, j, f) <= Before(cs, e, f)
        /\ Before(cs, j, f) \in Nat /\ Before(cs, j - 1, f) \in Nat /\ Before(cs, e, f) \in Nat
    BY <1>9, <2>2, <2>3
  <2>5. r[f] = Before(cs, e, f) + CountOf(k, f) + X[f] /\ X[f] \in Nat /\ CountOf(k, f) \in Nat
        /\ d.refs[f] = CountOf(k, f) + X[f]
    BY <1>10, <1>12, <2>1
  <2>6. CountOf(k, f) = 0 /\ X[f] = 0 /\ Before(cs, e, f) = Before(cs, j, f)
    BY <2>1, <2>4, <2>5
  <2> QED BY <2>1, <2>5, <2>6
\* The segments_n of an expired commit goes in its batch.
<1>15. ASSUME NEW i \in 1 .. e PROVE SegsN(cs[i].gen) \in b[i]
  <2> DEFINE g == SegsN(cs[i].gen)
  <2>1. g \in CommitFiles(cs[i]) /\ g \in Files /\ X[g] = 0 /\ i \in 1 .. Len(cs)
    BY <1>4, <1>8, FileSets
  <2>2. ASSUME NEW j \in 1 .. Len(cs), g \in CommitFiles(cs[j]) PROVE j = i
    <3>1. cs[j].gen = cs[i].gen /\ cs[i].gen \in Int
      BY <2>1, <2>2, FileSets DEF Gens
    <3>2. ~(i < j) /\ ~(j < i)
      BY <2>1, <3>1
    <3> QED BY <1>1, <2>1, <3>2
  <2> HIDE DEF g
  <2>3. ~\E j \in 1 .. Len(k) : g \in CommitFiles(k[j])
    <3>1. SUFFICES ASSUME NEW j \in 1 .. Len(k), g \in CommitFiles(k[j]) PROVE FALSE
      OBVIOUS
    <3>2. j + e \in 1 .. Len(cs) /\ k[j] = cs[j + e]
      BY <1>5
    <3>3. j + e = i
      BY <2>2, <3>1, <3>2
    <3> QED BY <1>3, <1>5, <3>3
  <2>4. CountOf(k, g) = 0
    BY <1>6, <2>3
  <2>5. {j \in 1 .. i - 1 : g \in CommitFiles(cs[j])} = {} /\ {j \in 1 .. e : g \in CommitFiles(cs[j])} = {i}
    <3>1. \A j \in 1 .. i - 1 : j \in 1 .. Len(cs) /\ j # i
      BY <1>3, <1>1
    <3>2. \A j \in 1 .. e : j \in 1 .. Len(cs)
      BY <1>4
    <3> QED BY <2>1, <2>2, <3>1, <3>2
  <2>6. Before(cs, i - 1, g) = 0 /\ Before(cs, e, g) = 1
    BY <2>5, FS_EmptySet, FS_Singleton DEF Before
  <2>7. r[g] = 1
    BY <1>10, <2>1, <2>4, <2>6
  <2>8. g \in b[i]
    BY <1>13, <2>1, <2>6, <2>7
  <2> QED BY <2>8 DEF g
<1>16. ASSUME NEW j \in 1 .. e, NEW f \in b[j], NEW i \in 1 .. Len(cs), f \in CommitFiles(cs[i])
       PROVE  \E h \in 1 .. j : SegsN(cs[i].gen) \in b[h]
  <2>1. f \in Files /\ CountOf(k, f) = 0 /\ Before(cs, e, f) = Before(cs, j, f)
    BY <1>14
  <2>2. i <= e
    <3>1. SUFFICES ASSUME i > e PROVE FALSE
      BY <1>1, <1>3
    <3>2. i \in e + 1 .. Len(cs)
      BY <1>1, <1>3, <3>1
    <3>3. \E h \in 1 .. Len(k) : f \in CommitFiles(k[h])
      BY <1>5, <1>16, <3>2
    <3> QED BY <1>6, <2>1, <3>3
  <2>3. i <= j
    <3>1. SUFFICES ASSUME i > j PROVE FALSE
      BY <1>1, <1>3
    <3>2. i \in 1 .. e /\ i - 1 \in 0 .. e /\ j \in 0 .. e /\ i \in 0 .. e /\ e \in 0 .. e /\ j <= i - 1 /\ i <= e
      BY <1>1, <1>3, <2>2, <3>1
    <3>3. Before(cs, i, f) = Before(cs, i - 1, f) + 1
      <4>1. One(CommitFiles(cs[i]), f) = 1
        BY <1>16 DEF One
      <4> QED BY <1>9, <3>2, <4>1
    <3>4. /\ Before(cs, j, f) <= Before(cs, i - 1, f) /\ Before(cs, i, f) <= Before(cs, e, f)
          /\ Before(cs, j, f) \in Nat /\ Before(cs, i - 1, f) \in Nat /\ Before(cs, i, f) \in Nat
      BY <1>9, <3>2
    <3> QED BY <2>1, <3>3, <3>4
  <2>4. i \in 1 .. j /\ i \in 1 .. e
    BY <1>1, <1>3, <2>2, <2>3
  <2> QED BY <1>15, <2>4
<1>23. ASSUME NEW i \in 1 .. e, NEW j \in 1 .. Len(k) PROVE cs[i].gen < k[j].gen
  <2>1. i \in 1 .. Len(cs) /\ j + e \in 1 .. Len(cs) /\ k[j] = cs[j + e]
    BY <1>4, <1>5
  <2>2. i < j + e
    BY <1>3, <1>5
  <2> QED BY <2>1, <2>2
<1>17. ASSUME NEW i \in 1 .. Len(cs)
       PROVE  \/ \E j \in 1 .. Len(k) : k[j] = cs[i]
              \/ /\ Len(k) = Keep /\ \A j \in 1 .. Len(k) : cs[i].gen < k[j].gen
                 /\ \E j \in 1 .. Len(b) : SegsN(cs[i].gen) \in b[j]
  <2>1. CASE i <= e
    <3>1. i \in 1 .. e /\ i \in 1 .. Len(b) /\ e > 0
      BY <1>1, <1>3, <1>11, <2>1
    <3>2. Len(k) = Keep
      BY <1>2, <1>5, <3>1
    <3> QED BY <1>15, <1>23, <3>1, <3>2
  <2>2. CASE i > e
    <3>1. i \in e + 1 .. Len(cs)
      BY <1>1, <1>3, <2>2
    <3> QED BY <1>5, <3>1
  <2> QED BY <1>1, <1>3, <2>1, <2>2
<1>18. /\ cs # <<>> => k # <<>> /\ k[Len(k)] = cs[Len(cs)]
       /\ cs = <<>> => k = <<>>
       /\ Len(k) <= Keep
  <2>1. ASSUME cs # <<>> PROVE k # <<>> /\ k[Len(k)] = cs[Len(cs)]
    <3>1. Len(cs) \in e + 1 .. Len(cs) /\ Len(k) > 0
      BY <1>1, <1>2, <1>3, <1>5, <2>1
    <3>2. k[Len(cs) - e] = cs[Len(cs)]
      BY <1>5, <3>1
    <3> QED BY <1>5, <3>1, <3>2
  <2>2. ASSUME cs = <<>> PROVE k = <<>>
    <3>1. Len(cs) = 0
      BY <2>2
    <3>2. Len(k) = Len(cs) - e /\ e \in Nat /\ e <= Len(cs)
      BY <1>3, <1>5
    <3>3. e = 0 /\ Len(k) = 0 - e
      BY <3>1, <3>2
    <3>4. Len(k) = 0
      BY <3>3
    <3> QED BY <1>5, <3>4, EmptySeq
  <2> QED BY <1>2, <1>5, <2>1, <2>2
<1>19. \A i, j \in 1 .. Len(k) : i < j => k[i].gen < k[j].gen
  <2>1. SUFFICES ASSUME NEW i \in 1 .. Len(k), NEW j \in 1 .. Len(k), i < j PROVE k[i].gen < k[j].gen
    OBVIOUS
  <2>2. i + e \in 1 .. Len(cs) /\ j + e \in 1 .. Len(cs) /\ i + e < j + e
    BY <1>3, <1>5, <2>1
  <2> QED BY <1>5, <2>2
<1>20. \A i \in 1 .. Len(k) : \E j \in 1 .. Len(cs) : k[i] = cs[j]
  BY <1>5
<1>21. \A j \in 1 .. Len(b) : \A f \in b[j] :
         /\ d.refs[f] = 0 /\ \E i \in 1 .. Len(cs) : f \in CommitFiles(cs[i])
         /\ \A i \in 1 .. Len(cs) : f \in CommitFiles(cs[i]) => \E h \in 1 .. j : SegsN(cs[i].gen) \in b[h]
  <2>1. SUFFICES ASSUME NEW j \in 1 .. e, NEW f \in b[j]
                 PROVE  /\ d.refs[f] = 0 /\ \E i \in 1 .. Len(cs) : f \in CommitFiles(cs[i])
                        /\ \A i \in 1 .. Len(cs) : f \in CommitFiles(cs[i]) => \E h \in 1 .. j : SegsN(cs[i].gen) \in b[h]
    BY <1>11
  <2>2. d.refs[f] = 0 /\ f \in CommitFiles(cs[j]) /\ j \in 1 .. Len(cs)
    BY <1>4, <1>14
  <2> QED BY <1>16, <2>2
<1>24. Len(cs) >= Keep => Len(k) = Keep
  BY <1>2, <1>5
<1>25. ASSUME NEW i \in 1 .. Len(cs), NEW j \in 1 .. Len(k), i + Keep <= Len(cs) PROVE cs[i].gen < k[j].gen
  <2>1. Len(cs) >= Keep
    BY <1>1, <1>25
  <2>2. i \in 1 .. e
    BY <1>1, <1>2, <1>3, <1>25, <2>1
  <2> QED BY <1>23, <2>2
<1>22. Trimmed(cs, X, d.refs, b, k)
  BY <1>5, <1>11, <1>12, <1>17, <1>18, <1>19, <1>20, <1>21, <1>24, <1>25, Zenon DEF Trimmed
<1> QED BY <1>22 DEF d, x, k, b

\* What is deleted: the segments_n of a commit before its files or with them.
LEMMA CommitBatch ==
  ASSUME NEW cs, NEW b \in Seq(SUBSET Files), todo' = b, content' = content,
         \A j \in 1 .. Len(b) : \A f \in b[j] :
           /\ refs'[f] = 0
           /\ \A i \in 1 .. Len(cs) : f \in CommitFiles(cs[i]) => \E h \in 1 .. j : SegsN(cs[i].gen) \in b[h],
         PendingOnDisk' = {}, ~(aim' = "closed" /\ left' <= 4),
         \A n \in KeptGens' : \E i \in 1 .. Len(cs) : cs[i].gen = n /\ cs[i] = content[n]
  PROVE  /\ Deletions' /\ todo' \in Seq(SUBSET (Files \cup PendingFiles))
         /\ \A f : Doomed(f)' <=> \E j \in 1 .. Len(b) : f \in b[j]
<1>1. \A f : Doomed(f)' <=> \E j \in 1 .. Len(b) : f \in b[j]
  BY DEF Doomed
<1>2. ASSUME NEW j \in 1 .. Len(b), NEW n \in KeptGens', NEW f \in b[j], f \in FilesOf(content[n].segs)
      PROVE  \E h \in 1 .. j : SegsN(n) \in b[h]
  <2>1. PICK i \in 1 .. Len(cs) : cs[i].gen = n /\ cs[i] = content[n]
    OBVIOUS
  <2>2. f \in CommitFiles(cs[i])
    BY <1>2, <2>1 DEF CommitFiles
  <2> QED BY <2>1, <2>2
<1>3. \A j \in 1 .. Len(todo') : \A n \in KeptGens' : \A f \in todo'[j] :
        f \in FilesOf(content'[n].segs) => \E i \in 1 .. j : SegsN(n) \in todo'[i]
  BY <1>2
<1>4. \A f \in Files : Doomed(f)' => refs'[f] = 0
  BY <1>1
<1>5. todo' \in Seq(SUBSET (Files \cup PendingFiles))
  <2> DEFINE A == SUBSET (Files \cup PendingFiles)
             B == SUBSET Files
  <2>1. B \subseteq A /\ b \in Seq(B)
    OBVIOUS
  <2> HIDE DEF A, B
  <2>2. b \in Seq(A)
    BY <2>1
  <2> QED BY <2>2 DEF A
<1> QED BY <1>1, <1>3, <1>4, <1>5 DEF Deletions

\* The pending commit joins the commits of the deleter.
LEMMA Joins ==
  ASSUME CommitInv, step = "register", aim = "finish", left = 3
  PROVE  LET cs == Append(commits, pend.info) IN
         /\ cs \in Seq(CommitType) /\ cs # <<>> /\ cs[Len(cs)] = pend.info
         /\ \A i \in 1 .. Len(cs) : cs[i].gen \in Gens /\ cs[i] = content[cs[i].gen]
         /\ \A i, j \in 1 .. Len(cs) : i < j => cs[i].gen < cs[j].gen
         /\ \A i \in 1 .. Len(cs) : \A f \in CommitFiles(cs[i]) : f \in Files /\ f \in kept
         /\ \A i \in 1 .. Len(cs) : \A s \in cs[i].segs : refs[Seg(s)] > 0
         /\ \A n \in GensOnDisk : \/ \E i \in 1 .. Len(cs) : cs[i].gen = n /\ cs[i] = content[n]
                                  \/ n \notin KeptGens /\ Len(cs) > Keep /\ \A i \in 1 .. Len(cs) : n < cs[i].gen
<1> USE Facts
<1> DEFINE cs == Append(commits, pend.info)
           n == pend.info.gen
<1>1. /\ state = "open" /\ Live /\ todo = <<>> /\ pend.info \in CommitType /\ n \in Gens /\ n \in Nat
      /\ content[n] = pend.info
      /\ \A i \in 1 .. Len(commits) : commits[i].gen \in Gens /\ commits[i].gen < n
  <2>1. left \in 3 .. 5
    OBVIOUS
  <2> QED BY <2>1, Recorded
<1>2. commits \in Seq(CommitType) /\ Len(commits) \in Nat /\ Len(commits) <= Keep
  BY <1>1 DEF Types, Live, Retaining
<1>3. /\ cs \in Seq(CommitType) /\ Len(cs) = Len(commits) + 1 /\ cs # <<>> /\ cs[Len(commits) + 1] = pend.info
      /\ \A i \in 1 .. Len(commits) : cs[i] = commits[i]
  BY <1>1, <1>2
<1> HIDE DEF cs, n
<1>4. \A i \in 1 .. Len(cs) : i = Len(commits) + 1 \/ i \in 1 .. Len(commits)
  BY <1>2, <1>3
<1>5. \A i \in 1 .. Len(cs) : cs[i].gen \in Gens /\ cs[i] = content[cs[i].gen]
  BY <1>1, <1>3, <1>4 DEF Live, Retaining, n
<1>6. ASSUME NEW i \in 1 .. Len(cs), NEW j \in 1 .. Len(cs), i < j PROVE cs[i].gen < cs[j].gen
  <2>1. i \in 1 .. Len(commits)
    BY <1>2, <1>3, <1>6
  <2>2. CASE j \in 1 .. Len(commits)
    BY <1>1, <1>3, <1>6, <2>1, <2>2 DEF Live, Retaining
  <2>3. CASE j = Len(commits) + 1
    BY <1>1, <1>3, <2>1, <2>3 DEF n
  <2> QED BY <1>4, <2>2, <2>3
<1>7. /\ \A f \in CommitFiles(pend.info) : f \in Files /\ f \in kept
      /\ \A f \in FilesOf(pend.info.segs) : refs[f] > 0
  <2>1. \A f \in FilesOf(pend.info.segs) : f \in Files /\ refs[f] > 0 /\ f \in kept
    BY <1>1, Held
  <2>2. SegsN(n) \in kept /\ SegsN(n) \in Files
    BY <1>1, FileSets DEF Committing, n
  <2> QED BY <2>1, <2>2 DEF CommitFiles, n
<1>8. \A i \in 1 .. Len(commits) : \A f \in CommitFiles(commits[i]) : f \in Files /\ f \in kept /\ refs[f] > 0
  BY <1>1, Held
<1>9. \A i \in 1 .. Len(cs) : \A f \in CommitFiles(cs[i]) : f \in Files /\ f \in kept
  BY <1>3, <1>4, <1>7, <1>8
<1>10. \A i \in 1 .. Len(cs) : \A s \in cs[i].segs : refs[Seg(s)] > 0
  <2>1. \A s \in pend.info.segs : refs[Seg(s)] > 0
    BY <1>7, FileSets
  <2>2. \A i \in 1 .. Len(commits) : \A s \in commits[i].segs : refs[Seg(s)] > 0
    BY <1>8, FileSets
  <2> QED BY <1>3, <1>4, <2>1, <2>2
<1>11. ASSUME NEW m \in GensOnDisk
       PROVE  \/ \E i \in 1 .. Len(cs) : cs[i].gen = m /\ cs[i] = content[m]
              \/ m \notin KeptGens /\ Len(cs) > Keep /\ \A i \in 1 .. Len(cs) : m < cs[i].gen
  <2>1. ~Doomed(SegsN(m))
    BY <1>1, Batches
  <2>2. \/ m = n \/ \E i \in 1 .. Len(commits) : commits[i].gen = m
        \/ Len(commits) = Keep /\ (\A i \in 1 .. Len(commits) : m < commits[i].gen) /\ m \notin KeptGens
    BY <1>1, <2>1 DEF Live, Retaining, n
  <2>5. CASE Len(commits) = Keep /\ (\A i \in 1 .. Len(commits) : m < commits[i].gen) /\ m \notin KeptGens
    <3>1. Len(commits) \in 1 .. Len(commits) /\ m \in Int /\ Len(cs) > Keep
      BY <1>2, <1>3, <2>5, DiskGens, LastOfAll
    <3>2. commits[Len(commits)].gen < n /\ commits[Len(commits)].gen \in Int /\ m < commits[Len(commits)].gen
      BY <1>1, <2>5, <3>1 DEF Gens
    <3>3. m < n
      BY <1>1, <3>1, <3>2
    <3>4. \A i \in 1 .. Len(cs) : m < cs[i].gen
      BY <1>3, <1>4, <2>5, <3>3 DEF n
    <3> QED BY <2>5, <3>1, <3>4
  <2>3. CASE m = n
    <3>1. Len(commits) + 1 \in 1 .. Len(cs)
      BY <1>2, <1>3
    <3> QED BY <1>1, <1>3, <2>3, <3>1 DEF n
  <2>4. CASE \E i \in 1 .. Len(commits) : commits[i].gen = m
    <3>1. PICK i \in 1 .. Len(commits) : commits[i].gen = m
      BY <2>4
    <3>2. i \in 1 .. Len(cs)
      BY <1>2, <1>3
    <3> QED BY <1>3, <1>5, <3>1, <3>2
  <2> QED BY <2>2, <2>3, <2>4, <2>5
<1>12. cs[Len(cs)] = pend.info
  BY <1>2, <1>3, KeepAssumption
<1> QED BY <1>3, <1>5, <1>6, <1>9, <1>10, <1>11, <1>12 DEF cs, n

\* The commit is registered and the policy lets an old one go.
LEMMA RegisterKept ==
  ASSUME Serial, CommitInv, Register(Me)
  PROVE  CommitInv'
<1> USE Facts
<1> DEFINE cs == Append(commits, pend.info)
           C == CommitFiles(pend.info)
           P == FilesOf(pend.info.segs)
           r == IncRefAll(refs, C)
           d == DeleteCommits(r, Expired(cs))
           k == Retained(cs)
           X == [f \in Files |-> One(last, f) + One(P, f) + leaks[f]]
<1>1. /\ step = "register" /\ Then(Me, <<>>) /\ Take(Me, "deleter.mu")
      /\ refs' = d.refs /\ todo' = d.batch /\ commits' = k
      /\ UNCHANGED <<disk, content, state, mem, last, hist>>
  BY AtStep DEF Register
<1>2. Routed' /\ left' = 2 /\ left = 3 /\ step' = "unlink" /\ aim' = aim /\ aim = "finish"
  BY <1>1, TailAdvances DEF FlushStages, PurgeSteps
<1>3. /\ state = "open" /\ Live /\ todo = <<>> /\ pend # NoCommit /\ pend.info \in CommitType /\ unacked < pend.info.gen
  <2>1. left \in 3 .. 5
    BY <1>2
  <2> QED BY <1>1, <1>2, <2>1, Recorded
<1>4. /\ cs \in Seq(CommitType) /\ cs # <<>> /\ cs[Len(cs)] = pend.info
      /\ \A i \in 1 .. Len(cs) : cs[i].gen \in Gens /\ cs[i] = content[cs[i].gen]
      /\ \A i, j \in 1 .. Len(cs) : i < j => cs[i].gen < cs[j].gen
      /\ \A i \in 1 .. Len(cs) : \A f \in CommitFiles(cs[i]) : f \in Files /\ f \in kept
      /\ \A i \in 1 .. Len(cs) : \A s \in cs[i].segs : refs[Seg(s)] > 0
      /\ \A n \in GensOnDisk : \/ \E i \in 1 .. Len(cs) : cs[i].gen = n /\ cs[i] = content[n]
                               \/ n \notin KeptGens /\ Len(cs) > Keep /\ \A i \in 1 .. Len(cs) : n < cs[i].gen
  BY <1>1, <1>2, Joins
<1>5. Pinned = last /\ Pinned' = last
  BY <1>1, <1>2 DEF Pinned
<1>6. /\ X \in [Files -> Nat] /\ \A f \in Files : X[f] = One(last, f) + One(P, f) + leaks[f]
  <2>1. \A f \in Files : leaks[f] \in Nat /\ One(last, f) \in Nat /\ One(P, f) \in Nat
    BY DEF Types, One
  <2> HIDE DEF P
  <2> QED BY <2>1
<1>7. \A f \in Files : CountOf(cs, f) = CountOf(commits, f) + One(C, f)
  BY <1>3, CountAppend DEF Types
<1>8. r \in [Files -> Nat] /\ \A f \in Files : r[f] = refs[f] + One(C, f)
  <2>1. refs \in [Files -> Nat]
    BY DEF Types
  <2> QED BY <2>1, RefOps
<1> HIDE DEF X, C, r
<1>9. \A f \in Files : r[f] = CountOf(cs, f) + X[f] /\ refs[f] = CountOf(commits, f) + X[f]
  <2>1. SUFFICES ASSUME NEW f \in Files PROVE r[f] = CountOf(cs, f) + X[f] /\ refs[f] = CountOf(commits, f) + X[f]
    OBVIOUS
  <2>2. /\ refs[f] = CountOf(commits, f) + One(last, f) + One(P, f) + leaks[f]
        /\ refs[f] \in Nat /\ CountOf(commits, f) \in Nat /\ leaks[f] \in Nat
        /\ One(last, f) \in {0, 1} /\ One(P, f) \in {0, 1}
    BY <1>3, <1>5, CountParts DEF Live
  <2>3. One(C, f) \in {0, 1}
    BY DEF One
  <2> HIDE DEF P, cs
  <2>4. refs[f] = CountOf(commits, f) + X[f]
    BY <1>6, <2>2
  <2>5. r[f] = refs[f] + One(C, f) /\ CountOf(cs, f) = CountOf(commits, f) + One(C, f) /\ X[f] \in Nat
    BY <1>6, <1>7, <1>8
  <2> QED BY <2>2, <2>3, <2>4, <2>5
<1>10. \A n \in Gens : X[SegsN(n)] = 0
  <2>1. SUFFICES ASSUME NEW n \in Gens PROVE X[SegsN(n)] = 0
    OBVIOUS
  <2>2. SegsN(n) \in Files /\ SegsN(n) \notin P /\ leaks[SegsN(n)] = 0
    BY <1>3, FileSets DEF Live, Counted
  <2>3. last = FilesOf(infos.segs) \/ last = {}
    BY <1>1, <1>2, <1>3 DEF Live, Counted
  <2>4. SegsN(n) \notin last
    BY <2>3, FileSets
  <2>5. One(last, SegsN(n)) = 0 /\ One(P, SegsN(n)) = 0
    BY <2>2, <2>4 DEF One
  <2> QED BY <1>6, <2>2, <2>5
<1> HIDE DEF cs, d, k
<1>11. Trimmed(cs, X, d.refs, d.batch, k)
  <2>1. /\ cs \in Seq(CommitType) /\ \A i \in 1 .. Len(cs) : cs[i].gen \in Gens
        /\ \A i, j \in 1 .. Len(cs) : i < j => cs[i].gen < cs[j].gen
        /\ \A f \in Files : r[f] = CountOf(cs, f) + X[f]
    BY <1>4, <1>9
  <2>2. r \in [Files -> Nat] /\ X \in [Files -> Nat]
    BY <1>6, <1>8
  <2> QED BY <1>10, <2>1, <2>2, LetGo DEF d, k
<1>26. /\ d.refs \in [Files -> Nat] /\ \A f \in Files : d.refs[f] = CountOf(k, f) + X[f]
       /\ k \in Seq(CommitType) /\ Len(k) <= Keep /\ k # <<>> /\ k[Len(k)] = pend.info
       /\ \A i \in 1 .. Len(k) : \E j \in 1 .. Len(cs) : k[i] = cs[j]
       /\ \A i, j \in 1 .. Len(k) : i < j => k[i].gen < k[j].gen
       /\ Len(cs) >= Keep => Len(k) = Keep
  BY <1>4, <1>11, Zenon DEF Trimmed
<1>27. /\ d.batch \in Seq(SUBSET Files)
       /\ \A j \in 1 .. Len(d.batch) : \A f \in d.batch[j] :
            /\ d.refs[f] = 0 /\ \E i \in 1 .. Len(cs) : f \in CommitFiles(cs[i])
            /\ \A i \in 1 .. Len(cs) : f \in CommitFiles(cs[i]) => \E h \in 1 .. j : SegsN(cs[i].gen) \in d.batch[h]
       /\ \A i \in 1 .. Len(cs) :
            \/ \E j \in 1 .. Len(k) : k[j] = cs[i]
            \/ /\ Len(k) = Keep /\ \A j \in 1 .. Len(k) : cs[i].gen < k[j].gen
               /\ \E j \in 1 .. Len(d.batch) : SegsN(cs[i].gen) \in d.batch[j]
  BY <1>4, <1>11, Zenon DEF Trimmed
<1>12. /\ GensOnDisk' = GensOnDisk /\ KeptGens' = KeptGens /\ kept' = kept /\ PendingOnDisk' = {}
       /\ ~Strayed /\ ~Strayed'
  <2>1. \A n \in PendingOnDisk : FALSE
    BY <1>1, <1>3, NonePending
  <2>2. UNCHANGED <<disk, undeleted>>
    BY <1>1 DEF hist
  <2> QED BY <1>2, <2>1, <2>2, SameFiles DEF Strayed
<1>13. /\ Deletions' /\ todo' \in Seq(SUBSET (Files \cup PendingFiles))
       /\ \A f : Doomed(f)' <=> \E j \in 1 .. Len(d.batch) : f \in d.batch[j]
  <2>1. \A n \in KeptGens' : \E i \in 1 .. Len(cs) : cs[i].gen = n /\ cs[i] = content[n]
    BY <1>4, <1>12, KeptFiles
  <2>2. ~(aim' = "closed" /\ left' <= 4) /\ content' = content /\ todo' = d.batch /\ refs' = d.refs
    BY <1>1, <1>2
  <2>3. \A j \in 1 .. Len(d.batch) : \A f \in d.batch[j] :
          /\ refs'[f] = 0
          /\ \A i \in 1 .. Len(cs) : f \in CommitFiles(cs[i]) => \E h \in 1 .. j : SegsN(cs[i].gen) \in d.batch[h]
    BY <1>27, <2>2
  <2>4. d.batch \in Seq(SUBSET Files) /\ PendingOnDisk' = {}
    BY <1>12, <1>27
  <2> QED BY <2>1, <2>2, <2>3, <2>4, CommitBatch
<1>14. Counted'
  <2>1. \A f \in Files : refs'[f] = CountOf(commits, f)' + One(Pinned, f)'
                                    + One(FilesOf(pend.info.segs), f)' + leaks'[f]
    <3>1. SUFFICES ASSUME NEW f \in Files
                   PROVE  refs'[f] = CountOf(k, f) + One(last, f) + One(P, f) + leaks[f]
      BY <1>1, <1>5 DEF CountOf, One, mem, hist
    <3>2. refs'[f] = CountOf(k, f) + X[f] /\ X[f] = One(last, f) + One(P, f) + leaks[f]
      BY <1>1, <1>6, <1>26
    <3>3. CountOf(k, f) \in Nat /\ leaks[f] \in Nat /\ One(last, f) \in Nat /\ One(P, f) \in Nat
      BY <1>26, CountType DEF Types, One
    <3> HIDE DEF P
    <3> QED BY <3>2, <3>3
  <2> QED BY <1>1, <1>2, <1>3, <2>1 DEF Live, Counted, mem, hist
<1>15. \A f \in Files : refs'[f] > 0 => refs[f] > 0 \/ \E i \in 1 .. Len(cs) : f \in CommitFiles(cs[i])
  <2>1. SUFFICES ASSUME NEW f \in Files, refs'[f] > 0
                 PROVE  refs[f] > 0 \/ \E i \in 1 .. Len(cs) : f \in CommitFiles(cs[i])
    OBVIOUS
  <2>2. /\ refs'[f] = CountOf(k, f) + X[f] /\ refs[f] = CountOf(commits, f) + X[f] /\ X[f] \in Nat
        /\ CountOf(k, f) \in Nat /\ CountOf(commits, f) \in Nat
    BY <1>1, <1>6, <1>9, <1>26, CountType DEF Types
  <2>3. X[f] > 0 \/ CountOf(k, f) > 0
    BY <2>1, <2>2
  <2>4. CountOf(k, f) > 0 => \E i \in 1 .. Len(cs) : f \in CommitFiles(cs[i])
    <3>1. CountOf(k, f) > 0 => \E i \in 1 .. Len(k) : f \in CommitFiles(k[i])
      BY <1>26, CountType
    <3> QED BY <1>26, <3>1
  <2> QED BY <2>2, <2>3, <2>4
<1>16. OnDisk'
  <2>1. \A f \in Files : refs'[f] > 0 => f \in kept
    BY <1>3, <1>4, <1>12, <1>15 DEF Live, OnDisk
  <2>2. FilesOf(infos'.segs) \subseteq kept
    BY <1>1, <1>3, <1>12 DEF Live, OnDisk, mem
  <2> QED BY <1>12, <2>1, <2>2 DEF OnDisk
<1>17. Retaining'
  <2>1. \A i \in 1 .. Len(k) : k[i].gen > 0 /\ k[i] = content[k[i].gen]
    <3>1. ASSUME NEW i \in 1 .. Len(k) PROVE k[i].gen \in Gens /\ k[i] = content[k[i].gen]
      <4>1. PICK j \in 1 .. Len(cs) : k[i] = cs[j]
        BY <1>26
      <4>2. cs[j].gen \in Gens /\ cs[j] = content[cs[j].gen]
        BY <1>4
      <4> QED BY <4>1, <4>2
    <3> QED BY <3>1, BoundAssumption DEF Gens
  <2>2. \A n \in GensOnDisk :
          \/ \E i \in 1 .. Len(k) : k[i].gen = n
          \/ /\ Len(k) = Keep /\ \A i \in 1 .. Len(k) : n < k[i].gen
             /\ Doomed(SegsN(n))' \/ n \notin KeptGens
    <3>1. SUFFICES ASSUME NEW n \in GensOnDisk
                   PROVE  \/ \E i \in 1 .. Len(k) : k[i].gen = n
                          \/ /\ Len(k) = Keep /\ \A i \in 1 .. Len(k) : n < k[i].gen
                             /\ Doomed(SegsN(n))' \/ n \notin KeptGens
      OBVIOUS
    <3>2. CASE \E i \in 1 .. Len(cs) : cs[i].gen = n
      <4>1. PICK i \in 1 .. Len(cs) : cs[i].gen = n
        BY <3>2
      <4>2. \/ \E j \in 1 .. Len(k) : k[j] = cs[i]
            \/ Len(k) = Keep /\ (\A j \in 1 .. Len(k) : n < k[j].gen) /\ Doomed(SegsN(n))'
        BY <1>13, <1>27, <4>1
      <4> QED BY <4>1, <4>2
    <3>3. CASE n \notin KeptGens /\ Len(cs) > Keep /\ \A i \in 1 .. Len(cs) : n < cs[i].gen
      <4>1. Len(cs) >= Keep
        BY <1>4, <3>3, KeepAssumption
      <4> QED BY <1>26, <3>3, <4>1
    <3> QED BY <1>4, <3>2, <3>3
  <2> QED BY <1>1, <1>2, <1>12, <1>26, <2>1, <2>2 DEF Retaining
<1>18. Generations'
  BY <1>1, <1>2, <1>3, <1>12 DEF Live, Generations, mem, hist
<1>19. Numbered'
  BY <1>1, <1>3, <1>12, <1>16, CountedNames DEF Live, Numbered, mem, hist
<1>20. Ticketed'
  <2>1. ASSUME NEW i \in 1 .. Len(tickets), tickets[i] # NoSeg
        PROVE  refs'[Seg(tickets[i])] = 0 /\ ~Doomed(Seg(tickets[i]))'
    <3>1. tickets[i] \in Names /\ refs[Seg(tickets[i])] = 0
      BY <1>3, <2>1 DEF Live, Ticketed, Types
    <3>2. Seg(tickets[i]) \in Files
      BY <3>1, FileSets
    <3>3. \A j \in 1 .. Len(cs) : Seg(tickets[i]) \notin CommitFiles(cs[j])
      BY <1>4, <3>1, FileSets
    <3>4. refs'[Seg(tickets[i])] \in Nat /\ ~(refs'[Seg(tickets[i])] > 0)
      <4>1. refs'[Seg(tickets[i])] \in Nat
        <5>1. refs' = d.refs
          BY <1>1
        <5> QED BY <1>26, <3>2, <5>1
      <4>2. refs'[Seg(tickets[i])] > 0 => refs[Seg(tickets[i])] > 0
        BY <1>15, <3>2, <3>3
      <4> QED BY <3>1, <4>1, <4>2
    <3>5. ~Doomed(Seg(tickets[i]))'
      BY <1>1, <1>13, <1>27, <3>3 DEF mem
    <3> QED BY <3>4, <3>5
  <2> QED BY <1>1, <1>3, <1>12, <2>1 DEF Live, Ticketed, mem
<1>21. Durable'
  BY <1>1, <1>12, DurableKept DEF Types, hist
<1>22. lock' \in [Locks -> Procs \cup {None}] /\ lock'["deleter.mu"] = Me
  BY <1>1, LockSteps
<1>23. Types'
  BY <1>1, <1>13, <1>22, <1>26 DEF Types, mem, hist
<1>24. Locked' /\ RollingBack' /\ RollbackRestores'
  BY <1>1, <1>2, <1>3, <1>22 DEF Locked, RollingBack, RollbackRestores
<1>25. Committing'
  BY <1>1, <1>2, <1>3, <1>12, <1>26 DEF Committing, mem, hist
<1> QED BY <1>2, <1>13, <1>14, <1>16, <1>17, <1>18, <1>19, <1>20, <1>21, <1>23, <1>24, <1>25 DEF CommitInv, Live

\* The commit is acknowledged.
LEMMA FinishCommitKept ==
  ASSUME Serial, CommitInv, FinishCommit(Me)
  PROVE  CommitInv'
<1> USE Facts
<1> DEFINE n == pend.info.gen
           P == FilesOf(pend.info.segs)
<1>1. /\ step = "finish" /\ Return(Me)
      /\ infos' = [infos EXCEPT !.gen = n] /\ dirty' = pdirty /\ backup' = pend.info.segs /\ pend' = NoCommit
      /\ acked' = pend.info /\ committed' = committed \cup pend.info.segs /\ leaks' = IncRefAll(leaks, P)
      /\ UNCHANGED <<disk, content, state, closing, tickets, fresh, clone, pdirty, del, undeleted>> /\ unacked' = 0
  BY AtStep DEF FinishCommit
<1>2. Routed' /\ left' = 0 /\ step' = "end" /\ aim' = "end" /\ aim = "finish" /\ left = 1
  <2>1. Routed' /\ left' = 0 /\ step' = "end" /\ aim' = "end"
    BY <1>1, Returned DEF Return
  <2> QED BY <1>1, <2>1, Rest DEF Spot, FlushStages, PurgeSteps
<1>3. /\ state = "open" /\ Live /\ todo = <<>> /\ ~errs /\ Active /\ pend # NoCommit
      /\ n \in Gens /\ content[n] = pend.info /\ infos.gen < n /\ unacked < n
      /\ commits # <<>> /\ commits[Len(commits)] = pend.info
  BY <1>1, <1>2, Running DEF Committing, Active
<1>4. /\ pend.info \in CommitType /\ pend.info.segs \subseteq Names /\ n \in KeptGens /\ n \in GensOnDisk /\ n \in Nat /\ infos.gen \in Nat
      /\ unacked \in Nat
  <2>1. pend.info \in CommitType /\ pend.info.segs \subseteq Names
    BY <1>3, PendTypes
  <2>2. n \in KeptGens /\ n \in GensOnDisk
    BY <1>2, <1>3, KeptFiles DEF Committing
  <2>3. unacked \in Nat /\ infos.gen \in Nat
    BY BoundAssumption DEF CommitType, Types
  <2> QED BY <1>3, <2>1, <2>2, <2>3, BoundAssumption DEF Gens
<1>5. /\ infos' \in CommitType /\ infos'.gen = n /\ infos'.segs = infos.segs /\ infos'.counter = infos.counter
  BY <1>1, <1>3, BoundAssumption DEF CommitType, Gens
<1>6. pend'.info.segs = {} /\ FilesOf(pend'.info.segs) = {}
  <2>1. NoCommit.info.segs = {}
    BY DEF NoCommit
  <2>2. FilesOf({}) = {}
    BY DEF FilesOf
  <2> QED BY <1>1, <2>1, <2>2
<1> HIDE DEF P
<1>7. leaks' \in [Files -> Nat] /\ \A f \in Files : leaks'[f] = leaks[f] + One(P, f)
  <2>1. leaks \in [Files -> Nat]
    BY DEF Types
  <2> QED BY <1>1, <2>1, RefOps
<1>8. /\ GensOnDisk' = GensOnDisk /\ PendingOnDisk' = PendingOnDisk /\ KeptGens' = KeptGens /\ kept' = kept
      /\ ~Strayed /\ ~Strayed' /\ ~Starting
  BY <1>1, <1>2, <1>3, SameFiles DEF Strayed, Starting
<1>9. refs' = refs /\ last' = last /\ commits' = commits /\ todo' = todo /\ errs' = errs
  BY <1>1 DEF del
<1>10. Counted'
  <2>1. Pinned' = Pinned
    BY <1>1, <1>2, <1>9 DEF Pinned
  <2>2. ASSUME NEW f \in Files PROVE refs[f] = CountOf(commits, f) + One(Pinned, f) + 0 + leaks'[f]
    <3>1. /\ refs[f] = CountOf(commits, f) + One(Pinned, f) + One(P, f) + leaks[f]
          /\ CountOf(commits, f) \in Nat /\ leaks[f] \in Nat
          /\ One(Pinned, f) \in {0, 1} /\ One(P, f) \in {0, 1}
      BY <1>3, CountParts DEF Live, P
    <3> QED BY <1>7, <3>1
  <2>3. \A f \in Files : refs'[f] = CountOf(commits, f)' + One(Pinned, f)'
                                    + One(FilesOf(pend.info.segs), f)' + leaks'[f]
    BY <1>6, <1>9, <2>1, <2>2 DEF CountOf, One
  <2>4. \A m \in Gens : leaks'[SegsN(m)] = 0
    <3>1. \A m \in Gens : SegsN(m) \in Files /\ SegsN(m) \notin P /\ leaks[SegsN(m)] = 0
      BY <1>3, FileSets DEF Live, Counted, P
    <3>2. \A m \in Gens : One(P, SegsN(m)) = 0
      BY <3>1 DEF One
    <3> QED BY <1>7, <3>1, <3>2
  <2>5. \A f \in FilesOf(infos.segs) : leaks[f] > 0 => leaks'[f] > 0
    <3>1. FilesOf(infos.segs) \subseteq Files
      BY FileSets DEF CommitType
    <3>2. \A f \in Files : leaks[f] \in Nat /\ One(P, f) \in Nat
      BY DEF Types, One
    <3> QED BY <1>7, <3>1, <3>2
  <2>6. last' = FilesOf(infos'.segs) \/ (last' = {} /\ \A f \in FilesOf(infos'.segs) : leaks'[f] > 0)
    BY <1>1, <1>2, <1>3, <1>5, <1>9, <2>5 DEF Live, Counted
  <2> QED BY <1>1, <1>2, <1>3, <1>5, <1>9, <2>3, <2>4, <2>6 DEF Live, Counted
<1>11. OnDisk' /\ Ticketed'
  BY <1>1, <1>2, <1>3, <1>5, <1>8, <1>9, OnDiskKept, TicketedKept DEF Live, Types, CommitType
<1>12. Deletions'
  BY <1>1, <1>2, <1>3, <1>8, <1>9, DeletionsKept DEF Live
<1>13. Retaining'
  <2>1. \A f : Doomed(f)' <=> Doomed(f)
    BY <1>9, DoomedKept
  <2>2. \A m \in GensOnDisk :
          \/ \E i \in 1 .. Len(commits) : commits[i].gen = m
          \/ /\ Len(commits) = Keep /\ \A i \in 1 .. Len(commits) : m < commits[i].gen
             /\ Doomed(SegsN(m))' \/ m \notin KeptGens
    BY <1>1, <1>3, <2>1 DEF Live, Retaining
  <2> QED BY <1>1, <1>3, <1>8, <1>9, <2>2 DEF Live, Retaining
<1>14. \A m \in GensOnDisk : m <= n /\ m \in Int
  <2>1. \A m \in GensOnDisk : m \in Int /\ (m <= infos.gen \/ m <= unacked \/ m = n)
    BY <1>3, DiskGens DEF Live, Generations
  <2> QED BY <1>3, <1>4, <2>1
<1>15. Generations'
  BY <1>1, <1>2, <1>4, <1>5, <1>8, <1>14 DEF Generations
<1>16. Numbered'
  <2>1. ASSUME NEW s \in pend.info.segs PROVE s < infos.counter
    <3>1. Seg(s) \in P /\ s \in Names
      BY <1>4, FileSets DEF P
    <3>2. refs[Seg(s)] > 0
      BY <1>3, <3>1, Held DEF P
    <3> QED BY <1>3, <3>1, <3>2 DEF Live, Numbered
  <2> QED BY <1>1, <1>3, <1>5, <1>9, <2>1 DEF Live, Numbered
<1>17. Durable'
  <2>1. \A m \in GensOnDisk, s \in committed' : m >= n => s < content[m].counter
    <3>1. \A m \in GensOnDisk : m >= n => m = n
      BY <1>4, <1>14
    <3>2. \A s \in committed' : s < content[n].counter
      BY <1>1, <1>3 DEF Live, Numbered
    <3> QED BY <3>1, <3>2
  <2>2. (\A m \in GensOnDisk : content[m].gen = m) /\ \A m \in KeptGens : Whole(m)'
    BY <1>1, <1>8 DEF Durable, Whole
  <2>3. n > 0 /\ n >= n
    BY <1>3, BoundAssumption DEF Gens
  <2>4. \A m : Outlived(m)' <=> Outlived(m)
    BY <1>8 DEF Outlived
  <2> QED BY <1>1, <1>3, <1>4, <1>8, <2>1, <2>2, <2>3, <2>4 DEF Durable
<1>18. lock' \in [Locks -> Procs \cup {None}] /\ lock'["deleter.mu"] = None
  BY <1>1, LockSteps
<1>19. Types'
  <2>1. /\ disk' \subseteq Files \cup PendingFiles /\ content' \in [Gens -> CommitType]
        /\ state' \in {"down", "sweeping", "opening", "open", "closed", "failed"}
        /\ tickets' \in Seq(Names \cup {NoSeg}) /\ fresh' \in Names \cup {NoSeg}
        /\ clone' \in PendType \cup {NoCommit} /\ pend' \in PendType \cup {NoCommit}
        /\ {dirty', pdirty', closing'} \subseteq BOOLEAN
        /\ refs' \in [Files -> Nat] /\ last' \subseteq Files
        /\ commits' \in Seq(CommitType) /\ todo' \in Seq(SUBSET (Files \cup PendingFiles))
    BY <1>1, <1>9 DEF Types
  <2>2. backup' \subseteq Names /\ acked' \in CommitType /\ committed' \subseteq Names
        /\ undeleted' \subseteq disk' /\ unacked' \in 0 .. MaxGen
    BY <1>1, <1>4, BoundAssumption DEF Types
  <2> QED BY <1>5, <1>7, <1>18, <2>1, <2>2 DEF Types
<1>20. Locked' /\ Committing' /\ RollingBack' /\ RollbackRestores'
  BY <1>1, <1>2, <1>3, <1>9, <1>18 DEF Locked, Committing, RollingBack, RollbackRestores
<1> QED BY <1>2, <1>10, <1>11, <1>12, <1>13, <1>15, <1>16, <1>17, <1>19, <1>20 DEF CommitInv, Live

-----------------------------------------------------------------------------
(* Rollback.                                                               *)

\* The pending commit is discarded.
LEMMA DiscardKept ==
  ASSUME Serial, CommitInv, Discard(Me)
  PROVE  CommitInv'
<1> USE Facts
<1> DEFINE P == FilesOf(pend.info.segs)
           Z == Zeroed(refs, P)
<1>1. /\ step = "discard" /\ Then(Me, <<>>) /\ Take(Me, "deleter.mu")
      /\ UNCHANGED <<content, state, closing, infos, tickets, fresh, clone, backup, dirty, pdirty, last, commits, hist>>
  BY AtStep DEF Discard
<1>2. Routed' /\ left' = 9 /\ left = 10 /\ step' = "unlink" /\ aim' = aim /\ aim = "closed"
  BY <1>1, TailAdvances DEF FlushStages, PurgeSteps
<1>3. state = "open" /\ Live /\ todo = <<>> /\ ~errs /\ ~Starting
  BY <1>1, Running DEF Starting
<1>4. lock' \in [Locks -> Procs \cup {None}] /\ lock'["deleter.mu"] = Me
  BY <1>1, LockSteps
<1>7. Pending(pend.info.gen) \notin disk
  <2>1. SUFFICES ASSUME Pending(pend.info.gen) \in disk PROVE FALSE
    OBVIOUS
  <2>2. Pending(pend.info.gen) \in PendingFiles
    BY <2>1, FileSets DEF Types
  <2>3. PICK n \in Gens : Pending(pend.info.gen) = Pending(n)
    BY <2>2 DEF PendingFiles
  <2>4. n \in PendingOnDisk
    BY <2>1, <2>3 DEF PendingOnDisk
  <2> QED BY <1>1, <1>3, <2>4, NonePending
<1>5. CASE pend = NoCommit
  <2>1. UNCHANGED <<disk, refs, todo, errs, pend>>
    BY <1>5 DEF Discard
  <2>2. Types'
    BY <1>1, <1>4, <2>1, TypesKept DEF hist
  <2>3. Locked' /\ Committing' /\ RollingBack'
    BY <1>1, <1>2, <1>3, <1>4, <1>5, <2>1 DEF Locked, Committing, RollingBack, hist
  <2> QED BY <1>1, <1>2, <2>1, <2>2, <2>3, QuietKept DEF hist
<1>6. CASE pend # NoCommit
  <2>1. /\ disk' = disk \ {Pending(pend.info.gen)} /\ refs' = DecRefs(refs, P) /\ todo' = <<Z>>
        /\ pend' = NoCommit /\ disk' = disk
    BY <1>6, <1>7 DEF Discard
  <2>2. refs \in [Files -> Nat] /\ P \subseteq Files
    BY PendTypes, FileSets DEF Types
  <2>3. pend'.info.segs = {} /\ FilesOf(pend'.info.segs) = {}
    <3>1. NoCommit.info.segs = {}
      BY DEF NoCommit
    <3>2. FilesOf({}) = {}
      BY DEF FilesOf
    <3> QED BY <2>1, <3>1, <3>2
  <2> HIDE DEF P
  <2>4. /\ refs' \in [Files -> Nat]
        /\ \A f \in Files : refs[f] >= One(P, f) => refs'[f] = refs[f] - One(P, f)
        /\ \A f : One(P, f) \in {0, 1} /\ (One(P, f) = 1 <=> f \in P)
    BY <2>1, <2>2, RefOps
  <2>5. \A f \in Files : /\ refs'[f] = CountOf(commits, f) + One(Pinned, f) + 0 + leaks[f]
                         /\ refs'[f] = refs[f] - One(P, f)
                         /\ CountOf(commits, f) > 0 => refs'[f] > 0
    <3>1. SUFFICES ASSUME NEW f \in Files
                   PROVE  /\ refs'[f] = CountOf(commits, f) + One(Pinned, f) + 0 + leaks[f]
                          /\ refs'[f] = refs[f] - One(P, f)
                          /\ CountOf(commits, f) > 0 => refs'[f] > 0
      OBVIOUS
    <3>2. /\ refs[f] = CountOf(commits, f) + One(Pinned, f) + One(P, f) + leaks[f]
          /\ refs[f] \in Nat /\ CountOf(commits, f) \in Nat /\ leaks[f] \in Nat
          /\ One(Pinned, f) \in {0, 1} /\ One(P, f) \in {0, 1}
      BY <1>3, CountParts DEF Live, P
    <3> QED BY <2>4, <3>2
  <2>6. Counted'
    <3>1. Pinned' = Pinned
      BY <1>1, <1>2 DEF Pinned
    <3>2. \A f \in Files : refs'[f] = CountOf(commits, f)' + One(Pinned, f)'
                                      + One(FilesOf(pend.info.segs), f)' + leaks'[f]
      BY <1>1, <2>3, <2>5, <3>1 DEF CountOf, One, hist
    <3> QED BY <1>1, <1>2, <1>3, <3>2 DEF Live, Counted, hist
  <2>18. kept' = kept /\ KeptGens' = KeptGens /\ ~Strayed /\ ~Strayed'
    BY <1>1, <1>2, <2>1, SameFiles DEF Strayed, hist
  <2>7. /\ GensOnDisk' = GensOnDisk /\ (\A n \in PendingOnDisk' : n \in PendingOnDisk)
        /\ \A f \in Files : f \in disk => f \in disk'
        /\ disk' \subseteq disk
    <3>1. \A f \in Files : f # Pending(pend.info.gen)
      BY FileSets
    <3>2. GensOnDisk' = GensOnDisk /\ \A n \in PendingOnDisk' : n \in PendingOnDisk
      BY <2>1, FileNames DEF GensOnDisk, PendingOnDisk
    <3> QED BY <2>1, <3>1, <3>2
  <2>8. Z \in SUBSET Files /\ \A f \in Z : refs'[f] = 0 /\ refs[f] = 1
    BY <2>2, <2>4, <2>5 DEF Zeroed
  <2>9. Deletions' /\ todo' \in Seq(SUBSET (Files \cup PendingFiles))
    <3>1. ~(aim' = "closed" /\ left' <= 4)
      BY <1>2
    <3> HIDE DEF Z
    <3> QED BY <1>1, <1>3, <2>1, <2>5, <2>7, <2>8, <2>18, <3>1, NewBatch
  <2>10. OnDisk'
    <3>1. \A f \in Files : refs'[f] > 0 => f \in kept
      <4>1. SUFFICES ASSUME NEW f \in Files, refs'[f] > 0 PROVE f \in kept
        OBVIOUS
      <4>2. refs[f] > 0
        BY <2>2, <2>4, <2>5, <4>1
      <4> QED BY <1>3, <2>18, <4>2 DEF Live, OnDisk
    <3> QED BY <1>1, <1>3, <2>18, <3>1 DEF Live, OnDisk
  <2>11. Retaining'
    <3>1. \A f : ~Doomed(f)
      BY <1>3, Batches
    <3> QED BY <1>1, <1>2, <1>3, <2>7, <2>18, <3>1, RetainingKept DEF Live, hist
  <2>12. Generations'
    BY <1>1, <1>2, <1>3, <2>1, <2>7 DEF Live, Generations, hist
  <2>13. Numbered'
    BY <1>1, <1>3, <2>1, <2>7, <2>10, <2>18, CountedNames DEF Live, hist
  <2>14. Ticketed'
    <3>1. ASSUME NEW i \in 1 .. Len(tickets), tickets[i] # NoSeg
          PROVE  refs'[Seg(tickets[i])] = 0 /\ ~Doomed(Seg(tickets[i]))' /\ Seg(tickets[i]) \in kept'
      <4>1. tickets[i] \in Names /\ refs[Seg(tickets[i])] = 0 /\ Seg(tickets[i]) \in kept
        BY <1>3, <3>1 DEF Live, Ticketed, Types
      <4>2. Seg(tickets[i]) \in Files /\ Seg(tickets[i]) \notin Z
        BY <2>8, <4>1, FileSets
      <4>3. \A f : Doomed(f)' <=> f \in Z
        BY <2>1, Batches
      <4> HIDE DEF Z
      <4>4. ~Doomed(Seg(tickets[i]))'
        BY <1>1, <4>2, <4>3
      <4>5. refs'[Seg(tickets[i])] = 0
        BY <2>4, <2>5, <4>1, <4>2
      <4> QED BY <2>18, <4>1, <4>2, <4>4, <4>5
    <3> QED BY <1>1, <1>3, <3>1 DEF Live, Ticketed
  <2>15. Durable'
    <3>1. \A s \in Names : Seg(s) \in disk => Seg(s) \in disk'
      BY <2>7, FileSets
    <3> QED BY <1>1, <2>7, <2>18, <3>1, DurableKept DEF Types, hist
  <2>16. Types'
    BY <1>1, <1>4, <2>1, <2>4, <2>7, <2>9 DEF Types, hist
  <2>17. Locked' /\ Committing' /\ RollingBack' /\ RollbackRestores'
    BY <1>1, <1>2, <1>3, <1>4, <2>1 DEF Locked, Committing, RollingBack, RollbackRestores, hist
  <2> QED BY <1>2, <2>6, <2>9, <2>10, <2>11, <2>12, <2>13, <2>14, <2>15, <2>16, <2>17 DEF CommitInv, Live
<1> QED BY <1>5, <1>6

\* Refresh: every file without a reference is to be deleted.
LEMMA RefreshKept ==
  ASSUME Serial, CommitInv, Refresh(Me)
  PROVE  CommitInv'
<1> USE Facts
<1> DEFINE Z == {f \in disk : f \notin Files \/ refs[f] = 0}
<1>1. /\ step = "refresh" /\ Then(Me, <<>>) /\ Take(Me, "deleter.mu") /\ todo' = <<Z>>
      /\ UNCHANGED <<disk, content, state, mem, refs, last, commits, errs, hist>>
  BY AtStep DEF Refresh
<1>2. Routed' /\ left' = 4 /\ left = 5 /\ step' = "unlink" /\ aim' = aim /\ aim = "closed"
  BY <1>1, TailAdvances DEF FlushStages, PurgeSteps
<1>3. state = "open" /\ Live /\ todo = <<>> /\ ~errs /\ tickets = <<>>
  BY <1>1, <1>2, Running DEF RollingBack
<1>4. lock' \in [Locks -> Procs \cup {None}] /\ lock'["deleter.mu"] = Me
  BY <1>1, LockSteps
<1>5. /\ GensOnDisk' = GensOnDisk /\ PendingOnDisk' = PendingOnDisk /\ KeptGens' = KeptGens /\ kept' = kept
      /\ Strayed' <=> Strayed
  BY <1>1, <1>2, SameFiles DEF Strayed, hist
<1>6. /\ \A f : f \in Z => f \in disk /\ (f \in Files => refs[f] = 0)
      /\ \A f \in disk : f \in Z \/ (f \in Files /\ refs[f] > 0)
      /\ Z \in SUBSET (Files \cup PendingFiles)
  <2>1. refs \in [Files -> Nat] /\ disk \subseteq Files \cup PendingFiles
    BY DEF Types
  <2> QED BY <2>1
<1> HIDE DEF Z
<1>7. \A f : Doomed(f)' <=> f \in Z
  BY <1>1, Batches
<1>8. todo' \in Seq(SUBSET (Files \cup PendingFiles)) /\ Len(todo') = 1 /\ todo'[1] = Z
  <2> DEFINE A == SUBSET (Files \cup PendingFiles)
  <2>1. Z \in A
    BY <1>6
  <2> HIDE DEF A
  <2> QED BY <1>1, <2>1 DEF A
<1>9. Deletions'
  <2>1. \A f \in Files : Doomed(f)' => refs'[f] = 0
    BY <1>1, <1>6, <1>7
  <2>2. ASSUME NEW n \in KeptGens', NEW f \in Z, f \in FilesOf(content[n].segs) PROVE FALSE
    <3>1. PICK i \in 1 .. Len(commits) : commits[i] = content[n]
      BY <1>1, <1>3, <1>5, AllRetained
    <3>2. f \in CommitFiles(commits[i])
      BY <2>2, <3>1 DEF CommitFiles
    <3>3. f \in Files /\ refs[f] > 0
      BY <1>3, <3>2, Held
    <3> QED BY <1>6, <3>3
  <2>3. \A j \in 1 .. Len(todo') : \A n \in KeptGens' : \A f \in todo'[j] :
          f \in FilesOf(content'[n].segs) => \E i \in 1 .. j : SegsN(n) \in todo'[i]
    BY <1>1, <1>8, <2>2
  <2>4. \A n \in PendingOnDisk' : FALSE
    BY <1>1, <1>3, <1>5, NonePending
  <2>5. \A f \in disk' : Doomed(f)' \/ (f \in Files /\ refs'[f] > 0)
    BY <1>1, <1>6, <1>7
  <2> QED BY <2>1, <2>3, <2>4, <2>5 DEF Deletions
<1>10. Counted'
  BY <1>1, <1>2, <1>3, CountedKept DEF Live, mem, hist
<1>11. OnDisk'
  BY <1>1, <1>2, <1>3, <1>5, OnDiskKept DEF Live, CommitType, mem
<1>12. Ticketed'
  BY <1>1, <1>3 DEF Ticketed, mem
<1>13. Retaining'
  <2>1. \A f : ~Doomed(f)
    BY <1>3, Batches
  <2> QED BY <1>1, <1>2, <1>3, <1>5, <2>1, RetainingKept DEF Live, mem, hist
<1>14. Generations'
  BY <1>1, <1>2, <1>3, <1>5, GenerationsKept DEF Live, mem, hist
<1>15. Numbered'
  BY <1>1, <1>3, NumberedKept DEF Live, mem, hist
<1>16. Durable'
  BY <1>1, <1>5, DurableKept DEF Types, hist
<1>17. Types'
  BY <1>1, <1>4, <1>8 DEF Types, mem, hist
<1>18. Locked' /\ Committing' /\ RollingBack' /\ RollbackRestores'
  BY <1>1, <1>2, <1>3, <1>4 DEF Locked, Committing, RollingBack, RollbackRestores, mem, hist
<1> QED BY <1>2, <1>9, <1>10, <1>11, <1>12, <1>13, <1>14, <1>15, <1>16, <1>17, <1>18 DEF CommitInv, Live

\* IndexFileDeleter.Close: lastFiles are released.
LEMMA CloseDeleterKept ==
  ASSUME Serial, CommitInv, CloseDeleter(Me)
  PROVE  CommitInv'
<1> USE Facts
<1> DEFINE Z == Zeroed(refs, last)
<1>1. /\ step = "closeDeleter" /\ Then(Me, <<>>) /\ Take(Me, "deleter.mu")
      /\ refs' = DecRefs(refs, last) /\ todo' = <<Z>> /\ last' = {}
      /\ UNCHANGED <<disk, content, state, mem, commits, hist>>
  BY AtStep DEF CloseDeleter
<1>2. Routed' /\ left' = 2 /\ left = 3 /\ step' = "unlink" /\ aim' = aim /\ aim = "closed"
  BY <1>1, TailAdvances DEF FlushStages, PurgeSteps
<1>3. state = "open" /\ Live /\ todo = <<>> /\ ~errs /\ tickets = <<>> /\ ~Starting
  BY <1>1, <1>2, Running DEF RollingBack, Starting
<1>4. lock' \in [Locks -> Procs \cup {None}] /\ lock'["deleter.mu"] = Me
  BY <1>1, LockSteps
<1>5. refs \in [Files -> Nat] /\ last \subseteq Files
  BY DEF Types
<1>6. Pinned = last /\ Pinned' = {}
  BY <1>1, <1>2 DEF Pinned
<1>7. /\ refs' \in [Files -> Nat]
      /\ \A f \in Files : refs[f] >= One(last, f) => refs'[f] = refs[f] - One(last, f)
      /\ \A f : One(last, f) \in {0, 1} /\ (One(last, f) = 1 <=> f \in last)
  BY <1>1, <1>5, RefOps
<1>8. \A f \in Files : /\ refs'[f] = CountOf(commits, f) + 0 + One(FilesOf(pend.info.segs), f) + leaks[f]
                       /\ refs'[f] = refs[f] - One(last, f)
                       /\ CountOf(commits, f) > 0 => refs'[f] > 0
  <2>1. SUFFICES ASSUME NEW f \in Files
                 PROVE  /\ refs'[f] = CountOf(commits, f) + 0 + One(FilesOf(pend.info.segs), f) + leaks[f]
                        /\ refs'[f] = refs[f] - One(last, f)
                        /\ CountOf(commits, f) > 0 => refs'[f] > 0
    OBVIOUS
  <2>2. /\ refs[f] = CountOf(commits, f) + One(last, f) + One(FilesOf(pend.info.segs), f) + leaks[f]
        /\ refs[f] \in Nat /\ CountOf(commits, f) \in Nat /\ leaks[f] \in Nat
        /\ One(last, f) \in {0, 1} /\ One(FilesOf(pend.info.segs), f) \in {0, 1}
    BY <1>3, <1>6, CountParts DEF Live
  <2> QED BY <1>7, <2>2
<1>9. Counted'
  <2>1. \A f \in Files : refs'[f] = CountOf(commits, f)' + One(Pinned, f)'
                                    + One(FilesOf(pend.info.segs), f)' + leaks'[f]
    BY <1>1, <1>6, <1>8 DEF CountOf, One, mem, hist
  <2> QED BY <1>1, <1>2, <1>3, <2>1 DEF Live, Counted, mem, hist
<1>10. /\ GensOnDisk' = GensOnDisk /\ PendingOnDisk' = PendingOnDisk /\ KeptGens' = KeptGens /\ kept' = kept
       /\ Strayed' <=> Strayed
  BY <1>1, <1>2, SameFiles DEF Strayed, hist
<1>11. Z \in SUBSET Files /\ \A f \in Z : refs'[f] = 0
  BY <1>5, <1>7, <1>8 DEF Zeroed
<1>12. Deletions' /\ todo' \in Seq(SUBSET (Files \cup PendingFiles))
  <2>1. \A f \in disk' : f \in Z \/ (f \in Files /\ refs'[f] > 0)
    <3>1. SUFFICES ASSUME NEW f \in disk PROVE f \in Z \/ (f \in Files /\ refs'[f] > 0)
      BY <1>1
    <3>2. ~Doomed(f)
      BY <1>3, Batches
    <3>3. f \in Files /\ refs[f] > 0
      BY <1>2, <1>3, <3>2 DEF Live, Deletions
    <3>4. refs'[f] > 0 \/ (f \in last /\ refs[f] = 1)
      BY <1>5, <1>7, <1>8, <3>3
    <3> QED BY <3>3, <3>4 DEF Zeroed
  <2> HIDE DEF Z
  <2> QED BY <1>1, <1>3, <1>8, <1>10, <1>11, <2>1, NewBatch
<1>13. OnDisk'
  <2>1. \A f \in Files : refs'[f] > 0 => f \in kept
    <3>1. SUFFICES ASSUME NEW f \in Files, refs'[f] > 0 PROVE f \in kept
      OBVIOUS
    <3>2. /\ refs'[f] = refs[f] - One(last, f) /\ refs[f] \in Nat
          /\ One(last, f) \in {0, 1} /\ (One(last, f) = 1 <=> f \in last)
      BY <1>5, <1>7, <1>8
    <3>3. refs[f] > 0 => f \in kept \/ (f \in last /\ refs[f] = 1)
      BY <1>3, <1>6 DEF Live, OnDisk
    <3> QED BY <3>1, <3>2, <3>3
  <2> QED BY <1>1, <1>3, <1>10, <2>1 DEF Live, OnDisk, mem
<1>14. Ticketed'
  BY <1>1, <1>3 DEF Ticketed, mem
<1>15. Retaining'
  <2>1. \A f : ~Doomed(f)
    BY <1>3, Batches
  <2> QED BY <1>1, <1>2, <1>3, <1>10, <2>1, RetainingKept DEF Live, mem, hist
<1>16. Generations'
  BY <1>1, <1>2, <1>3, <1>10, GenerationsKept DEF Live, mem, hist
<1>17. Numbered'
  BY <1>1, <1>3, <1>6, <1>13, CountedNames DEF Live, Numbered, mem, hist
<1>18. Durable'
  BY <1>1, <1>10, DurableKept DEF Types, hist
<1>19. Types'
  BY <1>1, <1>4, <1>7, <1>12 DEF Types, mem, hist
<1>20. Locked' /\ Committing' /\ RollingBack' /\ RollbackRestores'
  BY <1>1, <1>2, <1>3, <1>4 DEF Locked, Committing, RollingBack, RollbackRestores, mem, hist
<1> QED BY <1>2, <1>9, <1>12, <1>13, <1>14, <1>15, <1>16, <1>17, <1>18, <1>19, <1>20 DEF CommitInv, Live

\* The writer is closed: only the last commit known and what it left behind is there.
LEMMA ClosedKept ==
  ASSUME Serial, CommitInv, Closed(Me)
  PROVE  CommitInv'
<1> USE Facts
<1>1. /\ step = "closed" /\ Return(Me) /\ state' = "closed" /\ dirty' = FALSE
      /\ UNCHANGED <<disk, content, closing, infos, tickets, fresh, clone, pend, backup, pdirty, del, hist>>
  BY AtStep DEF Closed
<1>2. Routed' /\ left' = 0 /\ step' = "end" /\ aim' = "end" /\ aim = "closed" /\ left = 1
  <2>1. Routed' /\ left' = 0 /\ step' = "end" /\ aim' = "end"
    BY <1>1, Returned DEF Return
  <2> QED BY <1>1, <2>1, Rest DEF Spot, FlushStages, PurgeSteps
<1>3. state = "open" /\ Active /\ Live /\ todo = <<>> /\ ~errs /\ pend = NoCommit /\ commits \in Seq(CommitType)
  BY <1>1, <1>2, Running DEF RollingBack, Active, Types
<1>4. lock' \in [Locks -> Procs \cup {None}] /\ lock'["deleter.mu"] = None
  BY <1>1, LockSteps
<1>5. GensOnDisk' = GensOnDisk /\ PendingOnDisk' = PendingOnDisk /\ KeptGens' = KeptGens /\ Latest' = Latest
  BY <1>1, SameFiles DEF Latest, hist
<1>6. PendingOnDisk = {}
  <2>1. \A n \in PendingOnDisk : FALSE
    BY <1>1, <1>3, NonePending
  <2> QED BY <2>1
<1>7. Latest = (IF unacked = 0 THEN acked.gen ELSE unacked)
  <2>1. /\ \A n \in GensOnDisk : n <= Latest /\ n \in Int
        /\ GensOnDisk # {} => Latest \in GensOnDisk
        /\ GensOnDisk = {} => Latest = 0
    BY DiskGens
  <2>2. \A n \in GensOnDisk : commits # <<>> /\ n <= commits[Len(commits)].gen
    BY <1>1, <1>3, NoneLater
  <2>3. CASE commits = <<>>
    <3>1. acked.gen = 0 /\ unacked = 0
      BY <1>2, <1>3, <2>3 DEF Live, Retaining
    <3>2. GensOnDisk = {}
      BY <2>2, <2>3
    <3> QED BY <2>1, <3>1, <3>2
  <2>4. CASE commits # <<>>
    <3>1. commits[Len(commits)].gen = (IF unacked = 0 THEN acked.gen ELSE unacked)
      BY <1>2, <1>3, <2>4 DEF Live, Retaining
    <3>2. commits[Len(commits)].gen \in GensOnDisk
      BY <1>3, <2>4, LastCommit, KeptFiles
    <3>3. /\ Latest <= commits[Len(commits)].gen /\ commits[Len(commits)].gen <= Latest
          /\ Latest \in Int /\ commits[Len(commits)].gen \in Int
      BY <2>1, <2>2, <3>2
    <3> QED BY <3>1, <3>3
  <2> QED BY <2>3, <2>4
<1>13. undeleted = {}
  <2>1. SUFFICES ASSUME NEW f \in undeleted PROVE FALSE
    OBVIOUS
  <2>2. f \in disk /\ ~Doomed(f)
    BY <1>3, Batches DEF Types
  <2>3. f \in Files /\ refs[f] > 0
    BY <1>2, <1>3, <2>2 DEF Live, Deletions
  <2>4. Pinned = {}
    BY <1>1, <1>2, <1>3 DEF Live, Counted, Pinned
  <2>5. f \in kept
    BY <1>3, <2>3, <2>4 DEF Live, OnDisk
  <2> QED BY <2>5 DEF kept
<1>8. ASSUME NEW f \in disk PROVE leaks[f] > 0 \/ \E i \in DOMAIN commits : f \in CommitFiles(commits[i])
  <2>1. ~Doomed(f)
    BY <1>3, Batches
  <2>2. f \in Files /\ refs[f] > 0
    BY <1>2, <1>3, <2>1 DEF Live, Deletions
  <2>3. Pinned = {}
    BY <1>1, <1>2, <1>3 DEF Live, Counted, Pinned
  <2>4. f \notin FilesOf(pend.info.segs)
    BY <1>3, PendTypes DEF FilesOf
  <2>5. One(Pinned, f) = 0 /\ One(FilesOf(pend.info.segs), f) = 0
    BY <2>3, <2>4 DEF One
  <2>6. /\ refs[f] = CountOf(commits, f) + One(Pinned, f) + One(FilesOf(pend.info.segs), f) + leaks[f]
        /\ CountOf(commits, f) \in Nat /\ leaks[f] \in Nat
    BY <1>3, <2>2, CountParts DEF Live
  <2>7. leaks[f] > 0 \/ CountOf(commits, f) > 0
    BY <2>2, <2>5, <2>6
  <2>8. CountOf(commits, f) > 0 => \E i \in 1 .. Len(commits) : f \in CommitFiles(commits[i])
    BY <1>3, CountType
  <2>9. DOMAIN commits = 1 .. Len(commits)
    BY <1>3
  <2> QED BY <2>7, <2>8, <2>9
<1>9. RollbackRestores'
  <2>1. \A f \in disk' : leaks'[f] > 0 \/ \E i \in DOMAIN commits' : f \in CommitFiles(commits'[i])
    BY <1>1, <1>8 DEF del, hist
  <2> QED BY <1>1, <1>5, <1>6, <1>7, <1>13, <2>1 DEF RollbackRestores, hist
<1>10. Durable'
  BY <1>1, <1>5, SameFiles, DurableKept DEF Types, hist
<1>11. Types'
  BY <1>1, <1>4 DEF Types, del, hist
<1>12. Locked' /\ Committing' /\ RollingBack' /\ ~Active'
  BY <1>1, <1>2, <1>3, <1>4 DEF Locked, Committing, RollingBack, Active, Starting, del
<1> QED BY <1>2, <1>9, <1>10, <1>11, <1>12 DEF CommitInv

-----------------------------------------------------------------------------
(* Crash and NewIndexWriter.                                               *)

\* The process ends and leaves the directory.
LEMMA DownKept ==
  ASSUME Serial, CommitInv, Down, disk' = disk
  PROVE  CommitInv'
<1> USE Facts
<1>1. /\ state' = "down" /\ closing' = FALSE /\ infos' = Commit0 /\ tickets' = <<>> /\ fresh' = NoSeg
      /\ clone' = NoCommit /\ pend' = NoCommit /\ backup' = {} /\ dirty' = FALSE /\ pdirty' = FALSE
      /\ refs' = [f \in Files |-> 0] /\ last' = {} /\ commits' = <<>> /\ todo' = <<>> /\ errs' = FALSE
      /\ leaks' = [f \in Files |-> 0] /\ lock' = [l \in Locks |-> None] /\ pc' = [p \in Procs |-> <<>>]
      /\ UNCHANGED <<disk, content, acked, committed, undeleted, unacked>>
  BY DEF Down
<1>3. Routed' /\ step' = "end" /\ aim' = "end"
  <2>1. Me \in Procs
    BY DEF Serial
  <2>2. Steps' = <<>> /\ pc' \in [Procs -> Seq(AllSteps)]
    BY <1>1, <2>1 DEF Steps
  <2>3. Plan(<<>>)
    BY DEF Plan
  <2>4. Routed'
    BY <2>2, <2>3, Zenon DEF Routed
  <2> QED BY <2>2, <2>4, Zenon DEF step, aim, First, Final
<1>4. Types'
  <2>1. infos' \in CommitType
    BY <1>1, BoundAssumption DEF Commit0, CommitType
  <2>2. lock' \in [Locks -> Procs \cup {None}] /\ refs' \in [Files -> Nat] /\ leaks' \in [Files -> Nat]
    BY <1>1
  <2>3. tickets' \in Seq(Names \cup {NoSeg}) /\ commits' \in Seq(CommitType) /\ todo' \in Seq(SUBSET (Files \cup PendingFiles))
    BY <1>1
  <2> QED BY <1>1, <2>1, <2>2, <2>3 DEF Types
<1>5. Durable'
  BY <1>1, SameFiles, DurableKept DEF Types
<1>6. Locked' /\ Committing' /\ RollingBack' /\ RollbackRestores' /\ ~Active'
  BY <1>1, <1>3 DEF Locked, Committing, RollingBack, RollbackRestores, Active, Starting
<1> QED BY <1>3, <1>4, <1>5, <1>6 DEF CommitInv

\* A crash leaves the directory.
LEMMA CrashKept ==
  ASSUME Serial, CommitInv, Crash
  PROVE  CommitInv'
<1>1. \E lost \in {{}} : disk' = disk \ lost
  BY DEF Crash, Serial
<1>2. disk' = disk
  BY <1>1
<1> QED BY <1>2, DownKept DEF Crash

\* So does a constructor that returns an error.
LEMMA OpenFailsKept ==
  ASSUME Serial, CommitInv, OpenFails
  PROVE  CommitInv'
  BY DownKept DEF OpenFails

\* Generation and counter are past every name in the directory.
LEMMA Inflated ==
  ASSUME NEW c \in 0 .. MaxSegments
  PROVE  /\ InflatedGen \in 0 .. MaxGen /\ \A n \in GensOnDisk : n <= InflatedGen
         /\ InflatedCounter(c) \in 0 .. MaxSegments /\ c <= InflatedCounter(c)
         /\ \A s \in Names : Seg(s) \in disk => s < InflatedCounter(c)
<1> USE BoundAssumption
<1> DEFINE G == GensOnDisk \cup PendingOnDisk \cup {0}
           N == {s + 1 : s \in NamesOnDisk} \cup {c}
<1>1. (\A y \in G : y \in 0 .. MaxGen /\ y \in Int) /\ 0 \in G
  BY DEF GensOnDisk, PendingOnDisk, Gens
<1>2. (\A y \in N : y \in 0 .. MaxSegments /\ y \in Int) /\ c \in N
  BY DEF NamesOnDisk, Names
<1>3. IsFiniteSet(0 .. MaxGen) /\ IsFiniteSet(0 .. MaxSegments)
  <2>1. 0 \in Int /\ MaxGen \in Int /\ MaxSegments \in Int
    OBVIOUS
  <2> QED BY <2>1, FS_Interval
<1>4. \A s \in Names : Seg(s) \in disk => s + 1 \in N
  BY DEF NamesOnDisk
<1>5. \A n \in GensOnDisk : n \in G
  OBVIOUS
<1> HIDE DEF G, N
<1>6. Max(G) \in G /\ \A y \in G : y <= Max(G)
  <2>1. G \subseteq 0 .. MaxGen
    BY <1>1
  <2>2. IsFiniteSet(G)
    BY <1>3, <2>1, FS_Subset
  <2> QED BY <1>1, <2>2, Largest
<1>7. Max(N) \in N /\ \A y \in N : y <= Max(N)
  <2>1. N \subseteq 0 .. MaxSegments
    BY <1>2
  <2>2. IsFiniteSet(N)
    BY <1>3, <2>1, FS_Subset
  <2> QED BY <1>2, <2>2, Largest
<1>8. InflatedGen = Max(G) /\ InflatedCounter(c) = Max(N)
  BY DEF InflatedGen, InflatedCounter, G, N
<1>9. \A s \in Names : Seg(s) \in disk => s < Max(N)
  <2>1. SUFFICES ASSUME NEW s \in Names, Seg(s) \in disk PROVE s < Max(N)
    OBVIOUS
  <2>2. s \in Int
    BY DEF Names
  <2>3. s + 1 \in N
    BY <1>4, <2>1
  <2>4. s + 1 <= Max(N) /\ Max(N) \in Int
    BY <1>2, <1>7, <2>3
  <2> QED BY <2>2, <2>4
<1> QED BY <1>1, <1>2, <1>5, <1>6, <1>7, <1>8, <1>9

\* After a commit that is outlived come as many as the policy keeps.
LEMMA Outnumbered ==
  ASSUME NEW cs \in Seq(CommitType), NEW a \in 1 .. Len(cs), Outlived(cs[a].gen),
         \A i \in 1 .. Len(cs) : cs[i].gen \in Int,
         \A i, j \in 1 .. Len(cs) : i < j => cs[i].gen < cs[j].gen,
         \A n \in KeptGens : \E i \in 1 .. Len(cs) : cs[i].gen = n
  PROVE  a + Keep <= Len(cs)
<1>1. PICK w \in [1 .. Keep -> KeptGens] :
        \A i, j \in 1 .. Keep : w[i] > cs[a].gen /\ (i # j => w[i] # w[j])
  BY DEF Outlived
<1> DEFINE T == a + 1 .. Len(cs)
           g == [i \in 1 .. Keep |-> CHOOSE b \in 1 .. Len(cs) : cs[b].gen = w[i]]
<1>2. Keep \in Nat \ {0} /\ Len(cs) \in Nat /\ a \in Nat
  BY KeepAssumption
<1>3. \A i \in 1 .. Keep : g[i] \in 1 .. Len(cs) /\ cs[g[i]].gen = w[i]
  BY <1>1
<1> HIDE DEF g
<1>4. ASSUME NEW i \in 1 .. Keep PROVE g[i] \in T
  <2>1. g[i] \in 1 .. Len(cs) /\ cs[g[i]].gen > cs[a].gen /\ cs[g[i]].gen \in Int /\ cs[a].gen \in Int
    BY <1>1, <1>3
  <2>2. ~(g[i] < a) /\ g[i] # a
    BY <2>1
  <2> QED BY <1>2, <2>1, <2>2
<1>5. g \in Injection(1 .. Keep, T)
  <2>1. g \in [1 .. Keep -> T]
    <3>1. g = [i \in 1 .. Keep |-> g[i]]
      BY DEF g
    <3> HIDE DEF T
    <3> QED BY <1>4, <3>1
  <2>2. \A i, j \in 1 .. Keep : g[i] = g[j] => i = j
    BY <1>1, <1>3
  <2> QED BY <2>1, <2>2 DEF Injection, IsInjective
<1>6. IsFiniteSet(T) /\ Cardinality(T) = IF a + 1 > Len(cs) THEN 0 ELSE Len(cs) - (a + 1) + 1
  <2>1. a + 1 \in Int /\ Len(cs) \in Int
    BY <1>2
  <2> QED BY <2>1, FS_Interval
<1>7. Cardinality(1 .. Keep) = Keep
  BY <1>2, FS_Interval
<1> HIDE DEF T
<1>8. Keep <= Cardinality(T)
  BY <1>5, <1>6, <1>7, FS_Injection
<1> QED BY <1>2, <1>6, <1>8

\* What the constructor loads: the commits of the directory, and the latest.
LEMMA Loaded ==
  ASSUME CommitInv
  PROVE  LET cs == CommitsOnDisk
             latest == IF GensOnDisk = {} THEN Commit0 ELSE content[Latest]
         IN  /\ cs \in Seq(CommitType)
             /\ \A i \in 1 .. Len(cs) : cs[i].gen \in GensOnDisk /\ cs[i].gen \in Gens /\ cs[i] = content[cs[i].gen]
             /\ \A i, j \in 1 .. Len(cs) : i < j => cs[i].gen < cs[j].gen
             /\ \A n \in GensOnDisk : \E i \in 1 .. Len(cs) : cs[i].gen = n /\ cs[i] = content[n]
             /\ \A i \in 1 .. Len(cs) : \A f \in CommitFiles(cs[i]) : f \in Files /\ (cs[i].gen \in KeptGens => f \in kept)
             /\ \A i \in 1 .. Len(cs) : cs[i].gen \in KeptGens \/ i + Keep <= Len(cs)
             /\ latest \in CommitType /\ latest.segs \subseteq Names
             /\ cs = <<>> => GensOnDisk = {} /\ latest.segs = {} /\ acked.gen = 0 /\ committed = {}
             /\ cs # <<>> => /\ GensOnDisk # {} /\ cs[Len(cs)] = latest /\ Len(cs) \in 1 .. Len(cs)
                             /\ latest = content[Latest] /\ Latest \in GensOnDisk /\ Latest >= acked.gen
                             /\ latest.gen = Latest /\ Latest \in KeptGens
                             /\ \A s \in committed : s < latest.counter
<1> USE Facts
<1> DEFINE cs == CommitsOnDisk
           latest == IF GensOnDisk = {} THEN Commit0 ELSE content[Latest]
<1>1. /\ content \in [Gens -> CommitType] /\ \A n \in GensOnDisk : content[n].gen = n
  BY DEF Types, Durable
<1>2. /\ cs \in Seq(CommitType) /\ Len(cs) = Cardinality(GensOnDisk)
      /\ \A i \in 1 .. Len(cs) : cs[i].gen \in GensOnDisk /\ cs[i] = content[cs[i].gen]
      /\ \A i, j \in 1 .. Len(cs) : i < j => cs[i].gen < cs[j].gen
      /\ \A n \in GensOnDisk : \E i \in 1 .. Len(cs) : cs[i].gen = n
      /\ GensOnDisk # {} => cs # <<>> /\ cs[Len(cs)] = content[Latest]
      /\ GensOnDisk = {} => cs = <<>>
  BY <1>1, DiskCommits
<1>3. /\ \A n \in GensOnDisk : n \in Gens /\ n \in Int /\ n > 0 /\ n <= Latest
      /\ GensOnDisk # {} => Latest \in GensOnDisk
      /\ Latest \in Int
  BY DiskGens
<1> HIDE DEF cs
<1>4. \A i \in 1 .. Len(cs) : \A f \in CommitFiles(cs[i]) : f \in Files /\ (cs[i].gen \in KeptGens => f \in kept)
  <2>1. SUFFICES ASSUME NEW i \in 1 .. Len(cs), NEW f \in CommitFiles(cs[i])
                 PROVE  f \in Files /\ (cs[i].gen \in KeptGens => f \in kept)
    OBVIOUS
  <2>2. cs[i].gen \in GensOnDisk /\ cs[i].gen \in Gens /\ cs[i] = content[cs[i].gen] /\ cs[i] \in CommitType
    BY <1>2, <1>3
  <2>3. cs[i].gen \in KeptGens => FilesOf(cs[i].segs) \subseteq kept /\ SegsN(cs[i].gen) \in kept
    BY <2>2, KeptFiles DEF Durable, Whole
  <2>4. FilesOf(cs[i].segs) \subseteq Files /\ SegsN(cs[i].gen) \in Files
    BY <2>2, FileSets DEF CommitType
  <2> QED BY <2>3, <2>4 DEF CommitFiles
<1>5. latest \in CommitType /\ latest.segs \subseteq Names
  <2>1. Commit0 \in CommitType
    BY BoundAssumption DEF Commit0, CommitType
  <2>2. latest \in CommitType
    BY <1>1, <1>3, <2>1
  <2> QED BY <2>2 DEF CommitType
<1>6. acked.gen \in Nat
  BY BoundAssumption DEF Types, CommitType
<1>7. ASSUME cs = <<>> PROVE GensOnDisk = {} /\ latest.segs = {} /\ acked.gen = 0 /\ committed = {}
  <2>1. GensOnDisk = {}
    BY <1>2, <1>7
  <2>2. acked.gen = 0 /\ committed = {}
    BY <1>6, <2>1, KeptFiles DEF Durable
  <2> QED BY <2>1, <2>2 DEF Commit0
<1>8. ASSUME cs # <<>>
      PROVE  /\ GensOnDisk # {} /\ cs[Len(cs)] = latest /\ Len(cs) \in 1 .. Len(cs)
             /\ latest = content[Latest] /\ Latest \in GensOnDisk /\ Latest >= acked.gen
             /\ latest.gen = Latest /\ Latest \in KeptGens
             /\ \A s \in committed : s < latest.counter
  <2>1. GensOnDisk # {} /\ Latest \in GensOnDisk /\ latest = content[Latest] /\ Len(cs) \in 1 .. Len(cs)
    BY <1>2, <1>3, <1>8
  <2>2. Latest >= acked.gen
    <3>1. CASE acked.gen = 0
      BY <1>3, <2>1, <3>1
    <3>2. CASE acked.gen > 0
      <4>1. PICK n \in KeptGens : n >= acked.gen
        BY <3>2 DEF Durable
      <4>2. n \in GensOnDisk
        BY KeptFiles
      <4> QED BY <1>3, <1>6, <4>1, <4>2
    <3> QED BY <1>6, <3>1, <3>2
  <2>3. \A s \in committed : s < content[Latest].counter
    BY <2>1, <2>2 DEF Durable
  <2>4. Latest \in KeptGens
    <3>1. PICK m \in KeptGens : Latest <= m
      BY <2>1 DEF Durable
    <3>2. m = Latest
      BY <1>3, <3>1, KeptFiles
    <3> QED BY <3>1, <3>2
  <2> QED BY <1>1, <1>2, <2>1, <2>2, <2>3, <2>4
<1>9. \A n \in GensOnDisk : \E i \in 1 .. Len(cs) : cs[i].gen = n /\ cs[i] = content[n]
  BY <1>2
<1>10. ASSUME NEW i \in 1 .. Len(cs), cs[i].gen \notin KeptGens PROVE i + Keep <= Len(cs)
  <2>1. \A j \in 1 .. Len(cs) : cs[j].gen \in Int
    BY <1>2, <1>3
  <2>2. \A n \in KeptGens : \E j \in 1 .. Len(cs) : cs[j].gen = n
    BY <1>2, KeptFiles
  <2>3. Outlived(cs[i].gen)
    BY <1>2, <1>10 DEF Durable
  <2> QED BY <1>2, <2>1, <2>2, <2>3, Outnumbered
<1> HIDE DEF latest
<1> QED BY <1>2, <1>3, <1>4, <1>5, <1>7, <1>8, <1>9, <1>10 DEF cs, latest

\* The constructor deletes what no commit holds, then what the policy let go.
LEMMA OpenBatches ==
  ASSUME NEW U \in SUBSET (Files \cup PendingFiles), NEW b \in Seq(SUBSET Files), todo' = <<U>> \o b
  PROVE  /\ todo' \in Seq(SUBSET (Files \cup PendingFiles)) /\ todo'[1] = U /\ 1 \in 1 .. Len(todo')
         /\ \A j \in 1 .. Len(b) : j + 1 \in 1 .. Len(todo') /\ todo'[j + 1] = b[j]
         /\ \A j \in 1 .. Len(todo') : j = 1 \/ (j - 1 \in 1 .. Len(b) /\ todo'[j] = b[j - 1])
<1> DEFINE A == SUBSET (Files \cup PendingFiles)
           B == SUBSET Files
<1>1. U \in A /\ B \subseteq A /\ b \in Seq(B)
  OBVIOUS
<1> HIDE DEF A, B
<1>2. b \in Seq(A) /\ Len(b) \in Nat
  BY <1>1
<1>3. todo' \in Seq(A) /\ Len(todo') = Len(b) + 1 /\ todo'[1] = U
  BY <1>1, <1>2
<1>4. \A j \in 1 .. Len(b) : todo'[j + 1] = b[j]
  BY <1>1, <1>2
<1>5. \A j \in 1 .. Len(b) + 1 : j = 1 \/ (j - 1 \in 1 .. Len(b) /\ todo'[j] = b[j - 1])
  <2>1. SUFFICES ASSUME NEW j \in 1 .. Len(b) + 1, j # 1 PROVE j - 1 \in 1 .. Len(b) /\ todo'[j] = b[j - 1]
    OBVIOUS
  <2>2. j - 1 \in 1 .. Len(b) /\ (j - 1) + 1 = j
    BY <1>2, <2>1
  <2> QED BY <1>4, <2>2
<1>6. 1 \in 1 .. Len(b) + 1 /\ \A j \in 1 .. Len(b) : j + 1 \in 1 .. Len(b) + 1
  BY <1>2
<1> QED BY <1>3, <1>4, <1>5, <1>6 DEF A

\* A writer opens.
LEMMA OpenKept ==
  ASSUME Serial, CommitInv, Open
  PROVE  CommitInv'
<1> USE Facts
<1> DEFINE cs == CommitsOnDisk
           latest == IF GensOnDisk = {} THEN Commit0 ELSE content[Latest]
           F == FilesOf(latest.segs)
           counted == [f \in Files |-> Cardinality({i \in DOMAIN cs : f \in CommitFiles(cs[i])})]
           r == IncRefAll(counted, F)
           d == DeleteCommits(r, Expired(cs))
           k == Retained(cs)
           X == [f \in Files |-> One(F, f)]
           U == {f \in disk : f \notin Files \/ counted[f] = 0}
<1>1. /\ state \in {"down", "closed"} /\ (\A p \in Procs : pc[p] = <<>>)
      /\ infos' = [segs |-> latest.segs, gen |-> InflatedGen, counter |-> InflatedCounter(latest.counter)]
      /\ backup' = latest.segs /\ refs' = d.refs /\ last' = F /\ commits' = k /\ todo' = <<U>> \o d.batch
      /\ state' = "sweeping" /\ dirty' = (GensOnDisk = {}) /\ pdirty' = (GensOnDisk = {})
      /\ acked' = (IF GensOnDisk = {} THEN acked ELSE content[Latest])
      /\ tickets' = <<>> /\ pend' = NoCommit /\ closing' = FALSE /\ leaks' = [f \in Files |-> 0]
      /\ unacked' = 0
      /\ UNCHANGED <<disk, content, fresh, clone, lock, pc, committed, undeleted>>
  BY DEF Open
<1>2. step = "end" /\ aim = "end" /\ Routed' /\ step' = "end" /\ aim' = "end"
  <2>1. Steps = <<>>
    BY <1>1 DEF Steps, Serial
  <2>2. step = "end" /\ aim = "end"
    BY <2>1, Zenon DEF step, aim, First, Final
  <2> QED BY <1>1, <2>2, Stayed
<1>3. /\ cs \in Seq(CommitType)
      /\ \A i \in 1 .. Len(cs) : cs[i].gen \in GensOnDisk /\ cs[i].gen \in Gens /\ cs[i] = content[cs[i].gen]
      /\ \A i, j \in 1 .. Len(cs) : i < j => cs[i].gen < cs[j].gen
      /\ \A n \in GensOnDisk : \E i \in 1 .. Len(cs) : cs[i].gen = n /\ cs[i] = content[n]
      /\ \A i \in 1 .. Len(cs) : \A f \in CommitFiles(cs[i]) : f \in Files /\ (cs[i].gen \in KeptGens => f \in kept)
      /\ \A i \in 1 .. Len(cs) : cs[i].gen \in KeptGens \/ i + Keep <= Len(cs)
      /\ latest \in CommitType /\ latest.segs \subseteq Names
      /\ cs = <<>> => GensOnDisk = {} /\ latest.segs = {} /\ acked.gen = 0 /\ committed = {}
      /\ cs # <<>> => /\ GensOnDisk # {} /\ cs[Len(cs)] = latest /\ Len(cs) \in 1 .. Len(cs)
                      /\ latest = content[Latest] /\ Latest \in GensOnDisk /\ Latest >= acked.gen
                      /\ latest.gen = Latest /\ Latest \in KeptGens
                      /\ \A s \in committed : s < latest.counter
  BY Loaded
<1>4. acked' = IF cs = <<>> THEN acked ELSE latest
  BY <1>1, <1>3
<1>5. counted \in [Files -> Nat] /\ \A f \in Files : counted[f] = CountOf(cs, f)
  <2>1. \A f \in Files : CountOf(cs, f) \in Nat
    BY <1>3, CountType
  <2>2. counted = [f \in Files |-> CountOf(cs, f)]
    BY DEF CountOf
  <2> HIDE DEF counted, cs
  <2> QED BY <2>1, <2>2
<1>6. /\ \A f : f \in U <=> f \in disk /\ (f \notin Files \/ CountOf(cs, f) = 0)
      /\ U \in SUBSET (Files \cup PendingFiles)
  <2>1. disk \subseteq Files \cup PendingFiles
    BY DEF Types
  <2> HIDE DEF cs, counted
  <2> QED BY <1>5, <2>1
<1> HIDE DEF U, counted, cs, latest
<1>7. \A f \in F : f \in Files /\ f \in kept /\ \E i \in 1 .. Len(cs) : f \in CommitFiles(cs[i])
  <2>1. SUFFICES ASSUME NEW f \in F PROVE f \in Files /\ f \in kept /\ \E i \in 1 .. Len(cs) : f \in CommitFiles(cs[i])
    OBVIOUS
  <2>2. cs # <<>>
    BY <1>3, FileSets
  <2>3. f \in CommitFiles(cs[Len(cs)]) /\ Len(cs) \in 1 .. Len(cs)
    BY <1>3, <2>2 DEF CommitFiles
  <2>4. cs[Len(cs)].gen \in KeptGens
    BY <1>3, <2>2
  <2> QED BY <1>3, <2>3, <2>4
<1>8. \A n : SegsN(n) \notin F
  BY FileSets
<1> HIDE DEF F
<1>9. r \in [Files -> Nat] /\ \A f \in Files : r[f] = CountOf(cs, f) + One(F, f)
  BY <1>5, RefOps
<1>10. X \in [Files -> Nat] /\ \A f \in Files : X[f] = One(F, f)
  <2>1. \A f : One(F, f) \in Nat
    BY DEF One
  <2> QED BY <2>1
<1> HIDE DEF r, X
<1>11. \A n \in Gens : X[SegsN(n)] = 0
  BY <1>8, <1>10, FileSets DEF One
<1>12. Trimmed(cs, X, d.refs, d.batch, k)
  <2>1. \A f \in Files : r[f] = CountOf(cs, f) + X[f]
    BY <1>9, <1>10
  <2>2. \A i \in 1 .. Len(cs) : cs[i].gen \in Gens
    BY <1>3
  <2> QED BY <1>3, <1>9, <1>10, <1>11, <2>1, <2>2, LetGo
<1> HIDE DEF d, k
<1>13. /\ refs' \in [Files -> Nat] /\ \A f \in Files : refs'[f] = CountOf(k, f) + One(F, f)
       /\ k \in Seq(CommitType) /\ Len(k) <= Keep
       /\ cs # <<>> => k # <<>> /\ k[Len(k)] = cs[Len(cs)]
       /\ cs = <<>> => k = <<>>
       /\ \A i \in 1 .. Len(k) : \E j \in 1 .. Len(cs) : k[i] = cs[j]
       /\ \A i, j \in 1 .. Len(k) : i < j => k[i].gen < k[j].gen
       /\ d.batch \in Seq(SUBSET Files)
       /\ \A j \in 1 .. Len(d.batch) : \A f \in d.batch[j] :
            /\ refs'[f] = 0 /\ \E i \in 1 .. Len(cs) : f \in CommitFiles(cs[i])
            /\ \A i \in 1 .. Len(cs) : f \in CommitFiles(cs[i]) =>
                 \E h \in 1 .. j : SegsN(cs[i].gen) \in d.batch[h]
       /\ \A i \in 1 .. Len(cs) :
            \/ \E j \in 1 .. Len(k) : k[j] = cs[i]
            \/ /\ Len(k) = Keep /\ \A j \in 1 .. Len(k) : cs[i].gen < k[j].gen
               /\ \E j \in 1 .. Len(d.batch) : SegsN(cs[i].gen) \in d.batch[j]
       /\ \A i \in 1 .. Len(cs), j \in 1 .. Len(k) : i + Keep <= Len(cs) => cs[i].gen < k[j].gen
  <2>1. \A f \in Files : d.refs[f] = CountOf(k, f) + X[f]
    BY <1>12, Zenon DEF Trimmed
  <2>2. \A f \in Files : refs'[f] = CountOf(k, f) + One(F, f)
    BY <1>1, <1>10, <2>1
  <2>3. refs' = d.refs
    BY <1>1
  <2> QED BY <1>12, <2>2, <2>3, Zenon DEF Trimmed
<1>14. \A f \in Files : refs'[f] > 0 => \E i \in 1 .. Len(cs) : f \in CommitFiles(cs[i])
  <2>1. SUFFICES ASSUME NEW f \in Files, refs'[f] > 0 PROVE \E i \in 1 .. Len(cs) : f \in CommitFiles(cs[i])
    OBVIOUS
  <2>2. refs'[f] = CountOf(k, f) + One(F, f) /\ CountOf(k, f) \in Nat
    BY <1>13, CountType
  <2>3. f \in F \/ CountOf(k, f) > 0
    BY <2>1, <2>2 DEF One
  <2>4. CountOf(k, f) > 0 => \E i \in 1 .. Len(k) : f \in CommitFiles(k[i])
    BY <1>13, CountType
  <2> QED BY <1>7, <1>13, <2>3, <2>4
\* A commit that could not be deleted is let go again; the others are whole.
<1>29. ASSUME NEW i \in 1 .. Len(k)
       PROVE  k[i].gen \in KeptGens /\ \A f \in CommitFiles(k[i]) : f \in kept
  <2>1. PICK j \in 1 .. Len(cs) : k[i] = cs[j]
    BY <1>13
  <2>2. cs[j].gen \in Int
    BY <1>3, DiskGens
  <2>3. ~(j + Keep <= Len(cs))
    BY <1>13, <2>1, <2>2
  <2> QED BY <1>3, <2>1, <2>3
<1>30. \A f \in Files : refs'[f] > 0 => f \in kept
  <2>1. SUFFICES ASSUME NEW f \in Files, refs'[f] > 0 PROVE f \in kept
    OBVIOUS
  <2>2. refs'[f] = CountOf(k, f) + One(F, f) /\ CountOf(k, f) \in Nat
    BY <1>13, CountType
  <2>3. f \in F \/ CountOf(k, f) > 0
    BY <2>1, <2>2 DEF One
  <2>4. CountOf(k, f) > 0 => \E i \in 1 .. Len(k) : f \in CommitFiles(k[i])
    BY <1>13, CountType
  <2> QED BY <1>7, <1>29, <2>3, <2>4
<1>15. /\ GensOnDisk' = GensOnDisk /\ PendingOnDisk' = PendingOnDisk
       /\ kept' = kept /\ KeptGens' = KeptGens /\ ~Strayed'
  BY <1>1, SameFiles DEF Strayed
<1>16. \A f \in U : f \in Files => refs'[f] = 0 /\ ~\E i \in 1 .. Len(cs) : f \in CommitFiles(cs[i])
  <2>1. SUFFICES ASSUME NEW f \in U, f \in Files
                 PROVE  refs'[f] = 0 /\ ~\E i \in 1 .. Len(cs) : f \in CommitFiles(cs[i])
    OBVIOUS
  <2>2. CountOf(cs, f) = 0
    BY <1>6, <2>1
  <2>3. ~\E i \in 1 .. Len(cs) : f \in CommitFiles(cs[i])
    BY <1>3, <2>2, CountType
  <2>4. refs'[f] \in Nat /\ ~(refs'[f] > 0)
    BY <1>13, <1>14, <2>1, <2>3
  <2> QED BY <2>3, <2>4
<1>17. /\ Deletions' /\ todo' \in Seq(SUBSET (Files \cup PendingFiles))
       /\ \A f : Doomed(f)' <=> f \in U \/ \E j \in 1 .. Len(d.batch) : f \in d.batch[j]
  <2> DEFINE b == d.batch
  <2>1. ASSUME NEW n \in KeptGens', NEW f \in U, f \in FilesOf(content[n].segs) PROVE FALSE
    <3>1. PICK i \in 1 .. Len(cs) : cs[i].gen = n /\ cs[i] = content[n]
      BY <1>3, <1>15, KeptFiles
    <3>2. f \in CommitFiles(cs[i])
      BY <2>1, <3>1 DEF CommitFiles
    <3> QED BY <1>3, <1>16, <3>2
  <2>2. \A n \in PendingOnDisk' : Pending(n) \in U
    BY <1>6, <1>15, FileSets DEF PendingOnDisk
  <2>3. ~(aim' = "closed" /\ left' <= 4) /\ Starting'
    BY <1>1, <1>2 DEF Starting
  <2>4. b \in Seq(SUBSET Files)
    BY <1>13
  <2>5. /\ todo' \in Seq(SUBSET (Files \cup PendingFiles)) /\ todo'[1] = U /\ 1 \in 1 .. Len(todo')
        /\ \A j \in 1 .. Len(b) : j + 1 \in 1 .. Len(todo') /\ todo'[j + 1] = b[j]
        /\ \A j \in 1 .. Len(todo') : j = 1 \/ (j - 1 \in 1 .. Len(b) /\ todo'[j] = b[j - 1])
    BY <1>1, <1>6, <2>4, OpenBatches
  <2>6. /\ \A j \in 1 .. Len(b) : \A f \in b[j] :
             /\ refs'[f] = 0
             /\ \A i \in 1 .. Len(cs) : f \in CommitFiles(cs[i]) => \E h \in 1 .. j : SegsN(cs[i].gen) \in b[h]
    BY <1>13
  <2> HIDE DEF b
  <2>7. \A f : Doomed(f)' <=> f \in U \/ \E j \in 1 .. Len(b) : f \in b[j]
    <3>1. ASSUME NEW f, Doomed(f)' PROVE f \in U \/ \E j \in 1 .. Len(b) : f \in b[j]
      BY <2>5, <3>1 DEF Doomed
    <3>2. ASSUME NEW f, f \in U PROVE Doomed(f)'
      BY <2>5, <3>2 DEF Doomed
    <3>3. ASSUME NEW f, NEW j \in 1 .. Len(b), f \in b[j] PROVE Doomed(f)'
      BY <2>5, <3>3 DEF Doomed
    <3> QED BY <3>1, <3>2, <3>3
  <2>8. ASSUME NEW j \in 1 .. Len(todo'), NEW n \in KeptGens', NEW f \in todo'[j], f \in FilesOf(content[n].segs)
        PROVE  \E i \in 1 .. j : SegsN(n) \in todo'[i]
    <3>1. j # 1
      BY <2>1, <2>5, <2>8
    <3>2. j - 1 \in 1 .. Len(b) /\ f \in b[j - 1]
      BY <2>5, <2>8, <3>1
    <3>3. PICK i \in 1 .. Len(cs) : cs[i].gen = n /\ cs[i] = content[n]
      BY <1>3, <1>15, KeptFiles
    <3>4. f \in CommitFiles(cs[i])
      BY <2>8, <3>3 DEF CommitFiles
    <3>5. PICK h \in 1 .. j - 1 : SegsN(n) \in b[h]
      BY <2>6, <3>2, <3>3, <3>4
    <3>6. h \in 1 .. Len(b) /\ h + 1 \in 1 .. j
      BY <2>4, <2>5, <3>2
    <3> QED BY <2>5, <3>5, <3>6
  <2>9. \A f \in Files : Doomed(f)' => refs'[f] = 0
    BY <1>16, <2>6, <2>7
  <2>10. \A j \in 1 .. Len(todo') : \A n \in KeptGens' : \A f \in todo'[j] :
           f \in FilesOf(content'[n].segs) => \E i \in 1 .. j : SegsN(n) \in todo'[i]
    BY <1>1, <2>8
  <2>11. Deletions'
    BY <2>2, <2>3, <2>7, <2>9, <2>10 DEF Deletions
  <2> QED BY <2>5, <2>7, <2>11 DEF b
<1>18. /\ infos' \in CommitType /\ infos'.segs = latest.segs /\ infos'.gen = InflatedGen
       /\ infos'.counter = InflatedCounter(latest.counter) /\ infos'.gen \in 0 .. MaxGen
       /\ \A n \in GensOnDisk : n <= infos'.gen
       /\ infos'.counter \in 0 .. MaxSegments /\ latest.counter <= infos'.counter /\ latest.counter \in Int
       /\ \A s \in Names : Seg(s) \in disk => s < infos'.counter
  <2>1. latest.counter \in 0 .. MaxSegments
    BY <1>3 DEF CommitType
  <2>2. /\ InflatedGen \in 0 .. MaxGen /\ \A n \in GensOnDisk : n <= InflatedGen
        /\ InflatedCounter(latest.counter) \in 0 .. MaxSegments /\ latest.counter <= InflatedCounter(latest.counter)
        /\ \A s \in Names : Seg(s) \in disk => s < InflatedCounter(latest.counter)
    BY <2>1, Inflated
  <2>3. /\ infos'.segs = latest.segs /\ infos'.gen = InflatedGen
        /\ infos'.counter = InflatedCounter(latest.counter)
    BY <1>1
  <2>4. infos' \in CommitType
    BY <1>1, <1>3, <2>2 DEF CommitType
  <2> QED BY <2>1, <2>2, <2>3, <2>4
<1>19. pend'.info.segs = {} /\ FilesOf(pend'.info.segs) = {}
  <2>1. NoCommit.info.segs = {}
    BY DEF NoCommit
  <2>2. FilesOf({}) = {}
    BY DEF FilesOf
  <2> QED BY <1>1, <2>1, <2>2
<1>20. Counted'
  <2>1. Pinned' = F /\ last' = FilesOf(infos'.segs)
    BY <1>1, <1>2, <1>18 DEF Pinned, F
  <2>2. \A f \in Files : CountOf(k, f) \in Nat /\ One(F, f) \in Nat
    BY <1>13, CountType DEF One
  <2>3. \A f \in Files : refs'[f] = CountOf(k, f) + One(F, f) + 0 + 0
    BY <1>13, <2>2
  <2>4. \A f \in Files : refs'[f] = CountOf(commits, f)' + One(Pinned, f)'
                                    + One(FilesOf(pend.info.segs), f)' + leaks'[f]
    BY <1>1, <1>19, <2>1, <2>3 DEF CountOf, One
  <2>5. \A n \in Gens : leaks'[SegsN(n)] = 0
    BY <1>1, FileSets
  <2> QED BY <1>2, <2>1, <2>4, <2>5 DEF Counted
<1>21. OnDisk'
  <2>1. FilesOf(infos'.segs) \subseteq kept
    BY <1>7, <1>18 DEF F
  <2> QED BY <1>15, <1>30, <2>1 DEF OnDisk
<1>22. Retaining'
  <2>1. \A i \in 1 .. Len(k) : k[i].gen > 0 /\ k[i] = content[k[i].gen]
    <3>1. ASSUME NEW i \in 1 .. Len(k) PROVE k[i].gen \in Gens /\ k[i] = content[k[i].gen]
      <4>1. PICK j \in 1 .. Len(cs) : k[i] = cs[j]
        BY <1>13
      <4>2. cs[j].gen \in Gens /\ cs[j] = content[cs[j].gen]
        BY <1>3
      <4> QED BY <4>1, <4>2
    <3> QED BY <3>1, BoundAssumption DEF Gens
  <2>2. \A n \in GensOnDisk :
          \/ \E i \in 1 .. Len(k) : k[i].gen = n
          \/ Len(k) = Keep /\ (\A i \in 1 .. Len(k) : n < k[i].gen) /\ Doomed(SegsN(n))'
    <3>1. SUFFICES ASSUME NEW n \in GensOnDisk
                   PROVE  \/ \E i \in 1 .. Len(k) : k[i].gen = n
                          \/ Len(k) = Keep /\ (\A i \in 1 .. Len(k) : n < k[i].gen) /\ Doomed(SegsN(n))'
      OBVIOUS
    <3>2. PICK i \in 1 .. Len(cs) : cs[i].gen = n
      BY <1>3
    <3>4. \/ \E j \in 1 .. Len(k) : k[j] = cs[i]
          \/ /\ Len(k) = Keep /\ \A j \in 1 .. Len(k) : cs[i].gen < k[j].gen
             /\ \E j \in 1 .. Len(d.batch) : SegsN(cs[i].gen) \in d.batch[j]
      BY <1>13
    <3> QED BY <1>17, <3>2, <3>4
  <2>3. IF k = <<>> THEN acked'.gen = 0 /\ backup' = {} /\ unacked' = 0
        ELSE acked' = k[Len(k)] /\ backup' = acked'.segs
    BY <1>1, <1>3, <1>4, <1>13
  <2> QED BY <1>1, <1>13, <1>15, <2>1, <2>2, <2>3 DEF Retaining
<1>23. Generations'
  <2>1. acked'.gen <= infos'.gen
    <3>1. CASE cs = <<>>
      BY <1>3, <1>4, <1>18, <3>1
    <3>2. CASE cs # <<>>
      BY <1>3, <1>4, <1>18, <3>2
    <3> QED BY <3>1, <3>2
  <2> QED BY <1>1, <1>15, <1>18, <2>1 DEF Generations
<1>24. Numbered'
  <2>1. \A s \in Names : refs'[Seg(s)] > 0 => Seg(s) \in disk
    BY <1>30, KeptFiles, FileSets
  <2>2. \A s \in committed : s < infos'.counter
    <3>1. CASE cs = <<>>
      BY <1>3, <3>1
    <3>2. CASE cs # <<>>
      <4>1. \A s \in committed : s \in Int /\ s < latest.counter
        BY <1>3, <3>2 DEF Types, Names
      <4> QED BY <1>18, <4>1
    <3> QED BY <3>1, <3>2
  <2>3. \A s \in backup' : s < infos'.counter
    <3>1. SUFFICES ASSUME NEW s \in latest.segs PROVE s < infos'.counter
      BY <1>1
    <3>2. Seg(s) \in F /\ s \in Names
      BY <1>3, FileSets DEF F
    <3> QED BY <1>7, <1>18, <3>2, KeptFiles
  <2> QED BY <1>1, <1>18, <2>1, <2>2, <2>3 DEF Numbered
<1>25. Ticketed'
  BY <1>1 DEF Ticketed
<1>26. Durable'
  <2>1. /\ \A n \in GensOnDisk : content[n].gen = n
        /\ \A n \in KeptGens : Whole(n)'
    BY <1>1, <1>15 DEF Durable, Whole
  <2>2. /\ \A n \in GensOnDisk : \E m \in KeptGens : n <= m
        /\ \A n \in GensOnDisk : n \in KeptGens \/ Outlived(n)'
    <3>1. \A n : Outlived(n)' <=> Outlived(n)
      BY <1>15 DEF Outlived
    <3> QED BY <3>1 DEF Durable
  <2>3. CASE cs = <<>>
    <3>1. acked' = acked
      BY <1>4, <2>3
    <3>2. acked'.gen = 0 /\ committed = {}
      BY <1>3, <2>3, <3>1
    <3> QED BY <1>1, <1>15, <2>1, <2>2, <3>1, <3>2 DEF Durable
  <2>4. CASE cs # <<>>
    <3>1. acked' = content[Latest] /\ acked'.gen = Latest /\ Latest \in KeptGens /\ Latest \in GensOnDisk /\ Latest >= acked.gen
      BY <1>3, <1>4, <2>4
    <3>2. Latest \in Int /\ Latest > 0 /\ acked.gen \in Int /\ \A n \in GensOnDisk : n \in Int
      BY <3>1, DiskGens DEF Types, CommitType
    <3>3. \A n \in GensOnDisk, s \in committed : n >= Latest => s < content[n].counter
      <4>1. \A n \in GensOnDisk : n >= Latest => n >= acked.gen
        BY <3>1, <3>2
      <4> QED BY <4>1 DEF Durable
    <3>4. acked'.gen > 0 /\ acked'.gen \in GensOnDisk' /\ acked'.gen \in KeptGens' /\ acked'.gen >= acked'.gen /\ acked'.gen # 0
      BY <1>15, <3>1, <3>2
    <3> QED BY <1>1, <1>15, <2>1, <2>2, <3>1, <3>3, <3>4 DEF Durable
  <2> QED BY <2>3, <2>4
<1>27. Types'
  <2>1. backup' \subseteq Names /\ last' \subseteq Files /\ acked' \in CommitType
    BY <1>1, <1>3, <1>4, <1>7 DEF Types
  <2>2. leaks' \in [Files -> Nat] /\ tickets' \in Seq(Names \cup {NoSeg}) /\ pend' \in PendType \cup {NoCommit}
        /\ {dirty', pdirty', closing'} \subseteq BOOLEAN /\ commits' \in Seq(CommitType)
    <3>1. leaks' \in [Files -> Nat]
      BY <1>1
    <3>2. tickets' \in Seq(Names \cup {NoSeg})
      <4>1. <<>> \in Seq(Names \cup {NoSeg})
        OBVIOUS
      <4> QED BY <1>1, <4>1
    <3>3. pend' \in PendType \cup {NoCommit}
      BY <1>1
    <3>4. dirty' \in BOOLEAN /\ pdirty' \in BOOLEAN /\ closing' \in BOOLEAN
      <4>1. (GensOnDisk = {}) \in BOOLEAN
        BY Zenon
      <4> QED BY <1>1, <4>1, Zenon
    <3>5. commits' \in Seq(CommitType)
      BY <1>1, <1>13
    <3> QED BY <3>1, <3>2, <3>3, <3>4, <3>5
  <2>3. undeleted' \subseteq disk' /\ unacked' \in 0 .. MaxGen
    BY <1>1, BoundAssumption DEF Types
  <2> QED BY <1>1, <1>13, <1>17, <1>18, <2>1, <2>2, <2>3 DEF Types
<1>28. Locked' /\ Committing' /\ RollingBack' /\ RollbackRestores'
  BY <1>1, <1>2 DEF Starting, Locked, Committing, RollingBack, RollbackRestores
<1> QED BY <1>2, <1>17, <1>20, <1>21, <1>22, <1>23, <1>24, <1>25, <1>26, <1>27, <1>28 DEF CommitInv, Live

-----------------------------------------------------------------------------
(* The invariant and the theorems.                                         *)

\* An empty directory and no writer.
LEMMA InitInv == Serial /\ Init => CommitInv
<1>1. SUFFICES ASSUME Serial, Init PROVE CommitInv
  OBVIOUS
<1> USE BoundAssumption
<1>2. Steps = <<>> /\ pc \in [Procs -> Seq(AllSteps)]
  <2>1. <<>> \in Seq(AllSteps)
    OBVIOUS
  <2>2. Me \in Procs /\ pc = [p \in Procs |-> <<>>]
    BY <1>1 DEF Serial, Init
  <2> QED BY <2>1, <2>2 DEF Steps
<1>3. Routed
  <2>1. Plan(<<>>)
    BY DEF Plan
  <2> QED BY <1>2, <2>1 DEF Routed
<1>4. step = "end" /\ aim = "end" /\ left = 0
  BY <1>2 DEF step, aim, left, First, Final
<1>5. Commit0 \in CommitType
  BY DEF Commit0, CommitType
<1>6. disk = {} /\ GensOnDisk = {} /\ state = "down" /\ todo = <<>> /\ ~errs
  BY <1>1 DEF Init, GensOnDisk
<1>7. Types
  <2>1. content \in [Gens -> CommitType] /\ infos \in CommitType /\ acked \in CommitType
    BY <1>1, <1>5 DEF Init
  <2>2. refs \in [Files -> Nat] /\ leaks \in [Files -> Nat]
    BY <1>1 DEF Init
  <2>3. lock \in [Locks -> Procs \cup {None}]
    BY <1>1 DEF Init
  <2>4. tickets \in Seq(Names \cup {NoSeg}) /\ commits \in Seq(CommitType) /\ todo \in Seq(SUBSET (Files \cup PendingFiles))
    <3>1. <<>> \in Seq(Names \cup {NoSeg}) /\ <<>> \in Seq(CommitType) /\ <<>> \in Seq(SUBSET (Files \cup PendingFiles))
      OBVIOUS
    <3> QED BY <1>1, <3>1, Zenon DEF Init
  <2>5. /\ clone \in PendType \cup {NoCommit} /\ pend \in PendType \cup {NoCommit}
        /\ fresh \in Names \cup {NoSeg}
    BY <1>1 DEF Init
  <2>6. /\ disk \subseteq Files \cup PendingFiles /\ backup \subseteq Names /\ last \subseteq Files
        /\ committed \subseteq Names /\ {dirty, pdirty, closing} \subseteq BOOLEAN
    BY <1>1 DEF Init
  <2>7. undeleted \subseteq disk /\ unacked \in 0 .. MaxGen
    BY <1>1 DEF Init
  <2> QED BY <1>6, <2>1, <2>2, <2>3, <2>4, <2>5, <2>6, <2>7 DEF Types
<1>8. Locked
  <2>1. lock["deleter.mu"] = None
    BY <1>1 DEF Init, Locks
  <2> QED BY <1>4, <1>6, <2>1 DEF Locked
<1>9. Committing /\ RollingBack
  BY <1>4 DEF Committing, RollingBack
<1>10. Durable
  <2>1. KeptGens = {}
    BY <1>6 DEF KeptGens
  <2>2. acked.gen = 0 /\ committed = {}
    BY <1>1 DEF Init, Commit0
  <2> QED BY <1>6, <2>1, <2>2 DEF Durable
<1>11. ~Active /\ RollbackRestores
  BY <1>4, <1>6 DEF Active, Starting, RollbackRestores
<1> QED BY <1>3, <1>7, <1>8, <1>9, <1>10, <1>11 DEF CommitInv

\* A step that changes nothing.
LEMMA StutterKept ==
  ASSUME CommitInv, UNCHANGED vars
  PROVE  CommitInv'
<1>1. /\ UNCHANGED <<disk, content, state, closing, infos, tickets, fresh, clone, pend, backup, dirty, pdirty>>
      /\ UNCHANGED <<refs, last, commits, todo, errs, lock, pc, acked, committed, leaks, undeleted, unacked>>
  BY DEF vars, mem, del, hist
<1>2. Steps' = Steps /\ step' = step /\ aim' = aim /\ left' = left
  BY <1>1 DEF Steps, step, aim, left
<1>3. GensOnDisk' = GensOnDisk /\ PendingOnDisk' = PendingOnDisk /\ Latest' = Latest /\ Pinned' = Pinned
      /\ kept' = kept /\ KeptGens' = KeptGens /\ (Strayed' <=> Strayed) /\ (Starting' <=> Starting)
  BY <1>1, <1>2 DEF GensOnDisk, PendingOnDisk, Latest, Pinned, kept, KeptGens, Strayed, Starting
<1>4. \A n : (Whole(n)' <=> Whole(n)) /\ (Outlived(n)' <=> Outlived(n))
  BY <1>1, <1>3 DEF Whole, Outlived
<1>5. \A f : Doomed(f)' <=> Doomed(f)
  BY <1>1 DEF Doomed
<1>6. Routed' /\ Types' /\ Locked'
  BY <1>1, <1>2, <1>3 DEF CommitInv, Routed, Types, Locked
<1>7. Committing' /\ RollingBack'
  BY <1>1, <1>2, <1>3 DEF CommitInv, Committing, RollingBack
<1>8. Durable'
  BY <1>1, <1>3, <1>4 DEF CommitInv, Durable
<1>9. RollbackRestores'
  BY <1>1, <1>3 DEF CommitInv, RollbackRestores
<1>10. ASSUME Active' PROVE Live'
  <2>1. Live
    BY <1>1, <1>2, <1>3, <1>10 DEF CommitInv, Active
  <2>2. Counted'
    BY <1>1, <1>2, <1>3, <2>1 DEF Live, Counted, CountOf, One
  <2>3. OnDisk' /\ Ticketed' /\ Numbered'
    BY <1>1, <1>3, <1>5, <2>1 DEF Live, OnDisk, Ticketed, Numbered
  <2>4. Deletions'
    BY <1>1, <1>2, <1>3, <1>5, <2>1 DEF Live, Deletions
  <2>5. Retaining' /\ Generations'
    BY <1>1, <1>2, <1>3, <1>5, <2>1 DEF Live, Retaining, Generations
  <2> QED BY <2>2, <2>3, <2>4, <2>5 DEF Live
<1> QED BY <1>6, <1>7, <1>8, <1>9, <1>10 DEF CommitInv

\* The steps of a commit.
LEMMA CommitStepsKept ==
  ASSUME Serial, CommitInv, CommitSteps(Me)
  PROVE  CommitInv'
BY EntersKept, ReturnsKept, CloneKept, ProtectKept, WriteKept, WriteFailsKept, RenameKept, RenameFailsKept,
   SyncKept, SyncFailsKept, RegisterKept, FinishCommitKept, Zenon DEF CommitSteps

\* The steps of a flush, and of the deleter.
LEMMA FlushingKept ==
  ASSUME Serial, CommitInv, FlushSteps(Me)
  PROVE  CommitInv'
BY FlushDWPTKept, TryPurgeKept, PublishSegmentKept, ChangedStepKept, ReturnsKept, FlushStepsKept, DropsKept,
   FlushAllKept, PoolKept, EntersKept, UnlinkStepKept, UnlinkFailsKept, CheckpointStepKept,
   PinStepKept, PinFailsKept, PublishFailsKept, Zenon DEF FlushSteps

\* The steps of a rollback, and Close.
LEMMA CloseStepsKept ==
  ASSUME Serial, CommitInv, CloseSteps(Me)
  PROVE  CommitInv'
BY EntersKept, AbortKept, DiscardKept, RestoreKept, RefreshKept, CloseDeleterKept, ClosedKept, CloseKept,
   Zenon DEF CloseSteps

\* Every step of the writer, of its constructor and every crash keeps the invariant.
LEMMA InvKept == Serial /\ CommitInv /\ [Next]_vars => CommitInv'
<1>1. SUFFICES ASSUME Serial, CommitInv, [Next]_vars PROVE CommitInv'
  OBVIOUS
<1>2. CASE UNCHANGED vars
  BY <1>1, <1>2, StutterKept
<1>3. CASE Open \/ Opening \/ OpenFails \/ Crash
  BY <1>1, <1>3, OpenKept, OpeningKept, OpenFailsKept, CrashKept
<1>4. CASE \E p \in Procs : CommitSteps(p) \/ FlushSteps(p) \/ CloseSteps(p)
  <2>1. PICK p \in Procs : CommitSteps(p) \/ FlushSteps(p) \/ CloseSteps(p)
    BY <1>4
  <2>2. p = Me
    BY <1>1 DEF Serial
  <2>3. CommitSteps(Me) \/ FlushSteps(Me) \/ CloseSteps(Me)
    BY <2>1, <2>2
  <2> QED BY <1>1, <2>3, CommitStepsKept, FlushingKept, CloseStepsKept
<1> QED BY <1>1, <1>2, <1>3, <1>4 DEF Next

\* The invariant of the commit path.
LEMMA CommitInvariant ==
  ASSUME Serial
  PROVE  Spec => []CommitInv
<1>1. Init => CommitInv
  BY InitInv
<1>2. CommitInv /\ [Next]_vars => CommitInv'
  BY InvKept
<1> QED BY <1>1, <1>2, PTL DEF Spec

\* CommitsComplete: at every point of a commit, of a rollback, of the deletion
\* of old commits and of opening, whatever failed and crashed before, every
\* segments_N in the directory names segments whose files are there, except
\* one whose own deletion failed (IndexFileDeleter, the two passes of
\* FileDeleter.delete, finishCommit).
THEOREM CommitsAreComplete ==
  ASSUME Serial
  PROVE  Spec => []CommitsComplete
<1>1. CommitInv => CommitsComplete
  BY DEF CommitInv, Durable, CommitsComplete, KeptGens, Whole, Readable, kept
<1> QED BY <1>1, CommitInvariant, PTL

\* AckedSurvives: the commit acknowledged last, or a later one, is what a new
\* writer finds, over any number of failed commits and crashes, and its content
\* is never replaced (finishCommit, SegmentInfos.FinishCommit, inflateGens).
THEOREM AcknowledgedCommitSurvives ==
  ASSUME Serial
  PROVE  Spec => []AckedSurvives
<1>1. CommitInv => AckedSurvives
  <2>1. SUFFICES ASSUME CommitInv, acked.gen > 0
                 PROVE  /\ Latest >= acked.gen /\ Readable(Latest)
                        /\ SegsN(acked.gen) \in disk => content[acked.gen] = acked
    BY DEF AckedSurvives
  <2>2. acked.gen \in Int /\ acked.gen \in 0 .. MaxGen
    BY <2>1, BoundAssumption DEF CommitInv, Types, CommitType
  <2>3. PICK n \in KeptGens : n >= acked.gen
    BY <2>1 DEF CommitInv, Durable
  <2>4. n \in Int /\ Latest \in Int /\ n <= Latest /\ Latest \in GensOnDisk
    BY <2>3, DiskGens, KeptFiles, BoundAssumption
  <2>5. Readable(Latest)
    <3>1. PICK m \in KeptGens : Latest <= m
      BY <2>1, <2>4 DEF CommitInv, Durable
    <3>2. m = Latest
      BY <2>4, <3>1, DiskGens, KeptFiles
    <3> QED BY <2>1, <3>1, <3>2 DEF CommitInv, Durable, Whole, Readable, kept
  <2>6. SegsN(acked.gen) \in disk => content[acked.gen] = acked
    <3>1. SegsN(acked.gen) \in disk => acked.gen \in GensOnDisk
      BY <2>1, <2>2, BoundAssumption DEF GensOnDisk, Gens
    <3> QED BY <2>1, <3>1 DEF CommitInv, Durable
  <2> QED BY <2>2, <2>3, <2>4, <2>5, <2>6
<1> QED BY <1>1, CommitInvariant, PTL

\* HeldFilesOnDisk: no file of the live segments, of the pending commit or of
\* a retained commit is deleted while the writer is open, whatever deletion or
\* checkpoint failed before; the segments a rollback restores after a Commit
\* that failed with its commit on disk are excepted (the reference counts of
\* IndexFileDeleter over FileDeleter).
THEOREM HeldFilesStay ==
  ASSUME Serial
  PROVE  Spec => []HeldFilesOnDisk
<1>1. CommitInv => HeldFilesOnDisk
  <2>1. SUFFICES ASSUME CommitInv, state = "open" PROVE HeldFilesOnDisk
    BY DEF HeldFilesOnDisk
  <2>2. Live /\ Types /\ Routed
    BY <2>1 DEF CommitInv, Active
  <2>3. ~Strayed => FilesOf(infos.segs) \subseteq disk
    BY <2>2, KeptFiles DEF Live, OnDisk
  <2>4. Strayed => unacked # 0 /\ infos.segs = backup
    BY <2>1 DEF CommitInv, RollingBack, Strayed
  <2>5. DOMAIN commits = 1 .. Len(commits)
    BY <2>2 DEF Types
  <2>6. pend # NoCommit => FilesOf(pend.info.segs) \subseteq disk
    BY <2>1, <2>2, Held, KeptFiles
  <2>7. \A i \in 1 .. Len(commits) : CommitFiles(commits[i]) \subseteq disk
    BY <2>1, <2>2, Held, KeptFiles
  <2> QED BY <2>3, <2>4, <2>5, <2>6, <2>7 DEF HeldFilesOnDisk
<1> QED BY <1>1, CommitInvariant, PTL

\* FilesCounted: the state has its types, files are deleted under deleter.mu or
\* by the constructor only, and between operations of the deleter every count
\* is the number of holders plus the references that are never released,
\* those of a checkpoint whose deletion failed included
\* (IndexFileDeleter.Checkpoint, deleteCommits, Protect and finishCommit).
THEOREM CountsAreExact ==
  ASSUME Serial
  PROVE  Spec => []FilesCounted
<1>1. CommitInv => FilesCounted
  <2>1. SUFFICES ASSUME CommitInv PROVE FilesCounted
    OBVIOUS
  <2>2. Me # None
    BY NoneAssumption DEF Serial
  <2>3. Types /\ Locked
    BY <2>1 DEF CommitInv
  <2>4. lock["deleter.mu"] = None => step \notin {"unlink", "pin"}
    BY <2>2, <2>3 DEF Locked
  <2>5. todo # <<>> \/ errs => state \in {"sweeping", "opening"} \/ lock["deleter.mu"] # None
    BY <2>3, <2>4 DEF Locked, Starting
  <2>6. TypeOK
    BY <2>3, <2>5 DEF Types, TypeOK, PendingFiles
  <2>7. ASSUME state = "open", lock["deleter.mu"] = None, NEW f \in Files
        PROVE  refs[f] = Holders(f) + leaks[f]
    <3>1. Counted
      BY <2>1, <2>7 DEF CommitInv, Active, Live
    <3>2. Pinned = last
      BY <2>4, <2>7 DEF Pinned
    <3>3. refs[f] = CountOf(commits, f) + One(last, f) + One(FilesOf(pend.info.segs), f) + leaks[f]
      BY <3>1, <3>2 DEF Counted
    <3> QED BY <3>3 DEF Holders, CountOf, One
  <2> QED BY <2>6, <2>7 DEF FilesCounted, RefsExact
<1> QED BY <1>1, CommitInvariant, PTL

\* RollbackRestores: when a rollback has closed the writer, the index is at
\* the commit known last, or at the one whose Commit returned the error of a
\* deletion; no pending_segments_N and no file whose deletion failed is left,
\* and every other file belongs to a commit or is one a reference was left
\* behind on (rollbackInternal, IndexFileDeleter.Refresh and Close).
THEOREM RollbackReturnsToCommit ==
  ASSUME Serial
  PROVE  Spec => []RollbackRestores
<1>1. CommitInv => RollbackRestores
  BY DEF CommitInv
<1> QED BY <1>1, CommitInvariant, PTL

\* NamesFresh: a new segment never takes the name of a file that exists or of
\* a segment some commit contained, across rollbacks and crashes
\* (newSegmentName, inflateGens and the counter in segments_N).
THEOREM NamesAreFresh ==
  ASSUME Serial
  PROVE  Spec => NamesFresh
<1>1. CommitInv /\ CommitInv' /\ infos'.counter = infos.counter + 1 /\ state = "open" =>
        infos.counter \notin committed /\ Seg(infos.counter) \notin disk
  <2>1. SUFFICES ASSUME CommitInv, CommitInv', infos'.counter = infos.counter + 1, state = "open"
                 PROVE  infos.counter \notin committed /\ Seg(infos.counter) \notin disk
    OBVIOUS
  <2>2. Numbered
    BY <2>1 DEF CommitInv, Active, Live
  <2>3. infos.counter \in 0 .. MaxSegments /\ infos'.counter \in 0 .. MaxSegments
    BY <2>1 DEF CommitInv, Types, CommitType
  <2>4. infos.counter \in Names /\ ~(infos.counter < infos.counter)
    BY <2>1, <2>3, BoundAssumption DEF Names
  <2> QED BY <2>2, <2>4 DEF Numbered
<1>2. Spec => []CommitInv
  BY CommitInvariant
<1> QED BY <1>1, <1>2, PTL DEF NamesFresh
=============================================================================
