---------------------------- MODULE ServiceProofs ----------------------------
(***************************************************************************)
(* Proofs about the services around the writer: ConcurrentMergeScheduler,  *)
(* for any number of callers and merges and any limits on threads and      *)
(* merges, with and without Close and AbortAll; the snapshot policy, for   *)
(* any number of goroutines, commits, files and restarts; and the two lock *)
(* factories, for any number of goroutines and processes and any sequence  *)
(* of crashes.                                                             *)
(***************************************************************************)
EXTENDS MergeScheduler, LockFactories, Snapshots, FiniteSetTheorems, TLAPS

\* Callers, merges and the absence of a merge are told apart, and the writer
\* offers no merge that it also passes to MergeWithSpec.
Distinct ==
  NoMerge \notin Merges /\ Callers \cap Merges = {} /\ Offered \cap Given = {}

-----------------------------------------------------------------------------
(* The inductive invariant.                                                *)

InHand == {"limit", "waitThread", "requeue", "spawn", "count"}
Stages == InHand \cup {"start", "stall", "doStall", "stalled", "next", "waitAll"}
CallerSteps == Stages \cup {"idle", "close"}
Alive == Stages \cup {"execute", "merging", "remove", "uncount"}
ThreadSteps == Alive \cup {"unborn", "leave", "gone"}

Waiting(m) == m \in offer \cup specs
Queued(m) == \E i \in 1 .. Len(pending) : pending[i] = m
Held(m) == \E a \in Actors : hand[a] = m
Born(m) == pc[m] # "unborn"

\* Who can be at which step, and the thread counts.
Steps ==
  /\ pc \in [Actors -> CallerSteps \cup ThreadSteps]
  /\ \A c \in Callers : pc[c] \in CallerSteps
  /\ \A m \in Merges : pc[m] \in ThreadSteps
  /\ running = {m \in Merges : pc[m] \in Alive}
  /\ wait = {m \in Merges : pc[m] \in Alive \cup {"leave"}}
  /\ hand \in [Actors -> Merges \cup {NoMerge}]
  /\ \A a \in Actors : hand[a] # NoMerge <=> pc[a] \in InHand
  /\ threads \subseteq Merges

\* A merge is in one place at a time: with the writer, queued, in the hand of
\* one actor, or a thread; and nowhere only if it was dropped by AbortAll.
Places ==
  /\ offer \subseteq Offered /\ specs \subseteq Given /\ pending \in Seq(Merges)
  /\ \A i, j \in 1 .. Len(pending) : pending[i] = pending[j] => i = j
  /\ \A a, b \in Actors : hand[a] = hand[b] /\ hand[a] # NoMerge => a = b
  /\ \A m \in Merges : Waiting(m) => ~Queued(m) /\ ~Held(m) /\ ~Born(m)
  /\ \A m \in Merges : Queued(m) => ~Held(m) /\ ~Born(m)
  /\ \A m \in Merges : Held(m) => ~Born(m)
  /\ \A m \in Merges : Waiting(m) \/ Queued(m) \/ Held(m) \/ Born(m) \/ m \in dropped

Outcomes == {"cancelled", "merged", "failed", "not implemented"}

\* A thread executes its merge once.
Executions ==
  /\ ran \in [Merges -> Seq(Outcomes)]
  /\ \A m \in Merges : Len(ran[m]) <= 1
  /\ \A m \in Merges : pc[m] \in {"unborn", "execute", "merging"} => ran[m] = <<>>

\* After the cancellation no thread begins to merge, and Close returns when
\* those that had begun are over.
Shutting ==
  /\ \A c \in Callers : pc[c] = "close" => cancelled
  /\ shut => cancelled /\ \A m \in Merges : pc[m] # "merging"

MergeInv == Steps /\ Places /\ Executions /\ Shutting

-----------------------------------------------------------------------------
(* Steps of one actor.                                                     *)

\* An actor goes to a step, and a broadcast may wake others that are stalled.
Moved(a, to) ==
  /\ pc' \in [Actors -> CallerSteps \cup ThreadSteps] /\ pc'[a] = to
  /\ \A b \in Actors : b # a => pc'[b] = pc[b] \/ (pc[b] = "stalled" /\ pc'[b] = "stall")

\* Goto moves one actor.
LEMMA Goes ==
  ASSUME Steps, NEW a \in Actors, NEW to \in CallerSteps \cup ThreadSteps, Goto(a, to)
  PROVE  Moved(a, to)
  BY DEF Steps, Goto, Moved

\* A broadcast wakes the stalled.
LEMMA Wakes ==
  ASSUME Steps, NEW a \in Actors, NEW to \in (CallerSteps \cup ThreadSteps) \ {"stalled"},
         NEW q \in [Actors -> CallerSteps \cup ThreadSteps],
         q[a] = to, \A b \in Actors : b # a => q[b] = pc[b], pc' = Wake(q)
  PROVE  Moved(a, to)
  <1>1. "stall" \in CallerSteps \cup ThreadSteps
    BY DEF CallerSteps, Stages
  <1>2. pc' \in [Actors -> CallerSteps \cup ThreadSteps]
    BY <1>1 DEF Wake
  <1> QED BY <1>2 DEF Wake, Moved

\* The steps of an actor that keep it among the callers or the live threads.
LEMMA StepsKept ==
  ASSUME Distinct, Steps, NEW a \in Actors, NEW to, Moved(a, to), UNCHANGED <<running, wait>>,
         threads' \subseteq Merges,
         a \in Callers => to \in CallerSteps, a \in Merges => pc[a] \in Alive /\ to \in Alive,
         hand' \in [Actors -> Merges \cup {NoMerge}], \A b \in Actors : b # a => hand'[b] = hand[b],
         hand'[a] # NoMerge <=> to \in InHand
  PROVE  Steps'
  <1>1. "stall" \in Stages /\ "stalled" \in Stages /\ "stall" \notin InHand /\ "stalled" \notin InHand
    BY DEF Stages, InHand
  <1>2. Stages \subseteq CallerSteps /\ Stages \subseteq Alive /\ Alive \subseteq ThreadSteps
    BY DEF CallerSteps, Alive, ThreadSteps
  <1>3. /\ \A c \in Callers : pc'[c] \in CallerSteps
        /\ \A m \in Merges : pc'[m] \in ThreadSteps
    BY <1>1, <1>2 DEF Steps, Moved, Actors
  <1>4. \A m \in Merges : (pc'[m] \in Alive <=> pc[m] \in Alive) /\ (pc'[m] = "leave" <=> pc[m] = "leave")
    <2>1. "leave" \notin Alive
      BY DEF Alive, Stages, InHand
    <2> QED BY <1>1, <1>2, <2>1 DEF Moved, Actors
  <1>5. running' = {m \in Merges : pc'[m] \in Alive} /\ wait' = {m \in Merges : pc'[m] \in Alive \cup {"leave"}}
    BY <1>4 DEF Steps
  <1>6. \A b \in Actors : hand'[b] # NoMerge <=> pc'[b] \in InHand
    BY <1>1 DEF Steps, Moved
  <1> QED BY <1>3, <1>5, <1>6 DEF Steps, Moved

\* Who is born stays so.
LEMMA BornKept ==
  ASSUME Distinct, Steps, NEW a \in Actors, NEW to, Moved(a, to), a \in Merges => (pc[a] = "unborn" <=> to = "unborn")
  PROVE  \A m \in Merges : Born(m)' <=> Born(m)
  BY DEF Moved, Born, Actors

\* Nothing changes place.
LEMMA PlacesKept ==
  ASSUME Places, UNCHANGED <<queues, hand>>, \A m \in Merges : Born(m)' <=> Born(m)
  PROVE  Places'
  <1>1. UNCHANGED <<offer, specs, pending, dropped, hand>>
    BY DEF queues
  <1>2. \A m : Waiting(m)' = Waiting(m) /\ Queued(m)' = Queued(m) /\ Held(m)' = Held(m)
    BY <1>1 DEF Waiting, Queued, Held
  <1> QED BY <1>1, <1>2 DEF Places

\* Steps that execute nothing.
LEMMA ExecutionsKept ==
  ASSUME Distinct, Executions, NEW a \in Actors, NEW to, Moved(a, to), UNCHANGED ran,
         a \in Merges => to \notin {"unborn", "execute", "merging"}
  PROVE  Executions'
  BY DEF Executions, Moved, Actors

\* Steps that neither begin to merge nor close.
LEMMA ShuttingKept ==
  ASSUME Distinct, Shutting, NEW a \in Actors, NEW to, Moved(a, to), UNCHANGED shut, cancelled => cancelled',
         to # "merging", a \in Callers /\ to = "close" => cancelled'
  PROVE  Shutting'
  BY DEF Shutting, Moved, Actors

\* An actor goes on in MergeInternal, or a caller calls or returns.
LEMMA Plain ==
  ASSUME Distinct, MergeInv, NEW a \in Actors, NEW to, Moved(a, to),
         UNCHANGED <<queues, running, wait, hand, ran, shut>>, cancelled => cancelled', threads' \subseteq Merges,
         \/ pc[a] \in Stages /\ to \in Stages
         \/ a \in Callers /\ to \in CallerSteps
         \/ a \in Merges /\ pc[a] \in Alive /\ to \in {"remove", "uncount"},
         pc[a] \in InHand <=> to \in InHand,
         to = "close" => cancelled'
  PROVE  MergeInv'
  <1>1. /\ Stages \subseteq CallerSteps /\ Stages \subseteq Alive /\ {"remove", "uncount"} \subseteq Alive
        /\ Stages \cap {"unborn", "execute", "merging", "close"} = {} /\ "unborn" \notin Alive
        /\ CallerSteps \cap {"unborn", "execute", "merging"} = {}
    BY DEF CallerSteps, Alive, Stages, InHand
  <1>2. a \notin Callers \/ a \notin Merges
    BY DEF Distinct
  <1>3. a \in Callers => to \in CallerSteps
    BY <1>1, <1>2
  <1>4. a \in Merges => pc[a] \in Alive /\ to \in Alive
    BY <1>1, <1>2
  <1>5. a \in Merges => to \notin {"unborn", "execute", "merging"}
    BY <1>1, <1>2
  <1>6. to # "merging"
    BY <1>1
  <1>7. Steps'
    BY <1>3, <1>4, StepsKept DEF MergeInv, Steps
  <1>8. Places'
    BY <1>1, <1>4, BornKept, PlacesKept DEF MergeInv
  <1>9. Executions'
    BY <1>5, ExecutionsKept DEF MergeInv
  <1>10. Shutting'
    BY <1>6, ShuttingKept DEF MergeInv
  <1> QED BY <1>7, <1>8, <1>9, <1>10 DEF MergeInv
-----------------------------------------------------------------------------
(* Actions that leave every merge where it is.                             *)

\* The steps by name.
LEMMA StepNames ==
  /\ Stages \subseteq CallerSteps \cup ThreadSteps /\ InHand \subseteq Stages
  /\ {"start", "stall", "doStall", "stalled", "next", "waitAll"} \subseteq Stages \ InHand
  /\ {"idle", "close"} \subseteq CallerSteps /\ {"idle", "close", "remove", "uncount"} \cap InHand = {}
  /\ {"remove", "uncount"} \subseteq ThreadSteps
  BY DEF Stages, InHand, CallerSteps, Alive, ThreadSteps

\* A caller calls Merge, or Close ends without success.
LEMMA CallInv ==
  ASSUME Distinct, MergeInv, NEW c \in Callers, Merge(c) \/ Close(c) \/ CloseTimesOut(c)
  PROVE  MergeInv'
  <1>1. c \in Actors /\ threads' \subseteq Merges
    BY DEF Actors, Merge, Close, CloseTimesOut, MergeInv, Steps
  <1>2. ASSUME NEW to \in {"start", "close", "idle"}, Goto(c, to), UNCHANGED <<queues, running, wait, hand, ran, shut>>,
               cancelled => cancelled', to = "close" => cancelled', pc[c] \in {"idle", "close"}
        PROVE  MergeInv'
    <2>1. Moved(c, to) /\ to \in CallerSteps /\ to \notin InHand /\ pc[c] \notin InHand
      BY <1>1, <1>2, StepNames, Goes DEF MergeInv, CallerSteps
    <2> QED BY <1>1, <1>2, <2>1, Plain
  <1>3. CASE Merge(c)
    BY <1>2, <1>3 DEF Merge
  <1>4. CASE Close(c)
    BY <1>2, <1>4 DEF Close
  <1>5. CASE CloseTimesOut(c)
    BY <1>2, <1>5 DEF CloseTimesOut
  <1> QED BY <1>3, <1>4, <1>5

\* MergeInternal between the queues.
LEMMA InternalInv ==
  ASSUME Distinct, MergeInv, NEW a \in Actors,
         Start(a) \/ MaybeStall(a) \/ DoStall(a) \/ CheckLimit(a) \/ WaitForMergeThread(a) \/ Spawn(a) \/ WaitForAllMerges(a)
  PROVE  MergeInv'
  <1>1. ASSUME NEW to \in Stages, Goto(a, to), UNCHANGED <<queues, running, wait, hand, ran, shut, cancelled>>,
               threads' \subseteq Merges, pc[a] \in Stages, pc[a] \in InHand <=> to \in InHand
        PROVE  MergeInv'
    <2>1. Moved(a, to) /\ to # "close"
      BY <1>1, StepNames, Goes DEF MergeInv, Stages, InHand
    <2> QED BY <1>1, <2>1, Plain
  <1>2. ASSUME Back(a), UNCHANGED <<queues, running, wait, hand, ran, shut, cancelled>>,
               threads' \subseteq Merges, pc[a] \in {"start", "waitAll"}
        PROVE  MergeInv'
    <2>1. pc[a] \in Stages /\ pc[a] \notin InHand /\ pc[a] \in Alive
      BY <1>2 DEF Stages, InHand, Alive
    <2>2. CASE a \in Callers
      <3>1. Moved(a, "idle")
        BY <1>2, <2>2, StepNames, Goes DEF Back, MergeInv
      <3> QED BY <1>2, <2>1, <2>2, <3>1, StepNames, Plain
    <2>3. CASE a \notin Callers
      <3>1. Moved(a, "remove") /\ a \in Merges
        BY <1>2, <2>3, StepNames, Goes DEF Back, MergeInv, Actors
      <3> QED BY <1>2, <2>1, <3>1, StepNames, Plain
    <2> QED BY <2>2, <2>3
  <1>3. threads \subseteq Merges
    BY DEF MergeInv, Steps
  <1>4. CASE Start(a)
    <2>1. UNCHANGED <<queues, running, wait, hand, ran, shut, cancelled, threads>> /\ pc[a] = "start"
          /\ (Back(a) \/ Goto(a, "stall"))
      BY <1>4 DEF Start
    <2> QED BY <1>1, <1>2, <1>3, <2>1, StepNames
  <1>5. CASE MaybeStall(a)
    <2>1. UNCHANGED <<queues, running, wait, hand, ran, shut, cancelled, threads>> /\ pc[a] = "stall"
          /\ (Goto(a, "doStall") \/ Goto(a, "next"))
      BY <1>5 DEF MaybeStall
    <2> QED BY <1>1, <1>3, <2>1, StepNames
  <1>6. CASE DoStall(a)
    <2>1. UNCHANGED <<queues, running, wait, hand, ran, shut, cancelled, threads>> /\ pc[a] = "doStall" /\ Goto(a, "stalled")
      BY <1>6 DEF DoStall
    <2> QED BY <1>1, <1>3, <2>1, StepNames
  <1>7. CASE CheckLimit(a)
    <2>1. UNCHANGED <<queues, running, wait, hand, ran, shut, cancelled, threads>> /\ pc[a] = "limit"
          /\ (Goto(a, "spawn") \/ Goto(a, "waitThread"))
      BY <1>7 DEF CheckLimit
    <2>2. {"limit", "spawn", "waitThread"} \subseteq InHand
      BY DEF InHand
    <2> QED BY <1>1, <1>3, <2>1, <2>2, StepNames
  <1>8. CASE WaitForMergeThread(a)
    <2>1. UNCHANGED <<queues, running, wait, hand, ran, shut, cancelled, threads>> /\ pc[a] = "waitThread" /\ Goto(a, "requeue")
      BY <1>8 DEF WaitForMergeThread
    <2>2. {"waitThread", "requeue"} \subseteq InHand
      BY DEF InHand
    <2> QED BY <1>1, <1>3, <2>1, <2>2, StepNames
  <1>9. CASE Spawn(a)
    <2>1. UNCHANGED <<queues, running, wait, hand, ran, shut, cancelled>> /\ pc[a] = "spawn" /\ Goto(a, "count")
          /\ threads' = threads \cup {hand[a]}
      BY <1>9 DEF Spawn
    <2>2. {"spawn", "count"} \subseteq InHand
      BY DEF InHand
    <2>3. hand[a] \in Merges
      BY <2>1, <2>2 DEF MergeInv, Steps
    <2> QED BY <1>1, <1>3, <2>1, <2>2, <2>3, StepNames
  <1>10. CASE WaitForAllMerges(a)
    <2>1. UNCHANGED <<queues, running, wait, hand, ran, shut, cancelled, threads>> /\ pc[a] = "waitAll" /\ Back(a)
      BY <1>10 DEF WaitForAllMerges
    <2> QED BY <1>2, <1>3, <2>1
  <1> QED BY <1>4, <1>5, <1>6, <1>7, <1>8, <1>9, <1>10

\* A thread takes itself off the list and wakes the stalled.
LEMMA RemoveInv == ASSUME Distinct, MergeInv, NEW m \in Merges, RemoveMergeThread(m) PROVE MergeInv'
  <1>1. /\ pc[m] = "remove" /\ threads' = threads \ {m} /\ pc' = Wake([pc EXCEPT ![m] = "uncount"])
        /\ UNCHANGED <<queues, running, wait, hand, ran, shut, cancelled>>
    BY DEF RemoveMergeThread
  <1>2. m \in Actors /\ pc \in [Actors -> CallerSteps \cup ThreadSteps] /\ threads \subseteq Merges
    BY DEF Actors, MergeInv, Steps
  <1>3. Moved(m, "uncount")
    <2> DEFINE q == [pc EXCEPT ![m] = "uncount"]
    <2>1. "uncount" \in CallerSteps \cup ThreadSteps
      BY StepNames
    <2>2. q \in [Actors -> CallerSteps \cup ThreadSteps] /\ q[m] = "uncount" /\ \A b \in Actors : b # m => q[b] = pc[b]
      BY <1>2, <2>1
    <2> HIDE DEF q
    <2>3. pc' = Wake(q)
      BY <1>1 DEF q
    <2> QED BY <1>2, <2>1, <2>2, <2>3, Wakes DEF MergeInv
  <1>4. pc[m] \in Alive
    BY <1>1 DEF Alive
  <1>5. "remove" \notin InHand /\ "uncount" \notin InHand
    BY StepNames
  <1> QED BY <1>1, <1>2, <1>3, <1>4, <1>5, Plain
-----------------------------------------------------------------------------
(* A merge thread.                                                         *)

\* A thread that has not begun executes its merge, or sees the cancellation.
LEMMA ExecuteInv == ASSUME Distinct, MergeInv, NEW m \in Merges, Execute(m) \/ DoMerge(m) PROVE MergeInv'
  <1>0. m \in Actors /\ m \notin Callers /\ Steps /\ Places /\ Executions /\ Shutting
    BY DEF Actors, MergeInv, Distinct
  <1>1. /\ pc[m] \in {"execute", "merging"} /\ UNCHANGED <<queues, threads, wait, running, cancelled, hand, shut>>
        /\ \/ Goto(m, "merging") /\ ~cancelled /\ UNCHANGED ran
           \/ Goto(m, "start") /\ \E r \in Outcomes : ran' = [ran EXCEPT ![m] = Append(@, r)]
    <2>1. CASE Execute(m)
      <3>1. /\ pc[m] = "execute" /\ UNCHANGED <<queues, threads, wait, running, cancelled, hand, shut>>
            /\ \/ cancelled /\ Goto(m, "start") /\ ran' = [ran EXCEPT ![m] = Append(@, "cancelled")]
               \/ ~cancelled /\ Goto(m, "merging") /\ UNCHANGED ran
        BY <2>1 DEF Execute
      <3>2. "cancelled" \in Outcomes
        BY DEF Outcomes
      <3> QED BY <3>1, <3>2
    <2>2. CASE DoMerge(m)
      <3>1. PICK r \in IF dummy[m] THEN {"not implemented"} ELSE {"merged", "failed"} :
              ran' = [ran EXCEPT ![m] = Append(@, r)]
        BY <2>2 DEF DoMerge
      <3>2. r \in Outcomes
        BY DEF Outcomes
      <3> QED BY <2>2, <3>1, <3>2 DEF DoMerge
    <2> QED BY <2>1, <2>2
  <1>2. /\ pc[m] \in Alive /\ pc[m] \notin InHand /\ pc[m] # "unborn"
        /\ {"merging", "start"} \subseteq Alive /\ {"merging", "start"} \cap InHand = {}
        /\ {"merging", "start"} \subseteq CallerSteps \cup ThreadSteps
    BY <1>1 DEF Alive, Stages, InHand, CallerSteps, ThreadSteps
  <1>3. PICK to \in {"merging", "start"} :
          /\ Goto(m, to) /\ (to = "merging" => ~cancelled /\ UNCHANGED ran)
          /\ to = "start" => \E r \in Outcomes : ran' = [ran EXCEPT ![m] = Append(@, r)]
    BY <1>1
  <1>4. Moved(m, to)
    BY <1>0, <1>2, <1>3, Goes
  <1>5. Steps'
    BY <1>0, <1>1, <1>2, <1>4, StepsKept DEF Steps
  <1>6. Places'
    BY <1>0, <1>1, <1>2, <1>4, BornKept, PlacesKept
  <1>7. ran[m] = <<>>
    BY <1>0, <1>1 DEF Executions
  <1>8. Executions'
    <2>1. CASE to = "merging"
      BY <1>0, <1>3, <1>4, <1>7, <2>1 DEF Executions, Moved, Actors
    <2>2. CASE to = "start"
      <3>1. PICK r \in Outcomes : ran' = [ran EXCEPT ![m] = Append(<<>>, r)]
        BY <1>0, <1>3, <1>7, <2>2 DEF Executions
      <3>2. Append(<<>>, r) \in Seq(Outcomes) /\ Len(Append(<<>>, r)) = 1
        OBVIOUS
      <3>3. ran' \in [Merges -> Seq(Outcomes)] /\ Len(ran'[m]) = 1 /\ \A n \in Merges : n # m => ran'[n] = ran[n]
        BY <1>0, <3>1, <3>2 DEF Executions
      <3>4. pc'[m] = "start" /\ \A n \in Merges : n # m => pc'[n] = pc[n] \/ pc'[n] = "stall"
        BY <1>4, <2>2 DEF Moved, Actors
      <3>5. ASSUME NEW n \in Merges PROVE Len(ran'[n]) <= 1
        <4>1. Len(ran'[m]) <= 1
          BY <3>3
        <4>2. n # m => Len(ran'[n]) <= 1
          BY <1>0, <3>3 DEF Executions
        <4> QED BY <4>1, <4>2
      <3>6. \A n \in Merges : pc'[n] \in {"unborn", "execute", "merging"} => ran'[n] = <<>>
        BY <1>0, <3>3, <3>4 DEF Executions
      <3> QED BY <3>3, <3>5, <3>6 DEF Executions
    <2> QED BY <2>1, <2>2
  <1>9. Shutting'
    BY <1>0, <1>1, <1>3, <1>4 DEF Shutting, Moved, Actors
  <1> QED BY <1>5, <1>6, <1>8, <1>9 DEF MergeInv

\* A thread that is over takes itself off the two counts.
LEMMA LeaveInv == ASSUME Distinct, MergeInv, NEW m \in Merges, Uncount(m) \/ Leave(m) PROVE MergeInv'
  <1>0. m \in Actors /\ m \notin Callers /\ Steps /\ Places /\ Executions /\ Shutting
    BY DEF Actors, MergeInv, Distinct
  <1>1. /\ UNCHANGED <<queues, threads, cancelled, hand, ran, shut>>
        /\ \/ pc[m] = "uncount" /\ Goto(m, "leave") /\ running' = running \ {m} /\ wait' = wait
           \/ pc[m] = "leave" /\ Goto(m, "gone") /\ wait' = wait \ {m} /\ running' = running
    BY DEF Uncount, Leave
  <1>2. /\ "uncount" \in Alive /\ "leave" \notin Alive /\ "gone" \notin Alive /\ {"uncount", "leave", "gone"} \cap InHand = {}
        /\ {"leave", "gone"} \subseteq ThreadSteps
    BY DEF Alive, Stages, InHand, ThreadSteps
  <1>3. PICK to \in {"leave", "gone"} : Goto(m, to) /\ (pc[m] = "uncount" <=> to = "leave") /\ pc[m] \in {"uncount", "leave"}
    BY <1>1
  <1>4. pc' \in [Actors -> CallerSteps \cup ThreadSteps] /\ pc'[m] = to /\ \A b \in Actors : b # m => pc'[b] = pc[b]
    BY <1>0, <1>2, <1>3 DEF Goto, Steps
  <1>5. Moved(m, to)
    BY <1>4 DEF Moved
  <1>6. Steps'
    <2>1. running' = {n \in Merges : pc'[n] \in Alive}
      BY <1>0, <1>1, <1>2, <1>3, <1>4 DEF Steps, Actors
    <2>2. wait' = {n \in Merges : pc'[n] \in Alive \cup {"leave"}}
      BY <1>0, <1>1, <1>2, <1>3, <1>4 DEF Steps, Actors
    <2>3. /\ \A c \in Callers : pc'[c] \in CallerSteps
          /\ \A n \in Merges : pc'[n] \in ThreadSteps
          /\ \A a \in Actors : hand'[a] # NoMerge <=> pc'[a] \in InHand
      BY <1>0, <1>1, <1>2, <1>3, <1>4 DEF Steps, Actors
    <2> QED BY <1>0, <1>1, <1>4, <2>1, <2>2, <2>3 DEF Steps
  <1>7. Places'
    BY <1>0, <1>1, <1>3, <1>5, BornKept, PlacesKept
  <1>8. Executions'
    BY <1>0, <1>1, <1>5, ExecutionsKept
  <1>9. Shutting'
    BY <1>0, <1>1, <1>5, ShuttingKept
  <1> QED BY <1>6, <1>7, <1>8, <1>9 DEF MergeInv

-----------------------------------------------------------------------------
(* Close and AbortAll.                                                     *)

\* With no thread counted none is merging, and none will.
LEMMA CloseDrainedInv == ASSUME Distinct, MergeInv, NEW c \in Callers, CloseDrained(c) PROVE MergeInv'
  <1>0. c \in Actors /\ c \notin Merges /\ Steps /\ Places /\ Executions /\ Shutting
    BY DEF Actors, MergeInv, Distinct
  <1>1. /\ UNCHANGED <<queues, threads, wait, running, cancelled, hand, ran>>
        /\ pc[c] = "close" /\ running = {} /\ Goto(c, "idle")
    BY DEF CloseDrained
  <1>2. Moved(c, "idle") /\ pc[c] \notin InHand
    BY <1>0, <1>1, StepNames, Goes
  <1>3. Steps'
    BY <1>0, <1>1, <1>2, StepNames, StepsKept DEF Steps
  <1>4. Places'
    BY <1>0, <1>1, <1>2, BornKept, PlacesKept
  <1>5. Executions'
    BY <1>0, <1>1, <1>2, ExecutionsKept
  <1>6. cancelled /\ \A m \in Merges : pc[m] # "merging"
    <2>1. "merging" \in Alive
      BY DEF Alive
    <2> QED BY <1>0, <1>1, <2>1 DEF Shutting, Steps
  <1>7. Shutting'
    BY <1>0, <1>1, <1>2, <1>6 DEF Shutting, Moved, Actors
  <1> QED BY <1>3, <1>4, <1>5, <1>7 DEF MergeInv

\* AbortAll drops what is queued.
LEMMA AbortInv == ASSUME Distinct, MergeInv, NEW c \in Callers, AbortAll(c) PROVE MergeInv'
  <1>0. c \in Actors /\ c \notin Merges /\ Steps /\ Places /\ Executions /\ Shutting
    BY DEF Actors, MergeInv, Distinct
  <1>1. /\ UNCHANGED <<offer, specs, threads, wait, running, cancelled, hand, ran, shut>>
        /\ pc[c] = "idle" /\ pending' = <<>> /\ dropped' = dropped \cup ToSet(pending) /\ pc' = Wake(pc)
    BY DEF AbortAll
  <1>2. Moved(c, "idle") /\ pc[c] \notin InHand
    BY <1>0, <1>1, StepNames, Wakes DEF Steps
  <1>3. Steps'
    BY <1>0, <1>1, <1>2, StepNames, StepsKept DEF Steps
  <1>4. Places'
    <2>1. \A m \in Merges : Born(m)' <=> Born(m)
      BY <1>0, <1>2, BornKept
    <2>2. \A m \in Merges : ~Queued(m)' /\ Waiting(m)' = Waiting(m) /\ Held(m)' = Held(m)
      BY <1>1 DEF Queued, Waiting, Held
    <2>3. pending' \in Seq(Merges) /\ Len(pending') = 0
      BY <1>1
    <2>4. \A m \in Merges : Queued(m) => m \in dropped'
      BY <1>0, <1>1 DEF Queued, Places, ToSet
    <2> QED BY <1>0, <1>1, <2>1, <2>2, <2>3, <2>4 DEF Places
  <1>5. Executions'
    BY <1>0, <1>1, <1>2, ExecutionsKept
  <1>6. Shutting'
    BY <1>0, <1>1, <1>2, ShuttingKept
  <1> QED BY <1>3, <1>4, <1>5, <1>6 DEF MergeInv
-----------------------------------------------------------------------------
(* Actions that move a merge.                                              *)

\* No merge is queued twice.
Once == \A i, j \in 1 .. Len(pending) : pending[i] = pending[j] => i = j

\* A merge joins the queue.
LEMMA Joins ==
  ASSUME pending \in Seq(Merges), Once, NEW m \in Merges, ~Queued(m), pending' = Append(pending, m)
  PROVE  pending' \in Seq(Merges) /\ Once' /\ \A n : Queued(n)' <=> Queued(n) \/ n = m
  <1>1. /\ Len(pending) \in Nat /\ Len(pending') = Len(pending) + 1 /\ pending' \in Seq(Merges)
        /\ pending'[Len(pending) + 1] = m /\ \A i \in 1 .. Len(pending) : pending'[i] = pending[i]
    OBVIOUS
  <1>2. ASSUME NEW n PROVE Queued(n)' <=> Queued(n) \/ n = m
    <2>1. ASSUME NEW i \in 1 .. Len(pending'), pending'[i] = n PROVE Queued(n) \/ n = m
      <3>1. i \in 1 .. Len(pending) \/ i = Len(pending) + 1
        BY <1>1
      <3> QED BY <1>1, <2>1, <3>1 DEF Queued
    <2>2. ASSUME NEW i \in 1 .. Len(pending), pending[i] = n PROVE Queued(n)'
      <3>1. i \in 1 .. Len(pending')
        BY <1>1
      <3> QED BY <1>1, <2>2, <3>1 DEF Queued
    <2>3. Queued(m)'
      <3>1. Len(pending) + 1 \in 1 .. Len(pending')
        BY <1>1
      <3> QED BY <1>1, <3>1 DEF Queued
    <2> QED BY <2>1, <2>2, <2>3 DEF Queued
  <1>3. ASSUME NEW i \in 1 .. Len(pending'), NEW j \in 1 .. Len(pending'), pending'[i] = pending'[j] PROVE i = j
    <2>1. (i \in 1 .. Len(pending) \/ i = Len(pending) + 1) /\ (j \in 1 .. Len(pending) \/ j = Len(pending) + 1)
      BY <1>1
    <2>2. \A k \in 1 .. Len(pending) : pending[k] # m
      BY DEF Queued
    <2> QED BY <1>1, <1>3, <2>1, <2>2 DEF Once
  <1> QED BY <1>1, <1>2, <1>3 DEF Once

\* A merge leaves the queue.
LEMMA Leaves ==
  ASSUME pending \in Seq(Merges), Once, pending # <<>>, pending' = Tail(pending)
  PROVE  /\ Head(pending) \in Merges /\ Queued(Head(pending)) /\ pending' \in Seq(Merges) /\ Once'
         /\ \A n : Queued(n)' <=> Queued(n) /\ n # Head(pending)
  <1>1. /\ Len(pending) \in Nat /\ Len(pending) >= 1 /\ Len(pending') = Len(pending) - 1 /\ pending' \in Seq(Merges)
        /\ pending[1] = Head(pending) /\ pending[1] \in Merges
        /\ \A i \in 1 .. Len(pending') : pending'[i] = pending[i + 1]
    OBVIOUS
  <1>2. ASSUME NEW n PROVE Queued(n)' <=> Queued(n) /\ n # Head(pending)
    <2>1. ASSUME NEW i \in 1 .. Len(pending'), pending'[i] = n PROVE Queued(n) /\ n # Head(pending)
      <3>1. i + 1 \in 1 .. Len(pending) /\ 1 \in 1 .. Len(pending) /\ i + 1 # 1 /\ pending[i + 1] = n
        BY <1>1, <2>1
      <3> QED BY <1>1, <3>1 DEF Queued, Once
    <2>2. ASSUME NEW i \in 1 .. Len(pending), pending[i] = n, n # Head(pending) PROVE Queued(n)'
      <3>1. i - 1 \in 1 .. Len(pending') /\ (i - 1) + 1 = i
        BY <1>1, <2>2
      <3>2. pending'[i - 1] = n
        BY <1>1, <2>2, <3>1
      <3> QED BY <3>1, <3>2 DEF Queued
    <2> QED BY <2>1, <2>2 DEF Queued
  <1>3. ASSUME NEW i \in 1 .. Len(pending'), NEW j \in 1 .. Len(pending'), pending'[i] = pending'[j] PROVE i = j
    <2>1. i + 1 \in 1 .. Len(pending) /\ j + 1 \in 1 .. Len(pending) /\ pending[i + 1] = pending[j + 1]
      BY <1>1, <1>3
    <2>2. i + 1 = j + 1
      BY <2>1 DEF Once
    <2> QED BY <1>1, <2>2
  <1>4. Queued(Head(pending))
    BY <1>1 DEF Queued
  <1> QED BY <1>1, <1>2, <1>3, <1>4 DEF Once

\* An actor takes a merge in its empty hand, or empties it.
LEMMA Hands ==
  ASSUME Steps, Places, NEW a \in Actors, NEW m \in Merges \cup {NoMerge}, hand' = [hand EXCEPT ![a] = m]
  PROVE  /\ hand' \in [Actors -> Merges \cup {NoMerge}] /\ hand'[a] = m
         /\ \A b \in Actors : b # a => hand'[b] = hand[b]
         /\ hand[a] = NoMerge => \A n \in Merges : NoMerge # n => (Held(n)' <=> Held(n) \/ n = m)
         /\ m = NoMerge => \A n \in Merges : NoMerge # n => (Held(n)' <=> Held(n) /\ n # hand[a])
  <1>1. /\ hand' \in [Actors -> Merges \cup {NoMerge}] /\ hand'[a] = m
        /\ \A b \in Actors : b # a => hand'[b] = hand[b]
    BY DEF Steps
  <1>2. hand[a] = NoMerge => \A n \in Merges : NoMerge # n => (Held(n)' <=> Held(n) \/ n = m)
    BY <1>1 DEF Held
  <1>3. m = NoMerge => \A n \in Merges : NoMerge # n => (Held(n)' <=> Held(n) /\ n # hand[a])
    BY <1>1 DEF Held, Places
  <1> QED BY <1>1, <1>2, <1>3

\* A merge given to MergeWithSpec is queued.
LEMMA SpecInv == ASSUME Distinct, MergeInv, NEW c \in Callers, MergeWithSpec(c) PROVE MergeInv'
  <1>0. c \in Actors /\ c \notin Merges /\ Steps /\ Places /\ Executions /\ Shutting
    BY DEF Actors, MergeInv, Distinct
  <1>1. PICK m \in specs : pending' = Append(pending, m) /\ specs' = specs \ {m}
    BY DEF MergeWithSpec
  <1>2. /\ UNCHANGED <<offer, dropped, threads, wait, running, cancelled, hand, ran, shut>>
        /\ pc[c] = "idle" /\ Goto(c, "start")
    BY DEF MergeWithSpec
  <1>3. Moved(c, "start") /\ pc[c] \notin InHand /\ "start" \notin InHand /\ "start" \in CallerSteps
    BY <1>0, <1>2, StepNames, Goes DEF CallerSteps
  <1>4. Steps'
    BY <1>0, <1>2, <1>3, StepsKept DEF Steps
  <1>5. Places'
    <2>1. m \in Merges /\ Waiting(m) /\ m \notin offer
      BY <1>0 DEF Places, Merges, Waiting, Distinct
    <2>2. ~Queued(m) /\ ~Held(m) /\ ~Born(m)
      BY <1>0, <2>1 DEF Places
    <2>3. pending' \in Seq(Merges) /\ Once' /\ \A n : Queued(n)' <=> Queued(n) \/ n = m
      BY <1>0, <1>1, <2>1, <2>2, Joins DEF Places, Once
    <2>4. \A n \in Merges : (Waiting(n)' <=> Waiting(n) /\ n # m) /\ (Held(n)' <=> Held(n))
      BY <1>1, <1>2, <2>1 DEF Waiting, Held
    <2>5. \A n \in Merges : Born(n)' <=> Born(n)
      BY <1>0, <1>3, BornKept
    <2> QED BY <1>0, <1>1, <1>2, <2>1, <2>2, <2>3, <2>4, <2>5 DEF Places, Once
  <1>6. Executions'
    BY <1>0, <1>2, <1>3, ExecutionsKept
  <1>7. Shutting'
    BY <1>0, <1>2, <1>3, ShuttingKept
  <1> QED BY <1>4, <1>5, <1>6, <1>7 DEF MergeInv

\* The next merge comes into the actor's hand, from the queue or the writer.
LEMMA NextMergeInv == ASSUME Distinct, MergeInv, NEW a \in Actors, NextMerge(a) PROVE MergeInv'
  <1>0. Steps /\ Places /\ Executions /\ Shutting
    BY DEF MergeInv
  <1>1. UNCHANGED <<dropped, threads, wait, running, cancelled, ran, shut>> /\ pc[a] = "next"
    BY DEF NextMerge
  <1>2. /\ "next" \in Stages /\ "next" \notin InHand /\ {"limit", "waitAll"} \subseteq Stages /\ "limit" \in InHand
        /\ "waitAll" \notin InHand /\ Stages \subseteq Alive /\ Stages \subseteq CallerSteps
        /\ "limit" \notin {"unborn", "execute", "merging", "close"} /\ "waitAll" # "close" /\ "unborn" \notin Alive
    BY DEF Stages, InHand, Alive, CallerSteps
  <1>3. hand[a] = NoMerge
    BY <1>0, <1>1, <1>2 DEF Steps
  <1>4. ASSUME Goto(a, "limit"), NEW m \in Merges, hand' = [hand EXCEPT ![a] = m],
               ~Held(m), ~Born(m),
               offer' \subseteq offer, specs' \subseteq specs, pending' \in Seq(Merges), Once',
               \A n \in Merges : Waiting(n)' \/ Queued(n)' <=> (Waiting(n) \/ Queued(n)) /\ n # m,
               \A n \in Merges : (Waiting(n)' => Waiting(n)) /\ (Queued(n)' => Queued(n))
        PROVE  MergeInv'
    <2>0. Moved(a, "limit")
      BY <1>0, <1>2, <1>4, StepNames, Goes
    <2>1. /\ hand' \in [Actors -> Merges \cup {NoMerge}] /\ hand'[a] = m /\ m # NoMerge
          /\ \A b \in Actors : b # a => hand'[b] = hand[b]
          /\ \A n \in Merges : Held(n)' <=> Held(n) \/ n = m
      BY <1>0, <1>3, <1>4, Hands DEF Distinct
    <2>2. Steps'
      BY <1>0, <1>1, <1>2, <2>0, <2>1, StepsKept DEF Steps
    <2>3. \A n \in Merges : Born(n)' <=> Born(n)
      BY <1>0, <1>1, <1>2, <2>0, BornKept
    <2>4. \A b, d \in Actors : hand'[b] = hand'[d] /\ hand'[b] # NoMerge => b = d
      BY <1>0, <1>4, <2>1 DEF Places, Held
    <2>5. Places'
      BY <1>0, <1>1, <1>4, <2>1, <2>3, <2>4 DEF Places, Once
    <2>6. Executions'
      BY <1>0, <1>1, <1>2, <2>0, ExecutionsKept
    <2>7. Shutting'
      BY <1>0, <1>1, <1>2, <2>0, ShuttingKept
    <2> QED BY <2>2, <2>5, <2>6, <2>7 DEF MergeInv
  <1>5. CASE /\ pending # <<>> /\ hand' = [hand EXCEPT ![a] = Head(pending)] /\ pending' = Tail(pending)
             /\ Goto(a, "limit") /\ UNCHANGED <<offer, specs>>
    <2>1. /\ Head(pending) \in Merges /\ Queued(Head(pending)) /\ pending' \in Seq(Merges) /\ Once'
          /\ \A n : Queued(n)' <=> Queued(n) /\ n # Head(pending)
      BY <1>0, <1>5, Leaves DEF Places, Once
    <2>2. ~Held(Head(pending)) /\ ~Born(Head(pending)) /\ ~Waiting(Head(pending))
      BY <1>0, <2>1 DEF Places
    <2>3. \A n : Waiting(n)' <=> Waiting(n)
      BY <1>5 DEF Waiting
    <2>4. \A n \in Merges : Waiting(n)' \/ Queued(n)' <=> (Waiting(n) \/ Queued(n)) /\ n # Head(pending)
      BY <2>1, <2>2, <2>3
    <2> QED BY <1>4, <1>5, <2>1, <2>2, <2>3, <2>4
  <1>6. CASE \E m \in offer : /\ hand' = [hand EXCEPT ![a] = m] /\ offer' = offer \ {m}
                              /\ Goto(a, "limit") /\ UNCHANGED <<pending, specs>>
    <2>1. PICK m \in offer : hand' = [hand EXCEPT ![a] = m] /\ offer' = offer \ {m}
      BY <1>6
    <2>2. m \in Merges /\ m \notin specs /\ Waiting(m)
      BY <1>0 DEF Places, Merges, Distinct, Waiting
    <2>3. ~Held(m) /\ ~Born(m) /\ ~Queued(m)
      BY <1>0, <2>2 DEF Places
    <2>4. /\ \A n : Queued(n)' <=> Queued(n)
          /\ \A n : Waiting(n)' <=> Waiting(n) /\ n # m
      BY <1>6, <2>1, <2>2 DEF Waiting, Queued
    <2>5. pending' \in Seq(Merges) /\ Once'
      BY <1>0, <1>6 DEF Places, Once
    <2>6. \A n \in Merges : Waiting(n)' \/ Queued(n)' <=> (Waiting(n) \/ Queued(n)) /\ n # m
      BY <2>3, <2>4
    <2> QED BY <1>4, <1>6, <2>1, <2>2, <2>3, <2>4, <2>5, <2>6
  <1>7. CASE Goto(a, "waitAll") /\ UNCHANGED <<queues, hand>>
    <2>1. Moved(a, "waitAll") /\ threads' \subseteq Merges
      BY <1>0, <1>1, <1>2, <1>7, StepNames, Goes DEF Steps
    <2> QED BY <1>1, <1>2, <1>7, <2>1, Plain
  <1> QED BY <1>5, <1>6, <1>7 DEF NextMerge
\* The merge in hand goes back to the queue when no thread may be started.
LEMMA RequeueInv == ASSUME Distinct, MergeInv, NEW a \in Actors, Requeue(a) PROVE MergeInv'
  <1>0. Steps /\ Places /\ Executions /\ Shutting
    BY DEF MergeInv
  <1>1. /\ UNCHANGED <<offer, specs, dropped, threads, wait, running, cancelled, ran, shut>> /\ pc[a] = "requeue"
        /\ pending' = Append(pending, hand[a]) /\ hand' = [hand EXCEPT ![a] = NoMerge] /\ Goto(a, "stall")
    BY DEF Requeue
  <1>2. /\ "requeue" \in InHand /\ "requeue" \in Stages /\ "stall" \in Stages /\ "stall" \notin InHand
        /\ Stages \subseteq Alive /\ Stages \subseteq CallerSteps /\ "unborn" \notin Alive
    BY DEF Stages, InHand, Alive, CallerSteps
  <1>3. hand[a] \in Merges /\ hand[a] # NoMerge
    BY <1>0, <1>1, <1>2 DEF Steps
  <1>4. Moved(a, "stall")
    BY <1>0, <1>1, <1>2, StepNames, Goes
  <1>5. /\ hand' \in [Actors -> Merges \cup {NoMerge}] /\ hand'[a] = NoMerge
        /\ \A b \in Actors : b # a => hand'[b] = hand[b]
        /\ \A n \in Merges : Held(n)' <=> Held(n) /\ n # hand[a]
    BY <1>0, <1>1, Hands DEF Distinct
  <1>6. Held(hand[a])
    BY DEF Held
  <1>7. ~Waiting(hand[a]) /\ ~Queued(hand[a]) /\ ~Born(hand[a])
    BY <1>0, <1>3, <1>6 DEF Places
  <1>8. pending' \in Seq(Merges) /\ Once' /\ \A n : Queued(n)' <=> Queued(n) \/ n = hand[a]
    BY <1>0, <1>1, <1>3, <1>7, Joins DEF Places, Once
  <1>9. \A n \in Merges : (Born(n)' <=> Born(n)) /\ (Waiting(n)' <=> Waiting(n))
    <2>1. \A n \in Merges : Born(n)' <=> Born(n)
      BY <1>0, <1>1, <1>2, <1>4, BornKept
    <2> QED BY <1>1, <2>1 DEF Waiting
  <1>10. Places'
    <2>1. \A b, d \in Actors : hand'[b] = hand'[d] /\ hand'[b] # NoMerge => b = d
      BY <1>0, <1>5 DEF Places
    <2> QED BY <1>0, <1>1, <1>3, <1>5, <1>7, <1>8, <1>9, <2>1 DEF Places, Once
  <1>11. Steps'
    BY <1>0, <1>1, <1>2, <1>4, <1>5, StepsKept DEF Steps
  <1>12. Executions'
    BY <1>0, <1>1, <1>4, ExecutionsKept
  <1>13. Shutting'
    BY <1>0, <1>1, <1>4, ShuttingKept
  <1> QED BY <1>10, <1>11, <1>12, <1>13 DEF MergeInv

\* The thread of the merge in hand is born: it is counted before it runs.
LEMMA CountInv == ASSUME Distinct, MergeInv, NEW a \in Actors, Count(a) PROVE MergeInv'
  <1>0. Steps /\ Places /\ Executions /\ Shutting
    BY DEF MergeInv
  <1> DEFINE m == hand[a]
  <1>1. /\ UNCHANGED <<queues, threads, cancelled, ran, shut>> /\ pc[a] = "count"
        /\ wait' = wait \cup {m} /\ running' = running \cup {m}
        /\ pc' = [pc EXCEPT ![a] = "stall", ![m] = "execute"]
        /\ hand' = [hand EXCEPT ![a] = NoMerge]
    BY DEF Count
  <1>2. /\ "count" \in InHand /\ "stall" \notin InHand /\ {"count", "stall", "execute"} \subseteq Alive /\ "execute" \notin InHand
        /\ {"count", "stall"} \subseteq CallerSteps /\ "unborn" \notin Alive /\ "unborn" \notin InHand /\ Alive \subseteq ThreadSteps
    BY DEF Stages, InHand, Alive, CallerSteps, ThreadSteps
  <1>3. m \in Merges /\ m # NoMerge /\ Held(m)
    BY <1>0, <1>1, <1>2 DEF Steps, Held
  <1>4. ~Waiting(m) /\ ~Queued(m) /\ ~Born(m) /\ pc[m] = "unborn" /\ m # a /\ m \in Actors /\ m \notin Callers
    BY <1>0, <1>1, <1>3 DEF Places, Born, Actors, Distinct
  <1>5. /\ hand' \in [Actors -> Merges \cup {NoMerge}] /\ hand'[a] = NoMerge
        /\ \A b \in Actors : b # a => hand'[b] = hand[b]
        /\ \A n \in Merges : Held(n)' <=> Held(n) /\ n # m
    BY <1>0, <1>1, Hands DEF Distinct
  <1> HIDE DEF m
  <1>6. /\ pc' \in [Actors -> CallerSteps \cup ThreadSteps] /\ pc'[a] = "stall" /\ pc'[m] = "execute"
        /\ \A b \in Actors : b # a /\ b # m => pc'[b] = pc[b]
    BY <1>0, <1>1, <1>2, <1>4 DEF Steps
  <1>7. Steps'
    <2>1. running' = {n \in Merges : pc'[n] \in Alive}
      BY <1>0, <1>1, <1>2, <1>3, <1>6 DEF Steps, Actors
    <2>2. wait' = {n \in Merges : pc'[n] \in Alive \cup {"leave"}}
      BY <1>0, <1>1, <1>2, <1>3, <1>6 DEF Steps, Actors
    <2>3. (\A c \in Callers : pc'[c] \in CallerSteps) /\ (\A n \in Merges : pc'[n] \in ThreadSteps)
      BY <1>0, <1>2, <1>4, <1>6 DEF Steps, Actors
    <2>4. \A b \in Actors : hand'[b] # NoMerge <=> pc'[b] \in InHand
      BY <1>0, <1>2, <1>4, <1>5, <1>6 DEF Steps
    <2>5. threads' \subseteq Merges
      BY <1>0, <1>1 DEF Steps
    <2> QED BY <1>5, <1>6, <2>1, <2>2, <2>3, <2>4, <2>5 DEF Steps
  <1>8. Places'
    <2>1. \A n \in Merges : Born(n)' <=> Born(n) \/ n = m
      BY <1>0, <1>1, <1>3, <1>4, <1>6 DEF Born, Actors
    <2>2. \A n \in Merges : (Waiting(n)' <=> Waiting(n)) /\ (Queued(n)' <=> Queued(n))
      BY <1>1 DEF Waiting, Queued, queues
    <2>3. \A b, d \in Actors : hand'[b] = hand'[d] /\ hand'[b] # NoMerge => b = d
      BY <1>0, <1>5 DEF Places
    <2>4. UNCHANGED <<offer, specs, pending, dropped>>
      BY <1>1 DEF queues
    <2> QED BY <1>0, <1>3, <1>4, <1>5, <2>1, <2>2, <2>3, <2>4 DEF Places
  <1>9. Executions'
    <2>1. ran[m] = <<>>
      BY <1>0, <1>3, <1>4 DEF Executions
    <2> QED BY <1>0, <1>1, <1>6, <2>1 DEF Executions, Actors
  <1>10. Shutting'
    BY <1>0, <1>1, <1>4, <1>6 DEF Shutting, Actors
  <1> QED BY <1>7, <1>8, <1>9, <1>10 DEF MergeInv

-----------------------------------------------------------------------------
(* The scheduler.                                                          *)

\* At the start every merge is with the writer.
LEMMA MergeInit == ASSUME Distinct PROVE Init => MergeInv
  <1> SUFFICES ASSUME Init PROVE MergeInv
    OBVIOUS
  <1>1. /\ pc \in [Actors -> CallerSteps \cup ThreadSteps]
        /\ \A c \in Callers : pc[c] = "idle"
        /\ \A m \in Merges : pc[m] = "unborn"
    BY DEF Init, Actors, Distinct, CallerSteps, ThreadSteps
  <1>2. /\ "unborn" \notin Alive /\ "idle" \notin InHand /\ "unborn" \notin InHand
        /\ "idle" \in CallerSteps /\ "unborn" \in ThreadSteps
    BY DEF Stages, InHand, Alive, CallerSteps, ThreadSteps
  <1>3. Steps
    BY <1>1, <1>2 DEF Init, Steps, Actors
  <1>4. Places
    <2>1. \A m \in Merges : ~Queued(m) /\ ~Held(m) /\ Waiting(m) /\ ~Born(m)
      BY <1>1 DEF Init, Queued, Held, Waiting, Born, Merges, Distinct
    <2> QED BY <2>1 DEF Init, Places
  <1>5. Executions
    BY DEF Init, Executions
  <1>6. Shutting
    BY <1>1 DEF Init, Shutting
  <1> QED BY <1>3, <1>4, <1>5, <1>6 DEF MergeInv

\* Every step keeps the invariant.
LEMMA MergeStep == ASSUME Distinct, MergeInv, [Next]_vars PROVE MergeInv'
  <1>1. CASE UNCHANGED vars
    <2>1. UNCHANGED <<offer, specs, pending, dropped, threads, wait, running, cancelled, pc, hand, ran, shut>>
      BY <1>1 DEF vars, queues
    <2>2. Steps'
      BY <2>1 DEF MergeInv, Steps
    <2>3. Places'
      BY <2>1, PlacesKept DEF MergeInv, queues, Born
    <2> QED BY <2>1, <2>2, <2>3 DEF MergeInv, Executions, Shutting
  <1>2. CASE Next
    BY <1>2, CallInv, SpecInv, AbortInv, CloseDrainedInv, InternalInv, NextMergeInv, RequeueInv, CountInv,
       ExecuteInv, RemoveInv, LeaveInv DEF Next, Internal, Thread
  <1> QED BY <1>1, <1>2

\* The places of a merge in the queue, counted.
LEMMA QueuedCounted ==
  ASSUME MergeInv, NEW m \in Merges
  PROVE  Cardinality({i \in DOMAIN pending : pending[i] = m}) = IF Queued(m) THEN 1 ELSE 0
  <1>1. DOMAIN pending = 1 .. Len(pending)
    BY DEF MergeInv, Places
  <1>2. CASE Queued(m)
    <2>1. PICK i \in 1 .. Len(pending) : pending[i] = m
      BY <1>2 DEF Queued
    <2>2. {j \in DOMAIN pending : pending[j] = m} = {i}
      BY <1>1, <2>1 DEF MergeInv, Places
    <2> QED BY <1>2, <2>2, FS_Singleton
  <1>3. CASE ~Queued(m)
    <2>1. {j \in DOMAIN pending : pending[j] = m} = {}
      BY <1>1, <1>3 DEF Queued
    <2> QED BY <1>3, <2>1, FS_EmptySet
  <1> QED BY <1>2, <1>3

\* The actors that have a merge in hand, counted.
LEMMA HeldCounted ==
  ASSUME MergeInv, NEW m \in Merges, m # NoMerge
  PROVE  Cardinality({a \in Actors : hand[a] = m}) = IF Held(m) THEN 1 ELSE 0
  <1>1. CASE Held(m)
    <2>1. PICK a \in Actors : hand[a] = m
      BY <1>1 DEF Held
    <2>2. {b \in Actors : hand[b] = m} = {a}
      BY <2>1 DEF MergeInv, Places
    <2> QED BY <1>1, <2>2, FS_Singleton
  <1>2. CASE ~Held(m)
    <2>1. {b \in Actors : hand[b] = m} = {}
      BY <1>2 DEF Held
    <2> QED BY <1>2, <2>1, FS_EmptySet
  <1> QED BY <1>1, <1>2

\* No merge is executed twice, or lost between the callers of the scheduler
\* and its threads, and the two thread counts are those of the threads alive:
\* for any number of callers and merges.
THEOREM EveryMergeOnce == ASSUME Distinct PROVE Spec => []MergeOnce
  <1>1. MergeInv /\ [Next]_vars => MergeInv'
    BY MergeStep
  <1>2. MergeInv => TypeOK
    <2> SUFFICES ASSUME MergeInv PROVE TypeOK
      OBVIOUS
    <2>1. running \subseteq wait /\ threads \subseteq Merges /\ offer \subseteq Offered /\ specs \subseteq Given
      BY DEF MergeInv, Steps, Places
    <2>2. \A s \in ThreadSteps : s \in Alive \cup {"leave"} <=> s \notin {"unborn", "gone"}
      BY DEF ThreadSteps, Alive, Stages, InHand
    <2>3. wait = {m \in Merges : pc[m] \notin {"unborn", "gone"}}
      BY <2>2 DEF MergeInv, Steps
    <2>4. \A a \in Actors : hand[a] # NoMerge => pc[a] \in {"limit", "waitThread", "requeue", "spawn", "count"}
      BY DEF MergeInv, Steps, InHand
    <2> QED BY <2>1, <2>3, <2>4 DEF TypeOK
  <1>3. MergeInv => MergeOnce
    <2> SUFFICES ASSUME MergeInv, NEW m \in Merges
                 PROVE  LET born   == pc[m] # "unborn"
                            queued == {i \in DOMAIN pending : pending[i] = m}
                            kept   == {a \in Actors : hand[a] = m}
                            places == Cardinality(queued) + Cardinality(kept)
                        IN  /\ Len(ran[m]) <= 1
                            /\ places <= 1 /\ (born => places = 0)
                            /\ (m \notin offer \cup specs \cup dropped /\ ~born) => places = 1
      BY <1>2 DEF MergeOnce
    <2>1. Cardinality({i \in DOMAIN pending : pending[i] = m}) = IF Queued(m) THEN 1 ELSE 0
      BY QueuedCounted
    <2>2. Cardinality({a \in Actors : hand[a] = m}) = IF Held(m) THEN 1 ELSE 0
      BY HeldCounted DEF Distinct
    <2>3. ~(Queued(m) /\ Held(m)) /\ (Born(m) => ~Queued(m) /\ ~Held(m))
      BY DEF MergeInv, Places
    <2>4. m \notin dropped /\ ~Waiting(m) /\ ~Born(m) => Queued(m) \/ Held(m)
      BY DEF MergeInv, Places
    <2>5. Len(ran[m]) <= 1
      BY DEF MergeInv, Executions
    <2> QED BY <2>1, <2>2, <2>3, <2>4, <2>5 DEF Waiting, Born
  <1> QED BY <1>1, <1>2, <1>3, MergeInit, PTL DEF Spec

\* No thread is inside the writer's Merge once Close has returned without an
\* error: one that is spawned later ends without merging.
THEOREM QuietAfterClose == ASSUME Distinct PROVE Spec => []ClosedIsQuiet
  <1>1. MergeInv /\ [Next]_vars => MergeInv'
    BY MergeStep
  <1>2. MergeInv => ClosedIsQuiet
    BY DEF MergeInv, Shutting, ClosedIsQuiet
  <1> QED BY <1>1, <1>2, MergeInit, PTL DEF Spec

-----------------------------------------------------------------------------
(* PersistentSnapshotDeletionPolicy.                                       *)

\* The goroutines that were not yet given the snapshot of g they took.
Taking(g) == {p \in Takers : op[p] = "snapshot" /\ gen[p] = g /\ spc[p] # "idle"}
Working == {p \in Takers : spc[p] # "idle"}

\* Types; the newest file is the one of the last timestamp, and a save does
\* not delete the file it writes.
ProcTypes ==
  /\ spc \in [Takers -> {"idle", "save", "write", "clean", "undo"}]
  /\ op \in [Takers -> {"none", "snapshot", "release", "releaseGen"}]
  /\ gen \in [Takers -> Policy!Gens \cup {0}]
  /\ \A p \in Takers : spc[p] # "idle" => gen[p] \in Policy!Gens
  /\ snaps \in [Takers -> SUBSET Policy!Gens] /\ held \in [Policy!Gens -> Nat]
CommitTypes ==
  /\ \E n \in 0 .. MaxCommits : commits = 1 .. n
  /\ last \in commits \cup {0} /\ writer \in {"idle", "stuck"}
SaveTypes ==
  /\ lastSave \in 0 .. time /\ (time > 0 => time \in DOMAIN files)
  /\ \A p \in Takers : spc[p] \in {"write", "clean"} => lastSave < time
  /\ up \in BOOLEAN /\ crashes \in Nat
  /\ ~up => crashes > 0 /\ \A p \in Takers : spc[p] = "idle"
PolicyTypes == Policy!TypeOK /\ ProcTypes /\ CommitTypes /\ SaveTypes

\* Until the first crash a count is what was handed out and what is under way.
RefInv ==
  /\ IsFiniteSet(Working)
  /\ crashes = 0 => \A g \in Policy!Gens : refCounts[g] = held[g] + Cardinality(Taking(g))

\* The newest file lists g, or will when it has been written.
Listed(g) ==
  \/ \E p \in Takers : spc[p] = "write" /\ g \in snaps[p]
  \/ (\A p \in Takers : spc[p] # "write") /\ time > 0 /\ g \in files[time]

\* In careful use: who holds or takes a snapshot of g, and what files list.
GivenOnce ==
  /\ \A p \in Takers : spc[p] # "undo"
  /\ \A g \in Policy!Gens : held[g] <= 1 /\ (Taking(g) # {} => held[g] = 0)
  /\ \A g \in Policy!Gens : \A p, q \in Taking(g) : p = q
Written ==
  /\ \A p \in Takers : spc[p] \in {"write", "clean"} /\ op[p] = "snapshot" => gen[p] \in snaps[p]
  /\ \A p \in Takers : spc[p] = "write" => snaps[p] \subseteq commits
  /\ \A p \in Takers : spc[p] = "clean" => files[time] = snaps[p]
  /\ time > 0 => files[time] \subseteq commits
  /\ \A g \in Policy!Gens : held[g] > 0 => Listed(g)

\* What is pinned, while the writer can be used: it differs from what is
\* listed only where a save has still to begin.
Pinned ==
  /\ \A g \in Policy!Gens :
       /\ refCounts[g] <= 1 /\ (refCounts[g] > 0 => g \in commits)
       /\ indexCommits[g] = IF refCounts[g] > 0 THEN g ELSE 0
       /\ held[g] > 0 \/ Taking(g) # {} => refCounts[g] > 0
  /\ \A g \in Policy!Gens :
       (Listed(g) <=> refCounts[g] > 0) \/ \E p \in Takers : spc[p] = "save" /\ gen[p] = g

CarefulInv == GivenOnce /\ Written /\ (up /\ writer = "idle" => Pinned)

SnapshotInv == PolicyTypes /\ RefInv /\ (careful => CarefulInv)

\* The module of the policy counts as this one does.
LEMMA SameCardinality == \A S : Policy!Cardinality(S) = Cardinality(S)
  BY DEF Policy!Cardinality, Cardinality

\* At the start there is no commit and no snapshot.
LEMMA SnapshotInit == SnapshotsInit => SnapshotInv
<1> SUFFICES ASSUME SnapshotsInit PROVE SnapshotInv
  OBVIOUS
<1> USE TakerAssumption, SnapshotBounds
<1>1. commits = 1 .. 0 /\ 0 \in 0 .. MaxCommits
  BY DEF SnapshotsInit, Policy!Init
<1>2. Policy!TypeOK
  BY DEF SnapshotsInit, Policy!Init, Policy!TypeOK, Policy!Gens, Policy!NoCounts, Policy!Quiet
<1>3. PolicyTypes
  BY <1>1, <1>2 DEF SnapshotsInit, Policy!Init, PolicyTypes, ProcTypes, CommitTypes, SaveTypes, Policy!Gens, Policy!NoCounts, Policy!Quiet
<1>4. Working = {} /\ \A g : Taking(g) = {}
  BY DEF SnapshotsInit, Policy!Init, Policy!Quiet, Working, Taking
<1>5. IsFiniteSet({}) /\ Cardinality({}) = 0
  BY FS_EmptySet
<1>6. IsFiniteSet(Working) /\ \A g : Cardinality(Taking(g)) = 0
  BY <1>4, <1>5, Zenon
<1>7. RefInv
  BY <1>6 DEF SnapshotsInit, Policy!Init, Policy!NoCounts, Policy!Gens, RefInv
<1>8. GivenOnce /\ Written
  BY <1>4 DEF SnapshotsInit, Policy!Init, Policy!NoCounts, Policy!Gens, Policy!Quiet, GivenOnce, Written
<1>9. Pinned
  BY <1>4 DEF SnapshotsInit, Policy!Init, Policy!NoCounts, Policy!Gens, Policy!Quiet, Pinned, Listed
<1> QED BY <1>3, <1>7, <1>8, <1>9 DEF SnapshotInv, CarefulInv

\* The newest file has the last timestamp.
LEMMA NewestIsLast ==
  ASSUME PolicyTypes
  PROVE  Policy!Newest = time /\ Policy!Loaded = IF time = 0 THEN {} ELSE files[time] \cap commits
<1>1. time \in Nat /\ DOMAIN files \subseteq 1 .. time
  BY SnapshotBounds DEF PolicyTypes, Policy!TypeOK
<1>2. CASE time = 0
  BY <1>1, <1>2 DEF Policy!Newest, Policy!Loaded
<1>3. CASE time # 0
  <2>1. time \in DOMAIN files /\ \A u \in DOMAIN files : u <= time
    BY <1>1, <1>3 DEF PolicyTypes, SaveTypes
  <2>2. \A t \in DOMAIN files : (\A u \in DOMAIN files : u <= t) => t = time
    BY <1>1, <2>1
  <2>3. (CHOOSE t \in DOMAIN files : \A u \in DOMAIN files : u <= t) = time
    BY <2>1, <2>2
  <2> QED BY <1>3, <2>1, <2>3 DEF Policy!Newest, Policy!Loaded
<1> QED BY <1>2, <1>3

-----------------------------------------------------------------------------
(* Types.                                                                  *)

\* The steps that begin or go on with a save.
LEMMA StartTypes ==
  ASSUME PolicyTypes, NEW p \in Takers, NEW o \in {"snapshot", "release", "releaseGen"},
         NEW g \in Policy!Gens, Policy!Start(p, o, g),
         refCounts' \in [Policy!Gens -> Nat], held' \in [Policy!Gens -> Nat],
         indexCommits' \in [Policy!Gens -> Policy!Gens \cup {0}]
  PROVE  PolicyTypes'
<1>1. /\ UNCHANGED <<commits, files, time, up, last, lastSave, writer, saver, snaps, crashes>>
      /\ spc' = [spc EXCEPT ![p] = "save"] /\ up
      /\ op' = [op EXCEPT ![p] = o] /\ gen' = [gen EXCEPT ![p] = g]
  BY DEF Policy!Start, Policy!disk
<1>2. Policy!TypeOK'
  BY <1>1 DEF PolicyTypes, ProcTypes, Policy!TypeOK, Policy!Gens
<1>3. ProcTypes'
  BY <1>1 DEF PolicyTypes, ProcTypes, Policy!Gens
<1>4. CommitTypes' /\ SaveTypes'
  BY <1>1 DEF PolicyTypes, ProcTypes, CommitTypes, SaveTypes
<1> QED BY <1>2, <1>3, <1>4 DEF PolicyTypes

\* A reference more or less leaves the counts and the commits of their types.
LEMMA RefTypes ==
  ASSUME PolicyTypes, NEW g \in Policy!Gens, Policy!IncRef(g) \/ Policy!DropRef(g)
  PROVE  /\ refCounts' \in [Policy!Gens -> Nat]
         /\ indexCommits' \in [Policy!Gens -> Policy!Gens \cup {0}]
<1>1. CASE Policy!IncRef(g)
  BY <1>1 DEF PolicyTypes, Policy!TypeOK, Policy!IncRef
<1>2. CASE Policy!DropRef(g)
  BY <1>2 DEF PolicyTypes, Policy!TypeOK, Policy!DropRef
<1> QED BY <1>1, <1>2

\* Snapshot and Release.
LEMMA BeginTypes ==
  ASSUME PolicyTypes, NEW p \in Takers,
         Policy!Snapshot(p) \/ \E g \in Policy!Gens, o \in {"release", "releaseGen"} : Policy!Release(p, o, g)
  PROVE  PolicyTypes'
<1>1. held \in [Policy!Gens -> Nat]
  BY DEF PolicyTypes, ProcTypes
<1>2. CASE Policy!Snapshot(p)
  <2>1. last \in Policy!Gens /\ Policy!Start(p, "snapshot", last) /\ Policy!IncRef(last) /\ held' = held
    BY <1>2 DEF Policy!Snapshot, PolicyTypes, Policy!TypeOK
  <2> QED BY <1>1, <2>1, RefTypes, StartTypes
<1>3. ASSUME NEW g \in Policy!Gens, NEW o \in {"release", "releaseGen"}, Policy!Release(p, o, g)
      PROVE  PolicyTypes'
  <2>1. /\ Policy!Start(p, o, g) /\ Policy!DropRef(g)
        /\ held[g] > 0 /\ held' = [held EXCEPT ![g] = @ - 1]
    BY <1>3 DEF Policy!Release
  <2>2. held' \in [Policy!Gens -> Nat]
    BY <1>1, <2>1
  <2> QED BY <2>1, <2>2, RefTypes, StartTypes
<1> QED BY <1>2, <1>3

\* A step of a save that fails, and one that undoes the operation.
LEMMA FailTypes ==
  ASSUME PolicyTypes, NEW p \in Takers,
         Policy!CreateFails(p) \/ Policy!WriteFails(p) \/ Policy!Undo(p)
  PROVE  PolicyTypes'
<1>1. \A q \in Takers : spc[q] \in {"write", "clean"} => saver = q
  BY DEF PolicyTypes, Policy!TypeOK
<1>2. ASSUME Policy!CreateFails(p) \/ Policy!WriteFails(p)
      PROVE  PolicyTypes'
  <2>1. /\ spc[p] # "idle" /\ spc' = [spc EXCEPT ![p] = "undo"]
        /\ UNCHANGED <<commits, files, time, up, last, refCounts, indexCommits, lastSave, writer, op, gen,
                       snaps, held, crashes>>
        /\ saver' = saver \/ (spc[p] = "write" /\ saver' = Nobody)
    BY <1>2 DEF Policy!CreateFails, Policy!WriteFails, Policy!Step, Policy!policy, Policy!disk
  <2>2. \A q \in Takers : spc'[q] \in {"write", "clean"} => spc[q] = spc'[q] /\ saver' = q
    BY <1>1, <2>1 DEF PolicyTypes, ProcTypes
  <2>3. Policy!TypeOK'
    BY <2>1, <2>2 DEF PolicyTypes, Policy!TypeOK, Policy!Gens
  <2>4. ProcTypes'
    BY <2>1 DEF PolicyTypes, ProcTypes, Policy!Gens
  <2>5. CommitTypes' /\ SaveTypes'
    BY <2>1, <2>2 DEF PolicyTypes, ProcTypes, CommitTypes, SaveTypes
  <2> QED BY <2>3, <2>4, <2>5 DEF PolicyTypes
<1>3. CASE Policy!Undo(p)
  <2>1. /\ spc[p] = "undo" /\ spc' = [spc EXCEPT ![p] = "idle"]
        /\ UNCHANGED <<commits, files, time, up, last, lastSave, writer, saver, op, gen, snaps, crashes>>
    BY <1>3 DEF Policy!Undo, Policy!Step, Policy!disk
  <2>2. gen[p] \in Policy!Gens /\ held \in [Policy!Gens -> Nat]
    BY <2>1 DEF PolicyTypes, ProcTypes
  <2>3. /\ refCounts \in [Policy!Gens -> Nat]
        /\ indexCommits \in [Policy!Gens -> Policy!Gens \cup {0}]
    BY DEF PolicyTypes, Policy!TypeOK
  <2>4. held' \in [Policy!Gens -> Nat]
    BY <1>3, <2>2 DEF Policy!Undo
  <2>5. /\ refCounts' \in [Policy!Gens -> Nat]
        /\ indexCommits' \in [Policy!Gens -> Policy!Gens \cup {0}]
    <3>1. CASE Policy!DropRef(gen[p]) \/ Policy!IncRef(gen[p])
      BY <2>2, <3>1, RefTypes
    <3>2. CASE UNCHANGED <<refCounts, indexCommits>>
      BY <2>3, <3>2
    <3> QED BY <1>3, <3>1, <3>2 DEF Policy!Undo
  <2>6. Policy!TypeOK'
    BY <2>1, <2>5 DEF PolicyTypes, ProcTypes, Policy!TypeOK, Policy!Gens
  <2>7. ProcTypes'
    BY <2>1, <2>4 DEF PolicyTypes, ProcTypes, Policy!Gens
  <2>8. CommitTypes' /\ SaveTypes'
    BY <2>1 DEF PolicyTypes, ProcTypes, CommitTypes, SaveTypes
  <2> QED BY <2>6, <2>7, <2>8 DEF PolicyTypes
<1> QED BY <1>2, <1>3

\* The steps of a save that succeed.
LEMMA SaveStepTypes ==
  ASSUME PolicyTypes, NEW p \in Takers,
         Policy!Create(p) \/ Policy!Write(p) \/ Policy!Clean(p)
  PROVE  PolicyTypes'
<1> USE TakerAssumption, SnapshotBounds
<1>1. time \in 0 .. MaxFiles /\ DOMAIN files \subseteq 1 .. time /\ lastSave \in 0 .. time
  BY DEF PolicyTypes, Policy!TypeOK, SaveTypes
<1>2. \A q \in Takers : spc[q] \in {"write", "clean"} => saver = q
  BY DEF PolicyTypes, Policy!TypeOK
<1>3. CASE Policy!Create(p)
  <2>1. /\ spc[p] = "save" /\ saver = Nobody /\ time < MaxFiles /\ saver' = p /\ time' = time + 1
        /\ DOMAIN files' = DOMAIN files \cup {time'} /\ spc' = [spc EXCEPT ![p] = "write"]
        /\ UNCHANGED <<commits, up, last, refCounts, indexCommits, lastSave, writer, op, gen, held, crashes>>
        /\ snaps' = [snaps EXCEPT ![p] = {indexCommits[g] : g \in Policy!Gens} \ {0}]
    BY <1>3 DEF Policy!Create, Policy!Step, Policy!policy
  <2>2. {indexCommits[g] : g \in Policy!Gens} \ {0} \subseteq Policy!Gens
    BY DEF PolicyTypes, Policy!TypeOK
  <2>3. snaps' \in [Takers -> SUBSET Policy!Gens]
    BY <2>1, <2>2 DEF PolicyTypes, ProcTypes
  <2>4. \A q \in Takers : spc'[q] \in {"write", "clean"} => q = p
    BY <1>2, <2>1 DEF PolicyTypes, ProcTypes
  <2>5. Policy!TypeOK'
    BY <1>1, <2>1, <2>4 DEF PolicyTypes, Policy!TypeOK, Policy!Gens
  <2>6. ProcTypes'
    BY <2>1, <2>3 DEF PolicyTypes, ProcTypes, Policy!Gens
  <2>7. CommitTypes' /\ SaveTypes'
    BY <1>1, <2>1 DEF PolicyTypes, CommitTypes, SaveTypes
  <2> QED BY <2>5, <2>6, <2>7 DEF PolicyTypes
<1>4. CASE Policy!Write(p)
  <2>1. /\ spc[p] = "write" /\ spc' = [spc EXCEPT ![p] = "clean"] /\ DOMAIN files' = DOMAIN files
        /\ UNCHANGED <<commits, time, up, last, refCounts, indexCommits, lastSave, writer, saver, op, gen,
                       snaps, held, crashes>>
    BY <1>4 DEF Policy!Write, Policy!Step, Policy!policy
  <2>2. Policy!TypeOK'
    BY <2>1 DEF PolicyTypes, ProcTypes, Policy!TypeOK, Policy!Gens
  <2>3. ProcTypes'
    BY <2>1 DEF PolicyTypes, ProcTypes, Policy!Gens
  <2>4. CommitTypes' /\ SaveTypes'
    BY <2>1 DEF PolicyTypes, ProcTypes, CommitTypes, SaveTypes
  <2> QED BY <2>2, <2>3, <2>4 DEF PolicyTypes
<1>5. CASE Policy!Clean(p)
  <2>1. /\ spc[p] = "clean" /\ spc' = [spc EXCEPT ![p] = "idle"] /\ lastSave' = time
        /\ DOMAIN files' = DOMAIN files \ {lastSave}
        /\ held' = IF op[p] = "snapshot" THEN [held EXCEPT ![gen[p]] = @ + 1] ELSE held
        /\ UNCHANGED <<commits, time, up, last, refCounts, indexCommits, writer, op, gen, snaps, crashes>>
    BY <1>5 DEF Policy!Clean, Policy!Step
  <2>2. \A q \in Takers : spc'[q] \notin {"write", "clean"}
    BY <1>2, <2>1 DEF PolicyTypes, ProcTypes
  <2>3. held' \in [Policy!Gens -> Nat]
    BY <2>1 DEF PolicyTypes, ProcTypes
  <2>4. lastSave < time
    BY <2>1 DEF PolicyTypes, SaveTypes
  <2>5. Policy!TypeOK'
    BY <1>1, <2>1, <2>2 DEF PolicyTypes, Policy!TypeOK, Policy!Gens
  <2>6. ProcTypes'
    BY <2>1, <2>3 DEF PolicyTypes, ProcTypes, Policy!Gens
  <2>7. CommitTypes'
    BY <2>1 DEF PolicyTypes, CommitTypes
  <2>8. SaveTypes'
    BY <1>1, <2>1, <2>2, <2>4 DEF PolicyTypes, SaveTypes
  <2> QED BY <2>5, <2>6, <2>7, <2>8 DEF PolicyTypes
<1> QED BY <1>3, <1>4, <1>5

\* Commits, crashes and restarts.
LEMMA WriterTypes ==
  ASSUME PolicyTypes, Policy!Commit \/ Policy!Crash \/ Policy!Open
  PROVE  PolicyTypes'
<1> USE TakerAssumption, SnapshotBounds
<1>1. PICK n \in 0 .. MaxCommits : commits = 1 .. n
  BY DEF PolicyTypes, CommitTypes
<1>2. Cardinality(commits) = n
  <2>1. Cardinality(1 .. n) = IF 1 > n THEN 0 ELSE n - 1 + 1
    BY FS_Interval
  <2> QED BY <1>1, <2>1
<1>3. CASE Policy!Commit
  <2>1. n < MaxCommits /\ commits' = commits \cup {n + 1}
    <3>1. Cardinality(commits) < MaxCommits /\ commits' = commits \cup {Cardinality(commits) + 1}
      BY <1>3, SameCardinality DEF Policy!Commit
    <3> QED BY <1>2, <3>1
  <2>2. commits' = 1 .. (n + 1) /\ n + 1 \in 0 .. MaxCommits
    BY <1>1, <2>1
  <2>3. last' \in {last, n + 1} /\ writer' \in {"stuck", writer}
    <3>1. last' \in {last, Cardinality(commits) + 1} /\ writer' \in {"stuck", writer}
      BY <1>3, SameCardinality DEF Policy!Commit
    <3> QED BY <1>2, <3>1
  <2>4. CommitTypes'
    BY <2>1, <2>2, <2>3 DEF PolicyTypes, CommitTypes
  <2>5. UNCHANGED <<files, time, up, refCounts, indexCommits, lastSave, saver, spc, op, gen, snaps, held, crashes>>
    BY <1>3 DEF Policy!Commit, Policy!procs
  <2>6. commits' \subseteq Policy!Gens /\ last' \in Policy!Gens \cup {0}
    BY <2>1, <2>2, <2>3 DEF PolicyTypes, Policy!TypeOK, Policy!Gens
  <2>7. Policy!TypeOK'
    BY <2>5, <2>6 DEF PolicyTypes, Policy!TypeOK, Policy!Gens
  <2>8. ProcTypes' /\ SaveTypes'
    BY <2>5 DEF PolicyTypes, ProcTypes, SaveTypes, Policy!Gens
  <2> QED BY <2>4, <2>7, <2>8 DEF PolicyTypes
<1>4. CASE Policy!Crash
  <2>1. /\ up' = FALSE /\ crashes' = crashes + 1 /\ writer' = "idle"
        /\ spc' = [p \in Takers |-> "idle"]
        /\ UNCHANGED <<commits, files, time, last, refCounts, indexCommits, lastSave, op, gen, snaps, held>>
    BY <1>4 DEF Policy!Crash, Policy!disk, Policy!policy, Policy!Quiet
  <2>2. Policy!TypeOK'
    BY <2>1 DEF PolicyTypes, Policy!TypeOK, Policy!Gens
  <2>3. ProcTypes'
    BY <2>1 DEF PolicyTypes, ProcTypes, Policy!Gens
  <2>4. CommitTypes'
    BY <2>1 DEF PolicyTypes, CommitTypes
  <2>5. SaveTypes'
    <3>1. crashes' \in Nat /\ crashes' > 0 /\ \A p \in Takers : spc'[p] = "idle"
      BY <2>1 DEF PolicyTypes, SaveTypes
    <3>2. up' \in BOOLEAN
      BY <2>1
    <3> QED BY <2>1, <3>1, <3>2 DEF PolicyTypes, SaveTypes
  <2> QED BY <2>2, <2>3, <2>4, <2>5 DEF PolicyTypes
<1>5. CASE Policy!Open
  <2>1. /\ up' = TRUE /\ lastSave' = time
        /\ UNCHANGED <<commits, files, time, saver, spc, op, gen, snaps, held, crashes>>
    BY <1>5, NewestIsLast DEF Policy!Open, Policy!disk, Policy!procs
  <2>2. writer' \in {"stuck", writer} /\ last' \in {0, n}
    <3>1. writer' \in {"stuck", writer} /\ last' \in {0, Cardinality(commits)}
      BY <1>5, SameCardinality DEF Policy!Open
    <3> QED BY <1>2, <3>1
  <2>3. refCounts' \in [Policy!Gens -> Nat]
    BY <1>5 DEF Policy!Open, Policy!NoCounts
  <2>4. indexCommits' \in [Policy!Gens -> Policy!Gens \cup {0}]
    BY <1>5 DEF Policy!Open, Policy!NoCounts
  <2>5. \A p \in Takers : spc[p] = "idle"
    BY <1>5 DEF Policy!Open, PolicyTypes, SaveTypes
  <2>6. CommitTypes'
    BY <1>1, <2>1, <2>2 DEF PolicyTypes, CommitTypes
  <2>7. last' \in Policy!Gens \cup {0}
    BY <2>2 DEF Policy!Gens
  <2>8. Policy!TypeOK'
    BY <2>1, <2>3, <2>4, <2>5, <2>7 DEF PolicyTypes, Policy!TypeOK, Policy!Gens
  <2>9. ProcTypes'
    BY <2>1 DEF PolicyTypes, ProcTypes, Policy!Gens
  <2>10. time \in Nat
    BY DEF PolicyTypes, Policy!TypeOK
  <2>11. SaveTypes'
    BY <2>1, <2>5, <2>10 DEF PolicyTypes, SaveTypes
  <2> QED BY <2>6, <2>8, <2>9, <2>11 DEF PolicyTypes
<1> QED BY <1>3, <1>4, <1>5

-----------------------------------------------------------------------------
(* Counts.                                                                 *)

\* What is taken is finite, and its number a number.
LEMMA TakingFinite ==
  ASSUME RefInv
  PROVE  \A g : IsFiniteSet(Taking(g)) /\ Cardinality(Taking(g)) \in Nat
<1> SUFFICES ASSUME NEW g PROVE IsFiniteSet(Taking(g)) /\ Cardinality(Taking(g)) \in Nat
  OBVIOUS
<1>1. Taking(g) \subseteq Working
  BY DEF Taking, Working
<1>2. IsFiniteSet(Taking(g))
  BY <1>1, FS_Subset DEF RefInv
<1> QED BY <1>2, FS_CardinalityType

\* p begins to take a snapshot of the last commit, or to release one of g.
Begins(p, o, g) ==
  /\ Policy!Start(p, o, g)
  /\ \/ o = "snapshot" /\ g = last /\ Policy!IncRef(g) /\ held' = held
     \/ o # "snapshot" /\ Policy!DropRef(g) /\ held[g] > 0 /\ held' = [held EXCEPT ![g] = @ - 1]

\* Snapshot and Release begin like that.
LEMMA BeginStep ==
  ASSUME PolicyTypes, NEW p \in Takers,
         Policy!Snapshot(p) \/ \E g \in Policy!Gens, o \in {"release", "releaseGen"} : Policy!Release(p, o, g)
  PROVE  \E o \in {"snapshot", "release", "releaseGen"}, g \in Policy!Gens : Begins(p, o, g)
<1>1. CASE Policy!Snapshot(p)
  <2>1. last \in Policy!Gens /\ Policy!Start(p, "snapshot", last) /\ Policy!IncRef(last) /\ held' = held
    BY <1>1 DEF Policy!Snapshot, PolicyTypes, Policy!TypeOK
  <2>2. Begins(p, "snapshot", last)
    BY <2>1 DEF Begins
  <2> QED BY <2>1, <2>2
<1>2. ASSUME NEW g \in Policy!Gens, NEW o \in {"release", "releaseGen"}, Policy!Release(p, o, g)
      PROVE  Begins(p, o, g)
  BY <1>2 DEF Begins, Policy!Release
<1> QED BY <1>1, <1>2

\* Snapshot adds a goroutine to those that take g, Release adds none.
LEMMA BeginCounts ==
  ASSUME PolicyTypes, RefInv, NEW p \in Takers,
         Policy!Snapshot(p) \/ \E g \in Policy!Gens, o \in {"release", "releaseGen"} : Policy!Release(p, o, g)
  PROVE  RefInv'
<1>1. PICK o \in {"snapshot", "release", "releaseGen"}, g \in Policy!Gens : Begins(p, o, g)
  BY BeginStep
<1>2. /\ spc[p] = "idle" /\ spc' = [spc EXCEPT ![p] = "save"] /\ crashes' = crashes
      /\ op' = [op EXCEPT ![p] = o] /\ gen' = [gen EXCEPT ![p] = g]
  BY <1>1 DEF Begins, Policy!Start
<1>3. /\ spc \in [Takers -> {"idle", "save", "write", "clean", "undo"}] /\ DOMAIN op = Takers
      /\ DOMAIN gen = Takers /\ held \in [Policy!Gens -> Nat] /\ refCounts \in [Policy!Gens -> Nat]
  BY DEF PolicyTypes, ProcTypes, Policy!TypeOK
<1>4. IsFiniteSet(Working')
  <2>1. Working' = Working \cup {p}
    BY <1>2, <1>3 DEF Working
  <2> QED BY <2>1, FS_AddElement DEF RefInv
<1>5. \A h : p \notin Taking(h)
  BY <1>2 DEF Taking
<1>6. ASSUME crashes' = 0, NEW h \in Policy!Gens
      PROVE  refCounts'[h] = held'[h] + Cardinality(Taking(h)')
  <2>1. refCounts[h] = held[h] + Cardinality(Taking(h))
    BY <1>2, <1>6 DEF RefInv
  <2>2. CASE o = "snapshot" /\ h = g
    <3>1. Taking(h)' = Taking(h) \cup {p}
      BY <1>2, <1>3, <2>2 DEF Taking
    <3>2. Cardinality(Taking(h)') = Cardinality(Taking(h)) + 1
      BY <1>5, <3>1, TakingFinite, FS_AddElement
    <3>3. refCounts'[h] = refCounts[h] + 1 /\ held'[h] = held[h]
      BY <1>1, <1>3, <2>2 DEF Begins, Policy!IncRef
    <3> QED BY <1>3, <2>1, <3>2, <3>3, TakingFinite
  <2>3. CASE ~(o = "snapshot" /\ h = g)
    <3>1. Taking(h)' = Taking(h)
      BY <1>2, <1>3, <2>3 DEF Taking
    <3>2. refCounts'[h] - held'[h] = refCounts[h] - held[h] /\ refCounts'[h] \in Int /\ held'[h] \in Int
      BY <1>1, <1>3, <2>3 DEF Begins, Policy!IncRef, Policy!DropRef
    <3>3. Cardinality(Taking(h)') = Cardinality(Taking(h)) /\ Cardinality(Taking(h)) \in Nat
      BY <3>1, TakingFinite
    <3> QED BY <1>3, <2>1, <3>2, <3>3
  <2> QED BY <2>2, <2>3
<1> QED BY <1>4, <1>6 DEF RefInv

\* A step inside a save leaves the operations as they are.
LEMMA SameCounts ==
  ASSUME RefInv, UNCHANGED <<op, gen, refCounts, held, crashes>>,
         \A p \in Takers : spc'[p] = "idle" <=> spc[p] = "idle"
  PROVE  RefInv'
<1>1. Working' = Working /\ \A g : Taking(g)' = Taking(g)
  BY DEF Working, Taking
<1>2. IsFiniteSet(Working')
  BY <1>1 DEF RefInv
<1>3. \A g : Cardinality(Taking(g)') = Cardinality(Taking(g))
  BY <1>1
<1> QED BY <1>2, <1>3 DEF RefInv

\* Clean and Undo take the goroutine away from those that take its commit.
LEMMA EndCounts ==
  ASSUME PolicyTypes, RefInv, NEW p \in Takers, Policy!Clean(p) \/ Policy!Undo(p)
  PROVE  RefInv'
<1> DEFINE g == gen[p]
<1>1. /\ spc[p] # "idle" /\ spc' = [spc EXCEPT ![p] = "idle"] /\ UNCHANGED <<op, gen, crashes>>
  BY DEF Policy!Clean, Policy!Undo, Policy!Step
<1>2. /\ spc \in [Takers -> {"idle", "save", "write", "clean", "undo"}] /\ g \in Policy!Gens
      /\ held \in [Policy!Gens -> Nat] /\ refCounts \in [Policy!Gens -> Nat]
  BY <1>1 DEF PolicyTypes, ProcTypes, Policy!TypeOK
<1>3. IsFiniteSet(Working')
  <2>1. Working' = Working \ {p}
    BY <1>1, <1>2 DEF Working
  <2>2. IsFiniteSet(Working \ {p})
    BY FS_Subset DEF RefInv
  <2> QED BY <2>1, <2>2
<1>4. /\ refCounts' \in [Policy!Gens -> Int] /\ held' \in [Policy!Gens -> Int]
      /\ \A h \in Policy!Gens : h # g => refCounts'[h] = refCounts[h] /\ held'[h] = held[h]
      /\ refCounts'[g] - held'[g] =
           IF op[p] = "snapshot" THEN refCounts[g] - held[g] - 1 ELSE refCounts[g] - held[g]
  BY <1>2 DEF Policy!Clean, Policy!Undo, Policy!IncRef, Policy!DropRef
<1>5. ASSUME crashes' = 0, NEW h \in Policy!Gens
      PROVE  refCounts'[h] = held'[h] + Cardinality(Taking(h)')
  <2>1. refCounts[h] = held[h] + Cardinality(Taking(h))
    BY <1>1, <1>5 DEF RefInv
  <2>2. refCounts[h] \in Nat /\ held[h] \in Nat /\ refCounts'[h] \in Int /\ held'[h] \in Int
    BY <1>2, <1>4
  <2>3. CASE op[p] = "snapshot" /\ h = g
    <3>1. Taking(h)' = Taking(h) \ {p} /\ p \in Taking(h)
      BY <1>1, <1>2, <2>3 DEF Taking
    <3>2. Cardinality(Taking(h)') = Cardinality(Taking(h)) - 1 /\ Cardinality(Taking(h)) \in Nat
      BY <3>1, TakingFinite, FS_RemoveElement
    <3> QED BY <1>4, <2>1, <2>2, <2>3, <3>2
  <2>4. CASE ~(op[p] = "snapshot" /\ h = g)
    <3>1. Taking(h)' = Taking(h)
      BY <1>1, <1>2, <2>4 DEF Taking
    <3>2. Cardinality(Taking(h)') = Cardinality(Taking(h)) /\ Cardinality(Taking(h)) \in Nat
      BY <3>1, TakingFinite
    <3> QED BY <1>4, <2>1, <2>2, <2>4, <3>2
  <2> QED BY <2>3, <2>4
<1> QED BY <1>3, <1>5 DEF RefInv

\* Every step keeps types and counts.
LEMMA PolicyKept ==
  ASSUME PolicyTypes, RefInv, Policy!Next
  PROVE  PolicyTypes' /\ RefInv'
<1>1. CASE Policy!Commit \/ Policy!Crash \/ Policy!Open
  <2>1. CASE Policy!Crash
    <3>1. crashes \in Nat /\ crashes' = crashes + 1 /\ spc' = [p \in Takers |-> "idle"]
      BY <2>1 DEF Policy!Crash, Policy!Quiet, PolicyTypes, SaveTypes
    <3>2. crashes' # 0 /\ Working' = {}
      BY <3>1 DEF Working
    <3>3. IsFiniteSet(Working')
      BY <3>2, FS_EmptySet
    <3> QED BY <1>1, <3>2, <3>3, WriterTypes DEF RefInv
  <2>2. CASE Policy!Commit
    <3>1. UNCHANGED <<op, gen, refCounts, held, crashes, spc>>
      BY <2>2 DEF Policy!Commit, Policy!procs
    <3> QED BY <1>1, <3>1, SameCounts, WriterTypes
  <2>3. CASE Policy!Open
    <3>1. UNCHANGED <<op, gen, held, crashes, spc>> /\ crashes > 0 /\ crashes \in Nat
      BY <2>3 DEF Policy!Open, Policy!procs, PolicyTypes, SaveTypes
    <3>2. Working' = Working /\ crashes' # 0
      BY <3>1 DEF Working
    <3>3. IsFiniteSet(Working')
      BY <3>2 DEF RefInv
    <3> QED BY <1>1, <3>2, <3>3, WriterTypes DEF RefInv
  <2> QED BY <1>1, <2>1, <2>2, <2>3
<1>2. ASSUME NEW p \in Takers,
             Policy!Snapshot(p) \/ \E g \in Policy!Gens, o \in {"release", "releaseGen"} : Policy!Release(p, o, g)
      PROVE  PolicyTypes' /\ RefInv'
  BY <1>2, BeginTypes, BeginCounts
<1>3. ASSUME NEW p \in Takers, Policy!Proc(p)
      PROVE  PolicyTypes' /\ RefInv'
  <2>1. CASE Policy!Clean(p) \/ Policy!Undo(p)
    BY <2>1, SaveStepTypes, FailTypes, EndCounts
  <2>2. CASE Policy!Create(p) \/ Policy!CreateFails(p) \/ Policy!Write(p) \/ Policy!WriteFails(p)
    <3>1. /\ spc[p] # "idle" /\ UNCHANGED <<op, gen, refCounts, held, crashes>>
          /\ \E to \in {"write", "clean", "undo"} : spc' = [spc EXCEPT ![p] = to]
      BY <2>2 DEF Policy!Create, Policy!CreateFails, Policy!Write, Policy!WriteFails, Policy!Step, Policy!policy
    <3>2. \A q \in Takers : spc'[q] = "idle" <=> spc[q] = "idle"
      BY <3>1 DEF PolicyTypes, ProcTypes
    <3>3. RefInv'
      BY <3>1, <3>2, SameCounts
    <3> QED BY <2>2, <3>3, SaveStepTypes, FailTypes
  <2> QED BY <1>3, <2>1, <2>2 DEF Policy!Proc
<1> QED BY <1>1, <1>2, <1>3 DEF Policy!Next

-----------------------------------------------------------------------------
(* Careful use.                                                            *)

\* Snapshot and Release: what is pinned changes at the commit of a save to come.
LEMMA CarefulBegin ==
  ASSUME PolicyTypes, CarefulInv, CarefulStep, NEW p \in Takers,
         NEW o \in {"snapshot", "release", "releaseGen"}, NEW g \in Policy!Gens, Begins(p, o, g)
  PROVE  CarefulInv'
<1>1. /\ up /\ writer = "idle" /\ spc[p] = "idle" /\ spc' = [spc EXCEPT ![p] = "save"]
      /\ op' = [op EXCEPT ![p] = o] /\ gen' = [gen EXCEPT ![p] = g]
      /\ UNCHANGED <<commits, files, time, up, last, lastSave, writer, saver, snaps>>
  BY DEF Begins, Policy!Start, Policy!disk
<1>2. /\ spc \in [Takers -> {"idle", "save", "write", "clean", "undo"}] /\ DOMAIN op = Takers
      /\ DOMAIN gen = Takers /\ held \in [Policy!Gens -> Nat] /\ refCounts \in [Policy!Gens -> Nat]
      /\ DOMAIN indexCommits = Policy!Gens /\ last \in commits \cup {0} /\ 0 \notin Policy!Gens
  BY DEF PolicyTypes, ProcTypes, CommitTypes, Policy!TypeOK, Policy!Gens
<1>3. GivenOnce /\ Written /\ Pinned
  BY <1>1 DEF CarefulInv
<1>4. \A q \in Takers : q # p => spc'[q] = spc[q] /\ op'[q] = op[q] /\ gen'[q] = gen[q]
  BY <1>1, <1>2
<1>5. spc'[p] = "save" /\ op'[p] = o /\ gen'[p] = g
  BY <1>1, <1>2
<1>6. \A h : h # g \/ o # "snapshot" => Taking(h)' = Taking(h)
  BY <1>1, <1>4, <1>5 DEF Taking
<1>7. o = "snapshot" => Taking(g)' = Taking(g) \cup {p}
  BY <1>1, <1>4, <1>5 DEF Taking
<1>8. \A h : Listed(h)' <=> Listed(h)
  BY <1>1, <1>4, <1>5 DEF Listed
<1>9. /\ \A h \in Policy!Gens : h # g => /\ refCounts'[h] = refCounts[h] /\ held'[h] = held[h]
                                         /\ indexCommits'[h] = indexCommits[h]
      /\ IF o = "snapshot"
         THEN refCounts[g] = 0 /\ refCounts'[g] = 1 /\ indexCommits'[g] = g /\ held'[g] = held[g] /\ g \in commits
         ELSE refCounts[g] = 1 /\ refCounts'[g] = 0 /\ indexCommits'[g] = 0 /\ held[g] = 1 /\ held'[g] = 0
  <2>1. CASE o = "snapshot"
    <3>1. g = last /\ Policy!IncRef(g) /\ held' = held
      BY <2>1 DEF Begins
    <3>2. refCounts'[g] = refCounts[g] + 1 /\ refCounts'[g] <= 1 /\ refCounts[g] \in Nat
      BY <1>2, <3>1 DEF Policy!IncRef, CarefulStep
    <3> QED BY <1>2, <2>1, <3>1, <3>2 DEF Policy!IncRef
  <2>2. CASE o # "snapshot"
    <3>1. Policy!DropRef(g) /\ held[g] > 0 /\ held' = [held EXCEPT ![g] = @ - 1]
      BY <2>2 DEF Begins
    <3>2. refCounts[g] = 1 /\ held[g] = 1
      BY <1>2, <1>3, <3>1 DEF Policy!DropRef, Pinned, GivenOnce
    <3> QED BY <1>2, <2>2, <3>1, <3>2 DEF Policy!DropRef
  <2> QED BY <2>1, <2>2
<1>10. Taking(g) = {} /\ (o = "snapshot" => held[g] = 0)
  <2>1. CASE o = "snapshot"
    BY <1>2, <1>3, <1>9, <2>1 DEF Pinned
  <2>2. CASE o # "snapshot"
    BY <1>3, <1>9, <2>2 DEF GivenOnce
  <2> QED BY <2>1, <2>2
<1>11. GivenOnce'
  <2>1. \A q \in Takers : spc'[q] # "undo"
    BY <1>3, <1>4, <1>5 DEF GivenOnce
  <2>2. ASSUME NEW h \in Policy!Gens
        PROVE  /\ held'[h] <= 1 /\ (Taking(h)' # {} => held'[h] = 0)
               /\ \A q, r \in Taking(h)' : q = r
    <3>1. CASE h # g
      BY <1>3, <1>6, <1>9, <3>1 DEF GivenOnce
    <3>2. CASE h = g
      BY <1>6, <1>7, <1>9, <1>10, <3>2
    <3> QED BY <3>1, <3>2
  <2> QED BY <2>1, <2>2 DEF GivenOnce, Policy!Gens
<1>12. Written'
  <2>1. \A h \in Policy!Gens : held'[h] > 0 => held[h] > 0
    BY <1>2, <1>9
  <2>2. \A h \in Policy!Gens : held'[h] > 0 => Listed(h)'
    BY <1>3, <1>8, <2>1 DEF Written
  <2> QED BY <1>1, <1>3, <1>4, <1>5, <2>2 DEF Written, Policy!Gens
<1>13. Pinned'
  <2>1. ASSUME NEW h \in Policy!Gens
        PROVE  /\ refCounts'[h] <= 1 /\ (refCounts'[h] > 0 => h \in commits')
               /\ indexCommits'[h] = IF refCounts'[h] > 0 THEN h ELSE 0
               /\ held'[h] > 0 \/ Taking(h)' # {} => refCounts'[h] > 0
               /\ \/ (Listed(h)' <=> refCounts'[h] > 0)
                  \/ \E q \in Takers : spc'[q] = "save" /\ gen'[q] = h
    <3>1. CASE h # g
      <4>1. /\ refCounts[h] <= 1 /\ (refCounts[h] > 0 => h \in commits)
            /\ indexCommits[h] = IF refCounts[h] > 0 THEN h ELSE 0
            /\ held[h] > 0 \/ Taking(h) # {} => refCounts[h] > 0
            /\ \/ (Listed(h) <=> refCounts[h] > 0)
               \/ \E q \in Takers : spc[q] = "save" /\ gen[q] = h
        BY <1>3 DEF Pinned
      <4>2. \A q \in Takers : spc[q] = "save" /\ gen[q] = h => spc'[q] = "save" /\ gen'[q] = h
        BY <1>1, <1>4
      <4> QED BY <1>1, <1>6, <1>8, <1>9, <3>1, <4>1, <4>2
    <3>2. CASE h = g
      BY <1>1, <1>5, <1>6, <1>9, <1>10, <3>2
    <3> QED BY <3>1, <3>2
  <2> QED BY <2>1 DEF Pinned, Policy!Gens
<1> QED BY <1>11, <1>12, <1>13 DEF CarefulInv

\* Who takes what is as before.
LEMMA SameGiven ==
  ASSUME GivenOnce, UNCHANGED <<op, gen, held>>,
         \A p \in Takers : spc'[p] # "undo" /\ (spc'[p] = "idle" <=> spc[p] = "idle")
  PROVE  GivenOnce' /\ \A g : Taking(g)' = Taking(g)
<1>1. \A g : Taking(g)' = Taking(g)
  BY DEF Taking
<1> QED BY <1>1 DEF GivenOnce, Policy!Gens

\* What is pinned is as before.
LEMMA SamePinned ==
  ASSUME Pinned, UNCHANGED <<commits, refCounts, indexCommits, held, gen>>,
         \A g : Taking(g)' = Taking(g), \A g \in Policy!Gens : Listed(g)' <=> Listed(g),
         \A p \in Takers : spc[p] = "save" => spc'[p] = "save"
  PROVE  Pinned'
<1>1. ASSUME NEW g \in Policy!Gens
      PROVE  (Listed(g)' <=> refCounts'[g] > 0) \/ \E p \in Takers : spc'[p] = "save" /\ gen'[p] = g
  BY DEF Pinned
<1>2. ASSUME NEW g \in Policy!Gens
      PROVE  /\ refCounts'[g] <= 1 /\ (refCounts'[g] > 0 => g \in commits')
             /\ indexCommits'[g] = IF refCounts'[g] > 0 THEN g ELSE 0
             /\ held'[g] > 0 \/ Taking(g)' # {} => refCounts'[g] > 0
  BY DEF Pinned
<1> QED BY <1>1, <1>2 DEF Pinned, Policy!Gens

\* Create: the new file is going to list what is pinned now.
LEMMA CarefulCreate ==
  ASSUME PolicyTypes, CarefulInv, NEW p \in Takers, Policy!Create(p)
  PROVE  CarefulInv'
<1>1. /\ spc[p] = "save" /\ saver = Nobody /\ writer = "idle" /\ time' = time + 1
      /\ files' = [t \in DOMAIN files \cup {time'} |-> IF t = time' THEN {} ELSE files[t]]
      /\ snaps' = [snaps EXCEPT ![p] = {indexCommits[g] : g \in Policy!Gens} \ {0}]
      /\ spc' = [spc EXCEPT ![p] = "write"]
      /\ UNCHANGED <<commits, up, last, refCounts, indexCommits, lastSave, writer, op, gen, held>>
  BY DEF Policy!Create, Policy!Step, Policy!policy
<1>2. /\ spc \in [Takers -> {"idle", "save", "write", "clean", "undo"}] /\ DOMAIN snaps = Takers
      /\ gen[p] \in Policy!Gens /\ time \in Nat /\ 0 \notin Policy!Gens /\ up
  BY <1>1 DEF PolicyTypes, ProcTypes, SaveTypes, Policy!TypeOK, Policy!Gens
<1>3. GivenOnce /\ Pinned
  BY <1>1, <1>2 DEF CarefulInv
<1>4. \A q \in Takers : spc'[q] \in {"write", "clean"} => q = p
  <2>1. \A q \in Takers : spc[q] \in {"write", "clean"} => saver = q
    BY DEF PolicyTypes, Policy!TypeOK
  <2> QED BY <1>1, <1>2, <2>1, TakerAssumption
<1>5. spc'[p] = "write" /\ \A q \in Takers : q # p => spc'[q] = spc[q]
  BY <1>1, <1>2
<1>6. \A g \in Policy!Gens : g \in snaps'[p] <=> refCounts[g] > 0
  <2>1. snaps'[p] = {indexCommits[g] : g \in Policy!Gens} \ {0}
    BY <1>1, <1>2
  <2>2. \A g \in Policy!Gens : indexCommits[g] = IF refCounts[g] > 0 THEN g ELSE 0
    BY <1>3 DEF Pinned
  <2> QED BY <1>2, <2>1, <2>2
<1>7. snaps'[p] \subseteq Policy!Gens
  BY <1>1, <1>2 DEF PolicyTypes, Policy!TypeOK
<1>8. GivenOnce' /\ \A g : Taking(g)' = Taking(g)
  BY <1>1, <1>3, <1>5, SameGiven DEF GivenOnce
<1>9. \A g \in Policy!Gens : Listed(g)' <=> refCounts[g] > 0
  BY <1>4, <1>5, <1>6 DEF Listed
<1>10. Written'
  <2>1. op[p] = "snapshot" => gen[p] \in snaps'[p]
    <3>1. op[p] = "snapshot" => p \in Taking(gen[p])
      BY <1>1 DEF Taking
    <3>2. Taking(gen[p]) # {} => refCounts[gen[p]] > 0
      BY <1>2, <1>3 DEF Pinned
    <3> QED BY <1>2, <1>6, <3>1, <3>2
  <2>2. snaps'[p] \subseteq commits
    BY <1>3, <1>6, <1>7 DEF Pinned
  <2>3. files'[time'] = {}
    BY <1>1
  <2>4. \A g \in Policy!Gens : held[g] > 0 => Listed(g)'
    BY <1>3, <1>9 DEF Pinned
  <2> QED BY <1>1, <1>4, <1>5, <2>1, <2>2, <2>3, <2>4 DEF Written, Policy!Gens
<1>11. Pinned'
  <2>1. ASSUME NEW g \in Policy!Gens
        PROVE  /\ refCounts'[g] <= 1 /\ (refCounts'[g] > 0 => g \in commits')
               /\ indexCommits'[g] = IF refCounts'[g] > 0 THEN g ELSE 0
               /\ held'[g] > 0 \/ Taking(g)' # {} => refCounts'[g] > 0
    BY <1>1, <1>3, <1>8 DEF Pinned
  <2>2. \A g \in Policy!Gens : Listed(g)' <=> refCounts'[g] > 0
    BY <1>1, <1>9
  <2> QED BY <2>1, <2>2 DEF Pinned, Policy!Gens
<1> QED BY <1>8, <1>10, <1>11 DEF CarefulInv

\* The goroutine that saves is alone, in the file of the last timestamp.
LEMMA SavesAlone ==
  ASSUME PolicyTypes, NEW p \in Takers, spc[p] \in {"write", "clean"}
  PROVE  /\ \A q \in Takers : spc[q] \in {"write", "clean"} => q = p
         /\ time > 0 /\ time \in DOMAIN files /\ lastSave # time
<1>1. \A q \in Takers : spc[q] \in {"write", "clean"} => saver = q
  BY DEF PolicyTypes, Policy!TypeOK
<1>2. lastSave < time /\ lastSave \in 0 .. time /\ time \in Nat
  BY DEF PolicyTypes, SaveTypes, Policy!TypeOK
<1>3. time > 0 => time \in DOMAIN files
  BY DEF PolicyTypes, SaveTypes
<1> QED BY <1>1, <1>2, <1>3

\* Write: the file lists what it was to list.
LEMMA CarefulWrite ==
  ASSUME PolicyTypes, CarefulInv, NEW p \in Takers, Policy!Write(p)
  PROVE  CarefulInv'
<1>1. /\ spc[p] = "write" /\ files' = [files EXCEPT ![time] = snaps[p]]
      /\ spc' = [spc EXCEPT ![p] = "clean"]
      /\ UNCHANGED <<commits, time, up, refCounts, indexCommits, writer, op, gen, snaps, held>>
  BY DEF Policy!Write, Policy!Step, Policy!policy
<1>2. spc \in [Takers -> {"idle", "save", "write", "clean", "undo"}]
  BY DEF PolicyTypes, ProcTypes
<1>3. /\ \A q \in Takers : spc[q] \in {"write", "clean"} => q = p
      /\ time > 0 /\ time \in DOMAIN files
  BY <1>1, SavesAlone
<1>4. spc'[p] = "clean" /\ \A q \in Takers : q # p => spc'[q] = spc[q]
  BY <1>1, <1>2
<1>5. files'[time] = snaps[p]
  BY <1>1, <1>3
<1>6. GivenOnce /\ Written
  BY DEF CarefulInv
<1>7. GivenOnce' /\ \A g : Taking(g)' = Taking(g)
  BY <1>1, <1>4, <1>6, SameGiven DEF GivenOnce
<1>8. \A g : Listed(g)' <=> Listed(g)
  <2>1. \A q \in Takers : spc'[q] # "write"
    BY <1>3, <1>4
  <2>2. \A g : Listed(g)' <=> g \in snaps[p]
    BY <1>1, <1>3, <1>5, <2>1 DEF Listed
  <2>3. \A g : Listed(g) <=> g \in snaps[p]
    BY <1>1, <1>3 DEF Listed
  <2> QED BY <2>2, <2>3
<1>9. Written'
  <2>1. \A g \in Policy!Gens : held[g] > 0 => Listed(g)'
    BY <1>6, <1>8 DEF Written
  <2>2. \A q \in Takers : spc'[q] \in {"write", "clean"} => q = p
    BY <1>3, <1>4
  <2>3. snaps[p] \subseteq commits /\ (op[p] = "snapshot" => gen[p] \in snaps[p])
    BY <1>1, <1>6 DEF Written
  <2> QED BY <1>1, <1>4, <1>5, <2>1, <2>2, <2>3 DEF Written, Policy!Gens
<1>10. ASSUME up', writer' = "idle" PROVE Pinned'
  <2>1. Pinned
    BY <1>1, <1>10 DEF CarefulInv
  <2>2. \A q \in Takers : spc[q] = "save" => spc'[q] = "save"
    BY <1>1, <1>4
  <2> QED BY <1>1, <1>7, <1>8, <2>1, <2>2, SamePinned
<1> QED BY <1>7, <1>9, <1>10 DEF CarefulInv

\* Clean: the application is given a snapshot that the file lists.
LEMMA CarefulClean ==
  ASSUME PolicyTypes, CarefulInv, NEW p \in Takers, Policy!Clean(p)
  PROVE  CarefulInv'
<1> DEFINE g == gen[p]
<1>1. /\ spc[p] = "clean" /\ spc' = [spc EXCEPT ![p] = "idle"]
      /\ files' = [t \in DOMAIN files \ {lastSave} |-> files[t]]
      /\ held' = IF op[p] = "snapshot" THEN [held EXCEPT ![g] = @ + 1] ELSE held
      /\ UNCHANGED <<commits, time, up, refCounts, indexCommits, writer, op, gen, snaps>>
  BY DEF Policy!Clean, Policy!Step
<1>2. /\ spc \in [Takers -> {"idle", "save", "write", "clean", "undo"}]
      /\ held \in [Policy!Gens -> Nat] /\ g \in Policy!Gens
  BY <1>1 DEF PolicyTypes, ProcTypes
<1>3. /\ \A q \in Takers : spc[q] \in {"write", "clean"} => q = p
      /\ time > 0 /\ time \in DOMAIN files /\ lastSave # time
  BY <1>1, SavesAlone
<1>4. spc'[p] = "idle" /\ \A q \in Takers : q # p => spc'[q] = spc[q]
  BY <1>1, <1>2
<1>5. files'[time] = files[time]
  BY <1>1, <1>3
<1>6. GivenOnce /\ Written
  BY DEF CarefulInv
<1>7. \A q \in Takers : spc[q] # "write" /\ spc'[q] \notin {"write", "clean"}
  BY <1>1, <1>3, <1>4
<1>8. \A h : Listed(h)' <=> Listed(h)
  BY <1>1, <1>5, <1>7 DEF Listed
<1>9. \A h : Taking(h)' = Taking(h) \ {p}
  BY <1>1, <1>4 DEF Taking
<1>10. op[p] = "snapshot" => p \in Taking(g) /\ held[g] = 0
  <2>1. op[p] = "snapshot" => p \in Taking(g)
    BY <1>1 DEF Taking
  <2> QED BY <1>2, <1>6, <2>1 DEF GivenOnce
<1>11. ASSUME NEW h \in Policy!Gens
       PROVE  held'[h] = IF op[p] = "snapshot" /\ h = g THEN 1 ELSE held[h]
  BY <1>1, <1>2, <1>10
<1>12. GivenOnce'
  <2>1. ASSUME NEW h \in Policy!Gens
        PROVE  /\ held'[h] <= 1 /\ (Taking(h)' # {} => held'[h] = 0)
               /\ \A q, r \in Taking(h)' : q = r
    <3>1. /\ held[h] <= 1 /\ (Taking(h) # {} => held[h] = 0) /\ \A q, r \in Taking(h) : q = r
      BY <1>6 DEF GivenOnce
    <3>2. CASE op[p] = "snapshot" /\ h = g
      <4>1. Taking(h)' = {}
        BY <1>9, <1>10, <3>1, <3>2
      <4> QED BY <1>11, <3>2, <4>1
    <3>3. CASE ~(op[p] = "snapshot" /\ h = g)
      BY <1>9, <1>11, <3>1, <3>3
    <3> QED BY <3>2, <3>3
  <2>2. \A q \in Takers : spc'[q] # "undo"
    BY <1>4, <1>6 DEF GivenOnce
  <2> QED BY <2>1, <2>2 DEF GivenOnce, Policy!Gens
<1>13. op[p] = "snapshot" => Listed(g)
  <2>1. op[p] = "snapshot" => g \in files[time]
    BY <1>1, <1>6 DEF Written
  <2> QED BY <1>3, <1>7, <2>1 DEF Listed
<1>14. Written'
  <2>1. \A h \in Policy!Gens : held'[h] > 0 => Listed(h)'
    BY <1>6, <1>8, <1>11, <1>13 DEF Written
  <2>2. files[time] \subseteq commits
    BY <1>3, <1>6 DEF Written
  <2> QED BY <1>1, <1>5, <1>7, <2>1, <2>2 DEF Written, Policy!Gens
<1>15. ASSUME up', writer' = "idle" PROVE Pinned'
  <2>1. Pinned
    BY <1>1, <1>15 DEF CarefulInv
  <2>2. ASSUME NEW h \in Policy!Gens
        PROVE  /\ refCounts'[h] <= 1 /\ (refCounts'[h] > 0 => h \in commits')
               /\ indexCommits'[h] = IF refCounts'[h] > 0 THEN h ELSE 0
               /\ held'[h] > 0 \/ Taking(h)' # {} => refCounts'[h] > 0
    <3>1. held'[h] > 0 \/ Taking(h)' # {} => held[h] > 0 \/ Taking(h) # {}
      BY <1>9, <1>10, <1>11
    <3> QED BY <1>1, <2>1, <3>1 DEF Pinned
  <2>3. ASSUME NEW h \in Policy!Gens
        PROVE  (Listed(h)' <=> refCounts'[h] > 0) \/ \E q \in Takers : spc'[q] = "save" /\ gen'[q] = h
    <3>1. (Listed(h) <=> refCounts[h] > 0) \/ \E q \in Takers : spc[q] = "save" /\ gen[q] = h
      BY <2>1 DEF Pinned
    <3>2. \A q \in Takers : spc[q] = "save" => spc'[q] = "save"
      BY <1>1, <1>4
    <3> QED BY <1>1, <1>8, <3>1, <3>2
  <2> QED BY <2>2, <2>3 DEF Pinned, Policy!Gens
<1> QED BY <1>12, <1>14, <1>15 DEF CarefulInv

\* Commit pins and lists nothing.
LEMMA CarefulCommit ==
  ASSUME PolicyTypes, CarefulInv, Policy!Commit
  PROVE  CarefulInv'
<1>1. /\ UNCHANGED <<files, time, up, refCounts, indexCommits, spc, op, gen, snaps, held>>
      /\ commits \subseteq commits' /\ writer = "idle"
  BY DEF Policy!Commit, Policy!procs
<1>2. \A g : (Listed(g)' <=> Listed(g)) /\ Taking(g)' = Taking(g)
  BY <1>1 DEF Listed, Taking
<1>3. GivenOnce'
  BY <1>1, <1>2 DEF CarefulInv, GivenOnce, Policy!Gens
<1>4. Written'
  BY <1>1, <1>2 DEF CarefulInv, Written, Policy!Gens
<1>5. ASSUME up' PROVE Pinned'
  <2>1. Pinned
    BY <1>1, <1>5 DEF CarefulInv
  <2>2. ASSUME NEW g \in Policy!Gens
        PROVE  /\ refCounts'[g] <= 1 /\ (refCounts'[g] > 0 => g \in commits')
               /\ indexCommits'[g] = IF refCounts'[g] > 0 THEN g ELSE 0
               /\ held'[g] > 0 \/ Taking(g)' # {} => refCounts'[g] > 0
    BY <1>1, <1>2, <2>1 DEF Pinned
  <2>3. ASSUME NEW g \in Policy!Gens
        PROVE  (Listed(g)' <=> refCounts'[g] > 0) \/ \E p \in Takers : spc'[p] = "save" /\ gen'[p] = g
    BY <1>1, <1>2, <2>1 DEF Pinned
  <2> QED BY <2>2, <2>3 DEF Pinned, Policy!Gens
<1> QED BY <1>3, <1>4, <1>5 DEF CarefulInv

\* Crash: no file is half written, and the operations under way are forgotten.
LEMMA CarefulCrash ==
  ASSUME PolicyTypes, CarefulInv, CarefulStep, Policy!Crash
  PROVE  CarefulInv'
<1>1. /\ spc' = [p \in Takers |-> "idle"] /\ up' = FALSE /\ crashes' = crashes + 1
      /\ UNCHANGED <<commits, files, time, op, gen, snaps, held>>
  BY DEF Policy!Crash, Policy!disk, Policy!Quiet
<1>2. \A p \in Takers : spc[p] # "write"
  <2>1. crashes' # crashes
    BY <1>1 DEF PolicyTypes, SaveTypes
  <2> QED BY <2>1 DEF CarefulStep
<1>3. \A g : (Listed(g)' <=> Listed(g)) /\ Taking(g)' = {}
  BY <1>1, <1>2 DEF Listed, Taking
<1>4. GivenOnce'
  BY <1>1, <1>3 DEF CarefulInv, GivenOnce, Policy!Gens
<1>5. Written'
  BY <1>1, <1>3 DEF CarefulInv, Written, Policy!Gens
<1> QED BY <1>1, <1>4, <1>5 DEF CarefulInv

\* Open: what the newest file lists is pinned.
LEMMA CarefulOpen ==
  ASSUME PolicyTypes, CarefulInv, Policy!Open
  PROVE  CarefulInv'
<1>1. UNCHANGED <<commits, files, time, spc, op, gen, snaps, held>> /\ ~up
  BY DEF Policy!Open, Policy!disk, Policy!procs
<1>2. \A p \in Takers : spc[p] = "idle"
  BY <1>1 DEF PolicyTypes, SaveTypes
<1>3. \A g : (Listed(g)' <=> Listed(g)) /\ Taking(g)' = {} /\ Taking(g) = {}
  BY <1>1, <1>2 DEF Listed, Taking
<1>4. GivenOnce'
  BY <1>1, <1>3 DEF CarefulInv, GivenOnce, Policy!Gens
<1>5. Written'
  BY <1>1, <1>3 DEF CarefulInv, Written, Policy!Gens
<1>6. ASSUME writer' = "idle" PROVE Pinned'
  <2>1. /\ refCounts' = [g \in Policy!Gens |-> IF g \in Policy!Loaded THEN 1 ELSE 0]
        /\ indexCommits' = [g \in Policy!Gens |-> IF g \in Policy!Loaded THEN g ELSE 0]
    BY <1>6 DEF Policy!Open
  <2>2. \A g : g \in Policy!Loaded <=> Listed(g) /\ g \in commits
    <3>1. Policy!Loaded = IF time = 0 THEN {} ELSE files[time] \cap commits
      BY NewestIsLast
    <3>2. time \in Nat
      BY DEF PolicyTypes, Policy!TypeOK
    <3> QED BY <1>2, <3>1, <3>2 DEF Listed
  <2>3. \A g : Listed(g) => g \in commits
    BY <1>2 DEF Listed, CarefulInv, Written
  <2>4. \A g \in Policy!Gens : held[g] > 0 => Listed(g)
    BY DEF CarefulInv, Written
  <2>5. \A g \in Policy!Gens : refCounts'[g] = IF Listed(g) THEN 1 ELSE 0
    BY <2>1, <2>2, <2>3
  <2>6. \A g \in Policy!Gens : indexCommits'[g] = IF Listed(g) THEN g ELSE 0
    BY <2>1, <2>2, <2>3
  <2>7. ASSUME NEW g \in Policy!Gens
        PROVE  /\ refCounts'[g] <= 1 /\ (refCounts'[g] > 0 => g \in commits')
               /\ indexCommits'[g] = IF refCounts'[g] > 0 THEN g ELSE 0
               /\ held'[g] > 0 \/ Taking(g)' # {} => refCounts'[g] > 0
               /\ Listed(g)' <=> refCounts'[g] > 0
    <3>1. CASE Listed(g)
      BY <1>1, <1>3, <2>3, <2>5, <2>6, <3>1
    <3>2. CASE ~Listed(g)
      BY <1>1, <1>3, <2>4, <2>5, <2>6, <3>2
    <3> QED BY <3>1, <3>2
  <2> QED BY <2>7 DEF Pinned, Policy!Gens
<1> QED BY <1>4, <1>5, <1>6 DEF CarefulInv

\* Every step keeps the invariant.
LEMMA SnapshotStep == SnapshotInv /\ [SnapshotsNext]_<<careful, snapshots>> => SnapshotInv'
<1> SUFFICES ASSUME SnapshotInv, [SnapshotsNext]_<<careful, snapshots>> PROVE SnapshotInv'
  OBVIOUS
<1>1. CASE SnapshotsNext
  <2>1. Policy!Next /\ careful' = careful /\ (careful => CarefulStep) /\ PolicyTypes /\ RefInv
    BY <1>1 DEF SnapshotsNext, SnapshotInv
  <2>2. PolicyTypes' /\ RefInv'
    BY <2>1, PolicyKept
  <2>3. ASSUME careful PROVE CarefulInv'
    <3>1. CarefulInv /\ CarefulStep
      BY <2>1, <2>3 DEF SnapshotInv
    <3>2. CASE Policy!Commit \/ Policy!Crash \/ Policy!Open
      BY <2>1, <3>1, <3>2, CarefulCommit, CarefulCrash, CarefulOpen
    <3>3. ASSUME NEW p \in Takers,
                 \/ Policy!Snapshot(p)
                 \/ \E g \in Policy!Gens, o \in {"release", "releaseGen"} : Policy!Release(p, o, g)
          PROVE  CarefulInv'
      BY <2>1, <3>1, <3>3, BeginStep, CarefulBegin
    <3>4. ASSUME NEW p \in Takers, Policy!Proc(p) PROVE CarefulInv'
      <4>1. ~Policy!CreateFails(p) /\ ~Policy!WriteFails(p)
        <5>1. spc'[p] # "undo" /\ p \in DOMAIN spc
          BY <2>1, <3>1 DEF CarefulStep, PolicyTypes, ProcTypes
        <5> QED BY <5>1 DEF Policy!CreateFails, Policy!WriteFails, Policy!Step
      <4>2. ~Policy!Undo(p)
        BY <3>1 DEF CarefulInv, GivenOnce, Policy!Undo
      <4> QED BY <2>1, <3>1, <3>4, <4>1, <4>2, CarefulCreate, CarefulWrite, CarefulClean DEF Policy!Proc
    <3> QED BY <2>1, <3>2, <3>3, <3>4 DEF Policy!Next
  <2> QED BY <2>1, <2>2, <2>3 DEF SnapshotInv
<1>2. CASE UNCHANGED <<careful, snapshots>>
  <2>1. UNCHANGED <<commits, files, time, up, last, refCounts, indexCommits, lastSave, writer, saver>>
    BY <1>2 DEF snapshots
  <2>2. UNCHANGED <<spc, op, gen, snaps, held, crashes, careful>>
    BY <1>2 DEF snapshots
  <2>3. PolicyTypes'
    BY <2>1, <2>2 DEF SnapshotInv, PolicyTypes, ProcTypes, CommitTypes, SaveTypes, Policy!TypeOK, Policy!Gens
  <2>4. \A g : (Listed(g)' <=> Listed(g)) /\ Taking(g)' = Taking(g)
    BY <2>1, <2>2 DEF Listed, Taking
  <2>5. RefInv'
    BY <2>2, <2>1, SameCounts DEF SnapshotInv
  <2>6. ASSUME careful' PROVE CarefulInv'
    <3>1. CarefulInv
      BY <2>2, <2>6 DEF SnapshotInv
    <3>2. GivenOnce' /\ Written'
      BY <2>1, <2>2, <2>4, <3>1 DEF CarefulInv, GivenOnce, Written, Policy!Gens
    <3>3. up' /\ writer' = "idle" => Pinned'
      BY <2>1, <2>2, <2>4, <3>1, SamePinned DEF CarefulInv
    <3> QED BY <3>2, <3>3 DEF CarefulInv
  <2> QED BY <2>3, <2>5, <2>6 DEF SnapshotInv
<1> QED BY <1>1, <1>2

\* For any number of goroutines, commits, files, restarts and failed saves and
\* either policy below: in careful use a snapshot the application was given is
\* pinned, after restarts too, and between operations the newest file lists
\* exactly the pinned commits; in any use, until the first restart, a
\* commit's count is the number of its snapshots handed out or being taken.
THEOREM SnapshotsAreKept == SnapshotsSpec => []SnapshotsHeld
<1>1. SnapshotInv => SnapshotsHeld
  <2> SUFFICES ASSUME SnapshotInv PROVE SnapshotsHeld
    OBVIOUS
  <2>1. Policy!TypeOK
    BY DEF SnapshotInv, PolicyTypes
  <2>2. Policy!RefCountsExact
    <3>1. ASSUME NEW g \in Policy!Gens, crashes = 0
          PROVE  refCounts[g] = held[g] + Policy!Cardinality(Taking(g))
      BY <3>1, SameCardinality DEF SnapshotInv, RefInv
    <3> QED BY <3>1 DEF Policy!RefCountsExact, Taking
  <2>3. ASSUME careful PROVE Policy!SnapshotsSurvive
    <3>1. up /\ writer = "idle" => Pinned
      BY <2>3 DEF SnapshotInv, CarefulInv
    <3> QED BY <3>1 DEF Pinned, Policy!SnapshotsSurvive
  <2>4. ASSUME careful, up, writer = "idle", spc = Policy!Quiet
        PROVE  Policy!Loaded = {g \in Policy!Gens : refCounts[g] > 0}
    <3>1. Pinned /\ Written
      BY <2>4 DEF SnapshotInv, CarefulInv
    <3>2. \A p \in Takers : spc[p] = "idle"
      BY <2>4 DEF Policy!Quiet
    <3>3. \A g \in Policy!Gens : Listed(g) <=> refCounts[g] > 0
      BY <3>1, <3>2 DEF Pinned
    <3>4. Policy!Loaded = IF time = 0 THEN {} ELSE files[time] \cap commits
      BY NewestIsLast DEF SnapshotInv
    <3>5. time \in Nat /\ commits \subseteq Policy!Gens
      BY DEF SnapshotInv, PolicyTypes, Policy!TypeOK
    <3>6. \A g : g \in Policy!Loaded <=> Listed(g)
      BY <3>1, <3>2, <3>4, <3>5 DEF Listed, Written
    <3>7. Policy!Loaded \subseteq Policy!Gens
      BY <3>4, <3>5
    <3> QED BY <3>3, <3>6, <3>7
  <2> QED BY <2>1, <2>2, <2>3, <2>4 DEF SnapshotsHeld, Policy!SavedIsPinned
<1> QED BY <1>1, SnapshotInit, SnapshotStep, PTL DEF SnapshotsSpec

-----------------------------------------------------------------------------
(* NativeFSLockFactory.                                                    *)

\* The goroutine has entered the path in its process's registry.
Entered(w) == npc[w] \in {"registered", "held", "closing", "unlocked"}

\* A process's registry has the path exactly while one of its goroutines is
\* between Register and Unregister, and the kernel's lock has one holder.
NativeInv ==
  /\ Native!TypeOK
  /\ \A w \in Writers : Entered(w) => lockHeld[ProcessOf[w]]
  /\ \A v, w \in Writers : Entered(v) /\ Entered(w) /\ ProcessOf[v] = ProcessOf[w] => v = w
  /\ \A p \in Processes : lockHeld[p] => \E w \in Writers : ProcessOf[w] = p /\ Entered(w)
  /\ \A w \in Writers : flock = w <=> npc[w] \in {"held", "closing"}

USE ProcessAssumption, WriterAssumption

\* At the start no goroutine has the lock.
LEMMA NativeInit == Native!Init => NativeInv
  BY DEF Native!Init, NativeInv, Native!TypeOK, Entered

\* A goroutine, and no other, goes from one step to another.
LockMoved(w, from, to) ==
  /\ npc[w] = from /\ npc'[w] = to /\ \A v \in Writers : v # w => npc'[v] = npc[v]
  /\ npc' \in [Writers -> {"idle", "opened", "registered", "held", "closing", "unlocked"}]

\* The registry of the goroutine's process, and no other, is written.
Recorded(w, b) ==
  /\ lockHeld' \in [Processes -> BOOLEAN] /\ lockHeld'[ProcessOf[w]] = b
  /\ \A p \in Processes : p # ProcessOf[w] => lockHeld'[p] = lockHeld[p]

\* A step of a goroutine as a change of its own pc.
LEMMA NativeStep ==
  ASSUME NativeInv, NEW w \in Writers, NEW from, NEW to, Native!Step(w, from, to),
         to \in {"idle", "opened", "registered", "held", "closing", "unlocked"}
  PROVE  LockMoved(w, from, to)
  BY DEF Native!Step, NativeInv, Native!TypeOK, LockMoved

\* The registry of the other processes stays as it is.
LEMMA NativeRegistry ==
  ASSUME NativeInv, NEW w \in Writers, NEW b \in BOOLEAN, Native!Registry(w, b)
  PROVE  Recorded(w, b)
  BY DEF Native!Registry, NativeInv, Native!TypeOK, Recorded

\* Entering the path keeps the invariant when the process had it not.
LEMMA NativeMove ==
  ASSUME NativeInv, NEW w \in Writers, ~lockHeld[ProcessOf[w]], flock' = flock,
         LockMoved(w, "opened", "registered"), Recorded(w, TRUE)
  PROVE  NativeInv'
  <1>1. Native!TypeOK'
    BY DEF NativeInv, Native!TypeOK, LockMoved, Recorded
  <1>2. \A v \in Writers : ProcessOf[v] \in Processes
    OBVIOUS
  <1>3. \A v \in Writers : Entered(v)' <=> Entered(v) \/ v = w
    BY DEF LockMoved, Entered
  <1>4. \A v \in Writers : Entered(v) => ProcessOf[v] # ProcessOf[w]
    BY DEF NativeInv
  <1>5. \A v \in Writers : Entered(v)' => lockHeld'[ProcessOf[v]]
    BY <1>2, <1>3, <1>4 DEF NativeInv, Recorded
  <1>6. \A u, v \in Writers : Entered(u)' /\ Entered(v)' /\ ProcessOf[u] = ProcessOf[v] => u = v
    BY <1>3, <1>4 DEF NativeInv
  <1>7. \A p \in Processes : lockHeld'[p] => \E v \in Writers : ProcessOf[v] = p /\ Entered(v)'
    BY <1>3 DEF NativeInv, Recorded
  <1>8. \A v \in Writers : flock' = v <=> npc'[v] \in {"held", "closing"}
    BY DEF NativeInv, LockMoved
  <1> QED BY <1>1, <1>5, <1>6, <1>7, <1>8 DEF NativeInv

\* Taking the path out keeps the invariant when it was the goroutine's own
\* entry and the goroutine has not the kernel's lock.
LEMMA NativeLeave ==
  ASSUME NativeInv, NEW w \in Writers, NEW from \in {"registered", "unlocked"}, flock' = flock,
         LockMoved(w, from, "idle"), Recorded(w, FALSE)
  PROVE  NativeInv'
  <1>1. Native!TypeOK'
    BY DEF NativeInv, Native!TypeOK, LockMoved, Recorded
  <1>2. \A v \in Writers : ProcessOf[v] \in Processes
    OBVIOUS
  <1>3. Entered(w) /\ \A v \in Writers : Entered(v)' <=> Entered(v) /\ v # w
    BY DEF LockMoved, Entered
  <1>4. \A v \in Writers : Entered(v)' => ProcessOf[v] # ProcessOf[w]
    BY <1>3 DEF NativeInv
  <1>5. \A v \in Writers : Entered(v)' => lockHeld'[ProcessOf[v]]
    BY <1>2, <1>3, <1>4 DEF NativeInv, Recorded
  <1>6. \A u, v \in Writers : Entered(u)' /\ Entered(v)' /\ ProcessOf[u] = ProcessOf[v] => u = v
    BY <1>3 DEF NativeInv
  <1>7. \A p \in Processes : lockHeld'[p] => \E v \in Writers : ProcessOf[v] = p /\ Entered(v)'
    BY <1>3 DEF NativeInv, Recorded
  <1>8. \A v \in Writers : flock' = v <=> npc'[v] \in {"held", "closing"}
    BY DEF NativeInv, LockMoved
  <1> QED BY <1>1, <1>5, <1>6, <1>7, <1>8 DEF NativeInv

\* Every step of a goroutine, and every crash of a process, keeps the invariant.
LEMMA NativeNext == ASSUME NativeInv, [Native!Next]_native PROVE NativeInv'
  <1>1. ASSUME NEW w \in Writers, Native!OpenFile(w) PROVE NativeInv'
    BY <1>1, NativeStep DEF LockMoved, Native!OpenFile, NativeInv, Native!TypeOK, Entered
  <1>2. ASSUME NEW w \in Writers, Native!Register(w) PROVE NativeInv'
    <2>1. CASE lockHeld[ProcessOf[w]]
      BY <1>2, <2>1, NativeStep DEF LockMoved, Native!Register, NativeInv, Native!TypeOK, Entered
    <2>2. CASE ~lockHeld[ProcessOf[w]]
      <3>1. Native!Step(w, "opened", "registered") /\ Native!Registry(w, TRUE) /\ flock' = flock
        BY <1>2, <2>2 DEF Native!Register
      <3>2. LockMoved(w, "opened", "registered") /\ Recorded(w, TRUE)
        BY <3>1, NativeStep, NativeRegistry
      <3> QED BY <2>2, <3>1, <3>2, NativeMove
    <2> QED BY <2>1, <2>2
  <1>3. ASSUME NEW w \in Writers, Native!Lock(w) PROVE NativeInv'
    BY <1>3, NativeStep DEF LockMoved, Native!Lock, NativeInv, Native!TypeOK, Entered
  <1>4. ASSUME NEW w \in Writers, Native!LockFails(w) PROVE NativeInv'
    <2>1. LockMoved(w, "registered", "idle") /\ Recorded(w, FALSE) /\ flock' = flock
      BY <1>4, NativeStep, NativeRegistry DEF Native!LockFails
    <2> QED BY <2>1, NativeLeave
  <1>5. ASSUME NEW w \in Writers, Native!Close(w) PROVE NativeInv'
    BY <1>5, NativeStep DEF LockMoved, Native!Close, NativeInv, Native!TypeOK, Entered
  <1>6. ASSUME NEW w \in Writers, Native!Unlock(w) PROVE NativeInv'
    BY <1>6, NativeStep DEF LockMoved, Native!Unlock, NativeInv, Native!TypeOK, Entered
  <1>7. ASSUME NEW w \in Writers, Native!Unregister(w) PROVE NativeInv'
    <2>1. LockMoved(w, "unlocked", "idle") /\ Recorded(w, FALSE) /\ flock' = flock
      BY <1>7, NativeStep, NativeRegistry DEF Native!Unregister
    <2> QED BY <2>1, NativeLeave
  <1>8. ASSUME NEW p \in Processes, Native!Crash(p) PROVE NativeInv'
    BY <1>8 DEF Native!Crash, NativeInv, Native!TypeOK, Entered
  <1>9. CASE UNCHANGED native
    BY <1>9 DEF native, NativeInv, Native!TypeOK, Entered
  <1> QED BY <1>1, <1>2, <1>3, <1>4, <1>5, <1>6, <1>7, <1>8, <1>9 DEF Native!Next, Native!Obtaining, Native!Closing

\* What the holders of the lock see of a step: one more where there was none,
\* or none any more.
LEMMA NativeRefines == ASSUME NativeInv, [Native!Next]_native PROVE [Native!Abstract!Next]_({w \in Writers : npc[w] = "held"})
  <1> DEFINE h == {w \in Writers : npc[w] = "held"}
  <1>1. CASE \E w \in Writers : Native!Lock(w)
    <2>1. PICK w \in Writers : Native!Lock(w)
      BY <1>1
    <2>2. h = {}
      BY <2>1 DEF Native!Lock, NativeInv
    <2>3. h' = {w}
      BY <2>1, <2>2, NativeStep DEF LockMoved, Native!Lock
    <2> QED BY <2>2, <2>3 DEF Native!Abstract!Next, Native!Abstract!ObtainLock
  <1>2. ASSUME NEW w \in Writers, Native!Close(w) PROVE h' = {}
    BY <1>2, NativeStep DEF LockMoved, Native!Close, NativeInv
  <1>3. ASSUME NEW w \in Writers, Native!OpenFile(w) \/ Native!Register(w) \/ Native!LockFails(w) \/ Native!Closing(w) PROVE h' = h
    <2>1. \E from, to \in {"idle", "opened", "registered", "closing", "unlocked"} : Native!Step(w, from, to)
      BY <1>3 DEF Native!OpenFile, Native!Register, Native!LockFails, Native!Closing, Native!Unlock, Native!Unregister
    <2>2. PICK from \in {"idle", "opened", "registered", "closing", "unlocked"},
               to \in {"idle", "opened", "registered", "closing", "unlocked"} : LockMoved(w, from, to)
      BY <2>1, NativeStep
    <2> QED BY <2>2 DEF LockMoved
  <1>4. ASSUME NEW p \in Processes, Native!Crash(p) PROVE h' = {} \/ h' = h
    <2>1. \A v, w \in Writers : npc[v] = "held" /\ npc[w] = "held" => v = w
      BY DEF NativeInv
    <2> QED BY <1>4, <2>1 DEF Native!Crash
  <1>5. CASE UNCHANGED native
    BY <1>5 DEF native
  <1> QED BY <1>1, <1>2, <1>3, <1>4, <1>5 DEF Native!Next, Native!Obtaining, Native!Abstract!Next, Native!Abstract!GiveBack

-----------------------------------------------------------------------------
(* SimpleFSLockFactory.                                                    *)

\* One goroutine at most is between creating the file and removing it, and
\* the file is its own.
SimpleInv ==
  /\ Simple!TypeOK
  /\ \A w \in SimpleWriters : fpc[w] # "idle" => file # 0
  /\ \A v, w \in SimpleWriters : fpc[v] # "idle" /\ fpc[w] # "idle" => v = w
  /\ \A w \in SimpleWriters : fpc[w] \in {"held", "remove"} => file = modTime[w]

USE StampAssumption

\* At the start there is no file.
LEMMA SimpleInit == Simple!Init => SimpleInv
  BY DEF Simple!Init, SimpleInv, Simple!TypeOK

\* A step of a goroutine as a change of its own pc.
LEMMA SimpleStep ==
  ASSUME SimpleInv, NEW w \in SimpleWriters, NEW from, NEW to, Simple!Step(w, from, to),
         to \in {"idle", "created", "held", "remove"}
  PROVE  /\ fpc[w] = from /\ fpc'[w] = to /\ \A v \in SimpleWriters \ {w} : fpc'[v] = fpc[v]
         /\ fpc' \in [SimpleWriters -> {"idle", "created", "held", "remove"}]
  BY DEF Simple!Step, SimpleInv, Simple!TypeOK

\* Every step, every crash and every removal by hand keeps the invariant.
LEMMA SimpleNext == ASSUME SimpleInv, [Simple!Next]_simple PROVE SimpleInv'
  <1>1. ASSUME NEW w \in SimpleWriters, Simple!Create(w) PROVE SimpleInv'
    BY <1>1, SimpleStep DEF Simple!Create, SimpleInv, Simple!TypeOK
  <1>2. ASSUME NEW w \in SimpleWriters, Simple!Stat(w) PROVE SimpleInv'
    BY <1>2, SimpleStep DEF Simple!Stat, SimpleInv, Simple!TypeOK
  <1>3. ASSUME NEW w \in SimpleWriters, Simple!StatFails(w) PROVE SimpleInv'
    BY <1>3, SimpleStep DEF Simple!StatFails, SimpleInv, Simple!TypeOK
  <1>4. ASSUME NEW w \in SimpleWriters, Simple!Close(w) PROVE SimpleInv'
    BY <1>4, SimpleStep DEF Simple!Close, SimpleInv, Simple!TypeOK
  <1>5. ASSUME NEW w \in SimpleWriters, Simple!Remove(w) PROVE SimpleInv'
    BY <1>5, SimpleStep DEF Simple!Remove, SimpleInv, Simple!TypeOK
  <1>6. ASSUME NEW w \in SimpleWriters, Simple!Crash(w) PROVE SimpleInv'
    BY <1>6 DEF Simple!Crash, SimpleInv, Simple!TypeOK
  <1>7. CASE Simple!RemoveByHand
    BY <1>7 DEF Simple!RemoveByHand, SimpleInv, Simple!TypeOK
  <1>8. CASE UNCHANGED simple
    BY <1>8 DEF simple, SimpleInv, Simple!TypeOK
  <1> QED BY <1>1, <1>2, <1>3, <1>4, <1>5, <1>6, <1>7, <1>8 DEF Simple!Next

\* What the holders of the lock see of a step.
LEMMA SimpleRefines ==
  ASSUME SimpleInv, [Simple!Next]_simple
  PROVE  [Simple!Abstract!Next]_({w \in SimpleWriters : fpc[w] = "held"})
  <1> DEFINE h == {w \in SimpleWriters : fpc[w] = "held"}
  <1>1. CASE \E w \in SimpleWriters : Simple!Stat(w)
    <2>1. PICK w \in SimpleWriters : Simple!Stat(w)
      BY <1>1
    <2>2. fpc[w] = "created" /\ fpc'[w] = "held" /\ \A v \in SimpleWriters \ {w} : fpc'[v] = fpc[v]
      BY <2>1, SimpleStep DEF Simple!Stat
    <2>3. h = {} /\ h' = {w}
      BY <2>2 DEF SimpleInv
    <2> QED BY <2>3 DEF Simple!Abstract!Next, Simple!Abstract!ObtainLock
  <1>2. ASSUME NEW w \in SimpleWriters, Simple!Close(w) \/ Simple!Crash(w) PROVE h' = {} \/ h' = h
    <2>1. \A v \in SimpleWriters : fpc[w] = "held" /\ fpc[v] = "held" => v = w
      BY DEF SimpleInv
    <2> QED BY <1>2, <2>1, SimpleStep DEF Simple!Close, Simple!Crash, SimpleInv, Simple!TypeOK
  <1>3. ASSUME NEW w \in SimpleWriters, Simple!Create(w) \/ Simple!StatFails(w) \/ Simple!Remove(w)
        PROVE  h' = h
    BY <1>3, SimpleStep DEF Simple!Create, Simple!StatFails, Simple!Remove
  <1>4. CASE Simple!RemoveByHand \/ UNCHANGED simple
    BY <1>4 DEF Simple!RemoveByHand, simple
  <1> QED BY <1>1, <1>2, <1>3, <1>4 DEF Simple!Next, Simple!Abstract!Next, Simple!Abstract!GiveBack

-----------------------------------------------------------------------------
(* Both.                                                                   *)

\* A step of one factory is a stutter of the other.
LEMMA FactoriesStep ==
  [FactoriesNext]_<<native, simple>> => [Native!Next]_native /\ [Simple!Next]_simple
  BY DEF FactoriesNext

\* Whatever goroutines, processes and crashes do, the lock of a holder is
\* valid, and nothing is left locked that nobody is about to give back.
THEOREM LocksStayValid == Factories => []LocksValid
  <1>1. FactoriesInit => NativeInv /\ SimpleInv
    BY NativeInit, SimpleInit DEF FactoriesInit
  <1>2. NativeInv /\ SimpleInv /\ [FactoriesNext]_<<native, simple>> => NativeInv' /\ SimpleInv'
    BY FactoriesStep, NativeNext, SimpleNext
  <1>3. NativeInv /\ SimpleInv => LocksValid
    BY DEF NativeInv, SimpleInv, LocksValid, Native!HolderIsValid, Native!NothingLeft, Entered, Native!TypeOK, Simple!HolderIsValid
  <1> QED BY <1>1, <1>2, <1>3, PTL DEF Factories

\* Both factories implement the lock IndexWriter relies on.
THEOREM LocksAreExclusive == Factories => LocksExclude
  <1>1. FactoriesInit => NativeInv /\ SimpleInv
    BY NativeInit, SimpleInit DEF FactoriesInit
  <1>2. NativeInv /\ SimpleInv /\ [FactoriesNext]_<<native, simple>> => NativeInv' /\ SimpleInv'
    BY FactoriesStep, NativeNext, SimpleNext
  <1>3. NativeInv /\ [FactoriesNext]_<<native, simple>> => [Native!Abstract!Next]_({w \in Writers : npc[w] = "held"})
    BY FactoriesStep, NativeRefines
  <1>4. SimpleInv /\ [FactoriesNext]_<<native, simple>> =>
          [Simple!Abstract!Next]_({w \in SimpleWriters : fpc[w] = "held"})
    BY FactoriesStep, SimpleRefines
  <1>5. FactoriesInit => Native!Abstract!Init /\ Simple!Abstract!Init
    BY DEF FactoriesInit, Native!Init, Simple!Init, Native!Abstract!Init, Simple!Abstract!Init
  <1> QED BY <1>1, <1>2, <1>3, <1>4, <1>5, PTL
          DEF Factories, LocksExclude, Native!OneHolder, Simple!OneHolder, Native!Abstract!Spec, Simple!Abstract!Spec
==============================================================================
