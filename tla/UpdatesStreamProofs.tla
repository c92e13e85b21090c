------------------------- MODULE UpdatesStreamProofs -------------------------
(***************************************************************************)
(* Proofs about UpdatesStream, for every number of goroutines and          *)
(* generations: the frontier of finished generations is exact, never       *)
(* passes a packet that is still being resolved, and loses none.  They     *)
(* hold when Clear is called with no other call under way; the run         *)
(* updates_stream_clear shows that they fail without that.                 *)
(***************************************************************************)
EXTENDS UpdatesStream, TLAPS

Flying(p) == pc[p] \in {"reserved", "finishing"}

\* gaps holds the finished generations above the frontier, and nothing else.
GapsExact ==
  /\ 1 .. completed \subseteq done
  /\ gaps = {g \in done : g > completed}

\* A generation handed out is in one place: tracked, in flight or finished.
OnePlace ==
  /\ updates \cap done = {}
  /\ \A p \in Procs : Flying(p) => hand[p] \in Issued /\ hand[p] \notin updates \cup done
  /\ \A p, q \in Procs : Flying(p) /\ Flying(q) /\ p # q => hand[p] # hand[q]
  /\ updates \subseteq Issued /\ done \subseteq Issued
  /\ \A g \in Issued : g \in updates \cup done \/ \E p \in Procs : Flying(p) /\ hand[p] = g

\* f.mu is held by the goroutine in the loop, and the loop leaves no
\* generation behind that the frontier could have passed.
LoopHeld ==
  /\ \A p \in Procs : pc[p] = "advancing" <=> fmu = p
  /\ fmu = None => completed + 1 \notin gaps
  /\ \A p \in Procs : pc[p] # "idle" => epoch[p]

\* The inductive invariant.
IInv == TypeOK /\ GapsExact /\ OnePlace /\ LoopHeld

USE NoneAssumption, GenAssumption, ClearAssumption, RaceAssumption DEF Gens, Issued

\* The initial state satisfies the inductive invariant.
LEMMA InitInv == Init => IInv
  BY DEF Init, IInv, TypeOK, GapsExact, OnePlace, LoopHeld, Flying

\* Push adds one generation, and tracks it.
LEMMA PushInv == ASSUME IInv, NEW p \in Procs, Push(p) PROVE IInv'
  <1> USE DEF Push, IInv
  <1>1. TypeOK'
    BY DEF TypeOK
  <1>2. GapsExact' /\ LoopHeld'
    BY DEF GapsExact, LoopHeld
  <1>3. OnePlace'
    BY DEF TypeOK, OnePlace, Flying
  <1> QED BY <1>1, <1>2, <1>3

\* NextGen adds one generation, and its caller holds it.
LEMMA NextGenInv == ASSUME IInv, NEW p \in Procs, NextGen(p) PROVE IInv'
  <1> USE DEF NextGen, IInv
  <1>1. TypeOK'
    BY DEF TypeOK
  <1>2. GapsExact' /\ LoopHeld'
    BY DEF TypeOK, GapsExact, LoopHeld
  <1>3. OnePlace'
    <2>1. \A q \in Procs : q # p => hand'[q] = hand[q] /\ pc'[q] = pc[q]
      BY DEF TypeOK
    <2>2. hand'[p] = nextGen /\ pc'[p] = "reserved" /\ pc[p] = "idle"
      BY DEF TypeOK
    <2>3. nextGen \notin updates \cup done /\ \A q \in Procs : Flying(q) => hand[q] # nextGen
      BY DEF TypeOK, OnePlace
    <2>4. Issued' = Issued \cup {nextGen}
      BY DEF TypeOK
    <2> QED BY <2>1, <2>2, <2>3, <2>4 DEF OnePlace, Flying
  <1> QED BY <1>1, <1>2, <1>3

\* FinishedSegment only moves its caller on.
LEMMA FinishedSegmentInv == ASSUME IInv, NEW p \in Procs, FinishedSegment(p) PROVE IInv'
  <1> USE DEF FinishedSegment, IInv
  <1>1. TypeOK'
    BY DEF TypeOK
  <1>2. GapsExact' /\ LoopHeld'
    BY DEF TypeOK, GapsExact, LoopHeld
  <1>3. \A q \in Procs : Flying(q)' <=> Flying(q)
    BY DEF TypeOK, Flying
  <1>4. OnePlace'
    BY <1>3 DEF OnePlace
  <1> QED BY <1>1, <1>2, <1>4

\* Finished moves a tracked generation into its caller's hand.
LEMMA FinishedInv == ASSUME IInv, NEW p \in Procs, Finished(p) PROVE IInv'
  <1> USE DEF Finished, IInv
  <1>1. PICK g \in updates : updates' = updates \ {g} /\ hand' = [hand EXCEPT ![p] = g]
    OBVIOUS
  <1>2. TypeOK'
    BY <1>1 DEF TypeOK
  <1>3. GapsExact' /\ LoopHeld'
    BY <1>1 DEF TypeOK, GapsExact, LoopHeld
  <1>4. OnePlace'
    <2>1. \A q \in Procs : q # p => hand'[q] = hand[q] /\ pc'[q] = pc[q]
      BY <1>1 DEF TypeOK
    <2>2. hand'[p] = g /\ pc'[p] = "finishing" /\ pc[p] = "idle"
      BY <1>1 DEF TypeOK
    <2>3. \A q \in Procs : Flying(q) => hand[q] # g
      BY DEF OnePlace
    <2> QED BY <1>1, <2>1, <2>2, <2>3 DEF OnePlace, Flying
  <1> QED BY <1>2, <1>3, <1>4

\* Record moves the generation in hand to the finished ones.
LEMMA RecordInv == ASSUME IInv, NEW p \in Procs, Record(p) PROVE IInv'
  <1> USE DEF Record, IInv
  <1>1. done' = done \cup {hand[p]} /\ hand[p] \in Issued /\ hand[p] \notin done
    BY DEF LoopHeld, OnePlace, Flying
  <1>2. TypeOK'
    <2>1. hand[p] \in Gens
      BY <1>1 DEF TypeOK
    <2>2. done' \subseteq Gens /\ gaps' \subseteq Gens
      BY <1>1, <2>1 DEF TypeOK
    <2>3. pc' \in [Procs -> {"idle", "reserved", "finishing", "advancing"}] /\ fmu' \in Procs
      BY DEF TypeOK
    <2> QED BY <2>2, <2>3 DEF TypeOK
  <1>3. hand[p] > completed
    BY <1>1 DEF TypeOK, GapsExact
  <1>4. GapsExact'
    BY <1>1, <1>3 DEF TypeOK, GapsExact
  <1>5. LoopHeld'
    BY DEF TypeOK, LoopHeld
  <1>6. OnePlace'
    <2>1. \A q \in Procs : q # p => (Flying(q)' <=> Flying(q))
      BY DEF TypeOK, Flying
    <2>2. Flying(p) /\ ~Flying(p)'
      BY DEF TypeOK, Flying
    <2>3. hand' = hand /\ updates' = updates /\ Issued' = Issued
      OBVIOUS
    <2>4. hand[p] \notin updates /\ \A q \in Procs : Flying(q) /\ q # p => hand[q] # hand[p]
      BY <2>2 DEF OnePlace
    <2>5. \A q \in Procs : Flying(q)' => Flying(q) /\ q # p
      BY <2>1, <2>2
    <2>6. updates' \cap done' = {} /\ updates' \subseteq Issued' /\ done' \subseteq Issued'
      <3>1. updates \cap done = {} /\ updates \subseteq Issued /\ done \subseteq Issued
        BY DEF OnePlace
      <3>2. \A g : g \in done' <=> g \in done \/ g = hand[p]
        BY <1>1
      <3>3. updates' \cap done' = {}
        BY <2>3, <2>4, <3>1, <3>2
      <3>4. done' \subseteq Issued
        BY <1>1, <3>1, <3>2
      <3> QED BY <2>3, <3>1, <3>3, <3>4
    <2>7. \A q \in Procs : Flying(q)' => hand'[q] \in Issued' /\ hand'[q] \notin updates' \cup done'
      BY <1>1, <2>3, <2>4, <2>5 DEF OnePlace
    <2>8. \A q, r \in Procs : Flying(q)' /\ Flying(r)' /\ q # r => hand'[q] # hand'[r]
      BY <2>3, <2>5 DEF OnePlace
    <2>9. ASSUME NEW g \in Issued'
          PROVE  g \in updates' \cup done' \/ \E q \in Procs : Flying(q)' /\ hand'[q] = g
      <3>1. g \in updates \cup done \/ \E q \in Procs : Flying(q) /\ hand[q] = g
        BY <2>3 DEF OnePlace
      <3> QED BY <1>1, <2>1, <2>3, <3>1
    <2> QED BY <2>6, <2>7, <2>8, <2>9 DEF OnePlace
  <1> QED BY <1>2, <1>4, <1>5, <1>6

\* An iteration of the loop moves one generation from gaps below the frontier.
LEMMA AdvanceInv == ASSUME IInv, NEW p \in Procs, Advance(p) PROVE IInv'
  <1> USE DEF Advance, IInv
  <1>1. completed + 1 \in done /\ completed + 1 \in Gens
    BY DEF TypeOK, GapsExact
  <1>2. TypeOK'
    BY <1>1 DEF TypeOK
  <1>3. GapsExact'
    <2>1. completed' = completed + 1 /\ done' = done /\ completed \in Nat /\ done \subseteq Nat
      BY DEF TypeOK
    <2>2. 1 .. completed' \subseteq done'
      BY <1>1, <2>1 DEF GapsExact
    <2>3. gaps' = {g \in done' : g > completed'}
      <3>1. \A g : g \in gaps <=> g \in done /\ g > completed
        BY DEF GapsExact
      <3>2. \A g : g \in gaps' <=> g \in gaps /\ g # completed + 1
        OBVIOUS
      <3>3. \A g \in done : g > completed /\ g # completed + 1 <=> g > completed + 1
        BY <2>1
      <3> QED BY <2>1, <3>1, <3>2, <3>3
    <2> QED BY <2>2, <2>3 DEF GapsExact
  <1>4. fmu # None /\ fmu' # None
    BY DEF LoopHeld
  <1>5. LoopHeld'
    BY <1>4 DEF LoopHeld
  <1>6. OnePlace'
    BY DEF OnePlace, Flying
  <1> QED BY <1>2, <1>3, <1>5, <1>6

\* Leaving the loop releases f.mu with no gap at the frontier.
LEMMA UnlockInv == ASSUME IInv, NEW p \in Procs, Unlock(p) PROVE IInv'
  <1> USE DEF Unlock, IInv
  <1>1. TypeOK'
    BY DEF TypeOK
  <1>2. GapsExact'
    BY DEF GapsExact
  <1>3. LoopHeld'
    BY DEF TypeOK, LoopHeld
  <1>4. \A q \in Procs : /\ Flying(q)' <=> Flying(q)
                         /\ Flying(q) => hand'[q] = hand[q]
    BY DEF TypeOK, Flying
  <1>5. OnePlace'
    BY <1>4 DEF OnePlace
  <1> QED BY <1>1, <1>2, <1>3, <1>5

\* Clear with no call under way starts again from the initial state.
LEMMA ClearInv == ASSUME ~ClearRaces, IInv, NEW p \in Procs, Clear(p) PROVE IInv'
  BY DEF Clear, IInv, TypeOK, GapsExact, OnePlace, LoopHeld, Flying

\* Every step keeps the inductive invariant when Clear races with no call.
LEMMA NextInv == ASSUME ~ClearRaces, IInv, [Next]_vars PROVE IInv'
  <1>1. CASE \E p \in Procs : \/ Push(p) \/ NextGen(p) \/ Finished(p) \/ FinishedSegment(p)
                              \/ Record(p) \/ Advance(p) \/ Unlock(p) \/ Clear(p)
    BY <1>1, PushInv, NextGenInv, FinishedInv, FinishedSegmentInv, RecordInv,
       AdvanceInv, UnlockInv, ClearInv
  <1>2. CASE Exhausted \/ UNCHANGED vars
    <2>1. UNCHANGED vars
      BY <1>2 DEF Exhausted
    <2>2. TypeOK' /\ GapsExact' /\ LoopHeld'
      BY <2>1 DEF vars, IInv, TypeOK, GapsExact, LoopHeld
    <2>3. OnePlace'
      BY <2>1 DEF vars, IInv, OnePlace, Flying
    <2> QED BY <2>2, <2>3 DEF IInv
  <1> QED BY <1>1, <1>2 DEF Next

\* The inductive invariant holds in every reachable state.
LEMMA Inductive == ASSUME ~ClearRaces PROVE Spec => []IInv
  BY InitInv, NextInv, PTL DEF Spec

\* The state of the stream keeps its types.
THEOREM TypeCorrect == ASSUME ~ClearRaces PROVE Spec => []TypeOK
  <1>1. IInv => TypeOK
    BY DEF IInv
  <1> QED BY <1>1, Inductive, PTL

\* For any number of goroutines and any order in which packets finish,
\* CompletedDelGen and StillRunning answer exactly.
THEOREM FrontierIsExact == ASSUME ~ClearRaces PROVE Spec => []FrontierExact
  <1>1. IInv => FrontierExact
    BY DEF IInv, TypeOK, GapsExact, OnePlace, LoopHeld, FrontierExact, StillRunning
  <1> QED BY <1>1, Inductive, PTL

\* For any number of goroutines the frontier is below every packet that is
\* still tracked and every generation whose call has not reached f.mu.
THEOREM FrontierIsSafe == ASSUME ~ClearRaces PROVE Spec => []FrontierSafe
  <1>1. IInv => FrontierSafe
    BY DEF IInv, TypeOK, GapsExact, OnePlace, FrontierSafe, InFlight, Flying
  <1> QED BY <1>1, Inductive, PTL

\* For any number of goroutines no generation is lost between the two mutexes,
\* and at rest the frontier has caught up.
THEOREM NoGenerationLost == ASSUME ~ClearRaces PROVE Spec => []NoneLost
  <1>1. ASSUME IInv PROVE NoneLost
    <2> USE <1>1 DEF IInv
    <2>1. Issued = updates \cup InFlight \cup done
      <3>1. \A g : g \in InFlight <=> \E p \in Procs : Flying(p) /\ hand[p] = g
        BY DEF InFlight, Flying
      <3>2. \A g \in Issued : g \in updates \cup InFlight \cup done
        BY <3>1 DEF OnePlace
      <3>3. \A g \in updates \cup InFlight \cup done : g \in Issued
        BY <3>1 DEF OnePlace
      <3> QED BY <3>2, <3>3
    <2>2. ASSUME updates = {}, \A p \in Procs : pc[p] = "idle"
          PROVE  completed = nextGen - 1 /\ gaps = {}
      <3>1. done = Issued
        BY <2>2 DEF OnePlace, Flying
      <3>2. fmu = None
        BY <2>2 DEF LoopHeld, TypeOK
      <3>3. completed + 1 \notin done
        BY <3>2 DEF LoopHeld, GapsExact, TypeOK
      <3> QED BY <3>1, <3>3 DEF TypeOK, GapsExact
    <2> QED BY <2>1, <2>2 DEF NoneLost
  <1> QED BY <1>1, Inductive, PTL
=============================================================================
