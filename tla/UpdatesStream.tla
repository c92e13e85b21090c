---------------------------- MODULE UpdatesStream ----------------------------
(***************************************************************************)
(* BufferedUpdatesStream: the generations it hands out to packets of       *)
(* deletes, the packets it still tracks, and finishedSegments, the         *)
(* contiguous prefix of generations that are resolved.                     *)
(*                                                                         *)
(* The stream has two mutexes.  s.mu guards nextGen and updates and is     *)
(* held for one step; f.mu guards completed and gaps and is held through   *)
(* the loop of finishedSegment, one step per iteration.  Finished leaves   *)
(* s.mu before it takes f.mu, so other goroutines run in between.          *)
(* A packet is named by its generation.                                    *)
(***************************************************************************)
EXTENDS Integers

CONSTANTS
  None,        \* no goroutine
  Procs,       \* goroutines that use the stream
  MaxGen,      \* bound: generations
  MaxClears,   \* bound: calls of Clear
  ClearRaces   \* TRUE: Clear may be called while other calls are under way

ASSUME NoneAssumption  == None \notin Procs
ASSUME GenAssumption   == MaxGen \in Nat
ASSUME ClearAssumption == MaxClears \in Nat
ASSUME RaceAssumption  == ClearRaces \in BOOLEAN

Gens == 1 .. MaxGen

VARIABLES
  nextGen,    \* BufferedUpdatesStream.nextGen
  updates,    \* BufferedUpdatesStream.updates
  completed,  \* finishedSegments.completed
  gaps,       \* finishedSegments.gaps
  fmu,        \* holder of finishedSegments.mu, or None
  hand,       \* goroutine -> the generation of its call, 0 when it has none
  epoch,      \* goroutine -> history: was the stream cleared since it got it
  pc,         \* goroutine -> "idle", "reserved", "finishing", "advancing"
  done,       \* history: generations finished since the last Clear
  clears      \* history: calls of Clear

vars == <<nextGen, updates, completed, gaps, fmu, hand, epoch, pc, done, clears>>

\* NewBufferedUpdatesStream, newFinishedSegments
Init ==
  /\ nextGen = 1 /\ updates = {}
  /\ completed = 0 /\ gaps = {} /\ fmu = None
  /\ hand = [p \in Procs |-> 0] /\ epoch = [p \in Procs |-> TRUE]
  /\ pc = [p \in Procs |-> "idle"]
  /\ done = {} /\ clears = 0

\* Push: the generation and the insertion are one step under s.mu.
Push(p) ==
  /\ pc[p] = "idle" /\ nextGen \in Gens
  /\ updates' = updates \cup {nextGen}
  /\ nextGen' = nextGen + 1
  /\ UNCHANGED <<completed, gaps, fmu, hand, epoch, pc, done, clears>>

\* NextGen: a generation without a packet, for a segment without deletes.
NextGen(p) ==
  /\ pc[p] = "idle" /\ nextGen \in Gens
  /\ nextGen' = nextGen + 1
  /\ hand' = [hand EXCEPT ![p] = nextGen]
  /\ epoch' = [epoch EXCEPT ![p] = TRUE]
  /\ pc' = [pc EXCEPT ![p] = "reserved"]
  /\ UNCHANGED <<updates, completed, gaps, fmu, done, clears>>

\* FinishedSegment, called with the generation NextGen returned.
FinishedSegment(p) ==
  /\ pc[p] = "reserved"
  /\ pc' = [pc EXCEPT ![p] = "finishing"]
  /\ UNCHANGED <<nextGen, updates, completed, gaps, fmu, hand, epoch, done, clears>>

\* Mutant: the packet is dropped, its generation is not reported.
MutantFinishedForgets(p) ==
  /\ pc[p] = "idle"
  /\ \E g \in updates : updates' = updates \ {g}
  /\ UNCHANGED <<nextGen, completed, gaps, fmu, hand, epoch, pc, done, clears>>

\* Finished up to s.mu.Unlock.  A packet no longer tracked is an error that
\* changes nothing, so the step is taken only for tracked ones.
Finished(p) ==
  /\ pc[p] = "idle"
  /\ \E g \in updates :
       /\ updates' = updates \ {g}
       /\ hand' = [hand EXCEPT ![p] = g]
  /\ epoch' = [epoch EXCEPT ![p] = TRUE]
  /\ pc' = [pc EXCEPT ![p] = "finishing"]
  /\ UNCHANGED <<nextGen, completed, gaps, fmu, done, clears>>

\* finishedSegment: take f.mu and record the generation.
Record(p) ==
  /\ pc[p] = "finishing" /\ fmu = None
  /\ fmu' = p
  /\ gaps' = gaps \cup {hand[p]}
  /\ done' = IF epoch[p] THEN done \cup {hand[p]} ELSE done
  /\ pc' = [pc EXCEPT ![p] = "advancing"]
  /\ UNCHANGED <<nextGen, updates, completed, hand, epoch, clears>>

\* Mutant: the loop forgets to move completed.
MutantAdvanceSpins(p) ==
  /\ pc[p] = "advancing" /\ completed + 1 \in gaps
  /\ UNCHANGED vars

\* Mutant: the frontier jumps to the generation just finished.
MutantAdvanceJump(p) ==
  /\ pc[p] = "advancing" /\ completed < hand[p]
  /\ completed' = hand[p] /\ gaps' = gaps \ {hand[p]}
  /\ UNCHANGED <<nextGen, updates, fmu, hand, epoch, pc, done, clears>>

\* finishedSegment: one iteration of the loop that advances the frontier.
Advance(p) ==
  /\ pc[p] = "advancing" /\ completed + 1 \in gaps
  /\ completed' = completed + 1
  /\ gaps' = gaps \ {completed + 1}
  /\ UNCHANGED <<nextGen, updates, fmu, hand, epoch, pc, done, clears>>

\* Mutant: only one hole is filled per call.
MutantAdvanceOnce(p) ==
  /\ pc[p] = "advancing"
  /\ completed + 1 \notin gaps \/ completed = hand[p]
  /\ fmu' = None /\ hand' = [hand EXCEPT ![p] = 0]
  /\ pc' = [pc EXCEPT ![p] = "idle"]
  /\ UNCHANGED <<nextGen, updates, completed, gaps, epoch, done, clears>>

\* finishedSegment: the loop ends and f.mu is released.
Unlock(p) ==
  /\ pc[p] = "advancing" /\ completed + 1 \notin gaps
  /\ fmu' = None
  /\ hand' = [hand EXCEPT ![p] = 0]
  /\ pc' = [pc EXCEPT ![p] = "idle"]
  /\ UNCHANGED <<nextGen, updates, completed, gaps, epoch, done, clears>>

\* Mutant: generations start again at 0.
MutantClearFromZero(p) ==
  /\ pc[p] = "idle" /\ fmu = None /\ clears < MaxClears
  /\ \A q \in Procs : pc[q] = "idle"
  /\ updates' = {} /\ nextGen' = 0
  /\ gaps' = {} /\ completed' = 0
  /\ epoch' = [q \in Procs |-> FALSE]
  /\ done' = {} /\ clears' = clears + 1
  /\ UNCHANGED <<fmu, hand, pc>>

\* Clear: both mutexes are held, finishedSegments.mu inside s.mu.
Clear(p) ==
  /\ pc[p] = "idle" /\ fmu = None /\ clears < MaxClears
  /\ ClearRaces \/ \A q \in Procs : pc[q] = "idle"
  /\ updates' = {} /\ nextGen' = 1
  /\ gaps' = {} /\ completed' = 0
  /\ epoch' = [q \in Procs |-> FALSE]
  /\ done' = {} /\ clears' = clears + 1
  /\ UNCHANGED <<fmu, hand, pc>>

\* Every generation is handed out and resolved: nothing is left to call.
Exhausted ==
  /\ nextGen \notin Gens /\ updates = {} /\ clears = MaxClears
  /\ \A p \in Procs : pc[p] = "idle"
  /\ UNCHANGED vars

Next ==
  \/ \E p \in Procs :
       \/ Push(p) \/ NextGen(p) \/ Finished(p) \/ FinishedSegment(p)
       \/ Record(p) \/ Advance(p) \/ Unlock(p)
       \/ Clear(p)
  \/ Exhausted

\* A call that was made goes on, and its caller resolves what it took.
Fairness ==
  \A p \in Procs : /\ WF_vars(FinishedSegment(p))
                   /\ SF_vars(Record(p))
                   /\ WF_vars(Advance(p)) /\ WF_vars(Unlock(p))

Spec == Init /\ [][Next]_vars
FairSpec == Spec /\ Fairness

-----------------------------------------------------------------------------
\* StillRunning(g), as a caller that takes f.mu reads it.
StillRunning(g) == g > completed /\ g \notin gaps

Issued == 1 .. nextGen - 1

\* The generation some call holds outside both mutexes.
InFlight == {hand[p] : p \in {q \in Procs : pc[q] \in {"reserved", "finishing"}}}

\* Types of the state: the frontier lies among the generations handed out.
TypeOK ==
  /\ nextGen \in 1 .. MaxGen + 1 /\ updates \subseteq Gens
  /\ completed \in 0 .. MaxGen /\ gaps \subseteq Gens
  /\ fmu \in Procs \cup {None}
  /\ hand \in [Procs -> 0 .. MaxGen] /\ epoch \in [Procs -> BOOLEAN]
  /\ pc \in [Procs -> {"idle", "reserved", "finishing", "advancing"}]
  /\ done \subseteq Gens /\ clears \in 0 .. MaxClears

\* CompletedDelGen is "the largest delGen for which every prior packet,
\* inclusive, is known to be finished", whatever the order packets finish in,
\* and StillRunning tells exactly the generations that are not finished.
FrontierExact ==
  fmu = None =>
    /\ 1 .. completed \subseteq done
    /\ completed + 1 \notin done
    /\ \A g \in Issued : StillRunning(g) <=> g \notin done

\* The frontier never passes a packet that is still tracked nor a generation
\* whose call to finishedSegment is still on its way: what is at or below it
\* may be written to disk.
FrontierSafe ==
  \A g \in updates \cup InFlight : g > completed /\ g \notin gaps

\* No generation is lost: one handed out is tracked, held by a call, or
\* finished.  With nothing tracked and no call under way the frontier has
\* caught up with the counter and no gap is left behind.
NoneLost ==
  /\ Issued = updates \cup InFlight \cup done
  /\ (updates = {} /\ \A p \in Procs : pc[p] = "idle") =>
        completed = nextGen - 1 /\ gaps = {}

\* A call of Finished or FinishedSegment returns, even when every goroutine
\* contends for f.mu.
FinishReturns == \A p \in Procs : pc[p] # "idle" ~> pc[p] = "idle"
=============================================================================
