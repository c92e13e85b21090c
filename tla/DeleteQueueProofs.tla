-------------------------- MODULE DeleteQueueProofs --------------------------
(***************************************************************************)
(* Proofs about DeleteQueue, for any number of DWPTs, deleters, documents  *)
(* and updates.  One inductive invariant carries all of them: who holds    *)
(* which mutex at which step, what the phases of the flusher exclude, that *)
(* the list is numbered in order, what a DWPT's slice has reached, and     *)
(* where in the global stream every update is.                             *)
(***************************************************************************)
EXTENDS DeleteQueue, FiniteSetTheorems, TLAPS

Ending == {"naked", "nakedFreeze", "nakedTicket", "closing", "done"}
Adding == {"add", "store", "number"}
Updating == {"sliceTail", "try", "apply", "private"}
Flushing == {"checkedOut", "prepare", "freeze", "ticket"}

\* The steps each kind of goroutine takes; none of them is "panic".
Roles ==
    /\ \A w \in Writers : pc[w] \in {"new", "free", "index", "flushed", "gone"}
                                    \cup Adding \cup Updating \cup Flushing
    /\ \A d \in Deleters : pc[d] \in {"idle", "try", "apply", "size", "naked", "nakedFreeze",
                                      "nakedTicket"} \cup Adding
    /\ pc[Flusher] \in {"idle", "aborting", "mark", "drain"} \cup Ending

\* Who holds the four mutexes.
Locked ==
    /\ \A a \in Adders : mu = a <=> pc[a] \in {"store", "number"}
    /\ \A a \in Actors : gLock = a <=> pc[a] \in {"apply", "size", "freeze", "nakedFreeze"}
    /\ \A a \in Actors : qMu = a <=> pc[a] \in {"prepare", "freeze", "ticket", "nakedFreeze",
                                                "nakedTicket"}
    /\ \A d \in Deleters : dwLock = d <=> pc[d] \in {"try", "apply"} \cup Adding
    /\ dwLock = Flusher <=> pc[Flusher] = "aborting"

\* What the phases of a full flush exclude.
Phases ==
    /\ advanced <=> pc[Flusher] \notin {"idle", "aborting"}
    /\ advanced => dwLock = None
    /\ flushed => pc[Flusher] \in {"drain"} \cup Ending
    /\ pc[Flusher] = "drain" =>
          \A w \in Writers : pc[w] \in {"new", "free", "flushed", "gone"} \cup Flushing
    /\ pc[Flusher] \in Ending => \A w \in Writers : pc[w] \in {"new", "flushed", "gone"}
    /\ closed <=> pc[Flusher] = "done"

\* The DWPTs that are going to draw a sequence number.
Drawing == {w \in Writers : pc[w] \in {"index"} \cup Adding}

\* Once the queue is advanced there is a number left for each of them and for
\* the flush.
Supply == advanced /\ ~closed => nextSeqNo + Cardinality(Drawing) <= maxSeqNo

\* The list: the last node alone may still be without its number.
Order ==
    /\ \A n \in Nodes : seqOf[n] < nextSeqNo /\ (n > tail => seqOf[n] = 0)
    /\ \A a \in Adders : pc[a] = "store" => tail < MaxNodes
    /\ \A a \in Adders : pc[a] = "number" => loc[a] = tail /\ tail > 0 /\ seqOf[tail] = 0
    /\ \A n \in 1..tail : seqOf[n] = 0 => n = tail /\ \E a \in Adders : pc[a] = "number"
    /\ SeqNoOrder

\* How far the slice of a DWPT reaches.
Slices ==
    \A w \in Writers :
        /\ head[w] <= tail /\ slice[w] <= tail
        /\ pc[w] \in {"number"} \cup Updating => head[w] < loc[w] /\ loc[w] <= tail
        /\ pc[w] \in Updating => seqOf[loc[w]] > 0
        /\ pc[w] \in Updating \ {"sliceTail"} => slice[w] = loc[w]
        /\ pc[w] \in {"freeze", "ticket"} => head[w] <= slice[w]
        /\ pc[w] = "freeze" => slice[w] = gTail

\* A document of a DWPT against the updates: an update has, or will get, a
\* larger number exactly when it was applied up to a later document, or is not
\* yet in the DWPT's slice.
InOrder(w, i) ==
    docs[w][i] > 0 => \A n \in 1..tail : (seqOf[n] = 0 \/ seqOf[n] > docs[w][i])
                                             <=> (i <= upto[w][n] \/ n > head[w])

\* What is in the buffer of a DWPT.
Private ==
    \A w \in Writers :
        /\ pc[w] = "new" => docs[w] = <<>>
        /\ \A n \in Nodes : upto[w][n] > 0 => n <= head[w]
        /\ pc[w] # "gone" => \A n \in Nodes : upto[w][n] <= Len(docs[w])
        /\ \A i \in 1..Len(docs[w]) : docs[w][i] < nextSeqNo /\ InOrder(w, i)

\* Where an update is in the global stream.
Stream ==
    /\ gHead <= gTail /\ gTail <= tail
    /\ gLock = None => gHead = gTail
    /\ \A a \in Actors : packet[a] # {} => pc[a] \in {"ticket", "nakedTicket"}
    /\ GlobalExactlyOnce

\* What the tickets hold: all updates up to the end of the segment's slice.
Ticketed ==
    /\ \A w \in Writers : pc[w] = "ticket" =>
          \A n \in (1..tail) \ dropped : n \in FrozenByAll <=> n <= slice[w]
    /\ \A k \in 1..Len(tickets) : tickets[k].writer \in Writers =>
          /\ pc[tickets[k].writer] = "flushed"
          /\ \A n \in (1..tail) \ dropped : n \in Frozen(k) <=> n <= head[tickets[k].writer]

NoChanges == gBuf = {} /\ gHead = gTail /\ gTail = tail

\* A full flush that flushed a DWPT has frozen, or will freeze, everything.
Drained ==
    /\ pc[Flusher] = "drain" /\ flushed =>
          \/ NoChanges
          \/ \E w \in Writers : \/ pc[w] \in {"checkedOut", "prepare"}
                                \/ pc[w] = "freeze" /\ gTail = tail
    /\ pc[Flusher] = "naked" => ~flushed
    /\ pc[Flusher] = "nakedFreeze" => gTail = tail
    /\ pc[Flusher] \in {"nakedTicket", "closing", "done"} => NoChanges

\* The inductive invariant.
IInv ==
    /\ TypeOK /\ Roles /\ Locked /\ Phases /\ Supply /\ Order /\ Slices /\ Private
    /\ Stream /\ Ticketed /\ Drained

USE DeleteQueueAssumption DEF Adders, Actors, Nodes

\* The initial state satisfies the inductive invariant.
LEMMA InitInv == Init => IInv
  <1> SUFFICES ASSUME Init PROVE IInv
    OBVIOUS
  <1> USE DEF Init
  <1>1. TypeOK
    <2>1. tickets \in Seq(Ticket) /\ docs \in [Writers -> Seq(Nat)]
      OBVIOUS
    <2>2. pc \in [Actors -> States] /\ loc \in [Adders -> 0..MaxNodes]
      BY DEF States
    <2>3. packet \in [Actors -> SUBSET Nodes] /\ upto \in [Writers -> [Nodes -> Nat]]
      OBVIOUS
    <2>4. mu \in Adders \cup {None} /\ qMu \in Actors \cup {None} /\ gLock \in Actors \cup {None}
      OBVIOUS
    <2>5. dwLock \in Deleters \cup {Flusher, None} /\ gBuf \in SUBSET Nodes /\ dropped \in SUBSET Nodes
      OBVIOUS
    <2>6. head \in [Writers -> 0..MaxNodes] /\ slice \in [Writers -> 0..MaxNodes] /\ seqOf \in [Nodes -> Nat]
      OBVIOUS
    <2>7. /\ tail \in 0..MaxNodes /\ gHead \in 0..MaxNodes /\ gTail \in 0..MaxNodes
          /\ nextSeqNo \in Nat \ {0} /\ maxSeqNo \in Nat
      OBVIOUS
    <2>8. advanced \in BOOLEAN /\ closed \in BOOLEAN /\ flushed \in BOOLEAN
      BY Zenon
    <2> HIDE DEF Init
    <2> QED BY <2>1, <2>2, <2>3, <2>4, <2>5, <2>6, <2>7, <2>8 DEF TypeOK
  <1>2. Roles /\ Locked /\ Phases
    BY DEF Roles, Locked, Phases, Adding, Updating, Flushing, Ending
  <1>3. Supply /\ Order /\ Slices /\ Private
    BY DEF Supply, Order, SeqNoOrder, Slices, Private, InOrder, Updating
  <1>4. Stream /\ Ticketed /\ Drained
    BY DEF Stream, GlobalExactlyOnce, Ticketed, Drained, Frozen, FrozenByAll
  <1> QED BY <1>1, <1>2, <1>3, <1>4 DEF IInv

-----------------------------------------------------------------------------
(* What a step leaves alone, conjunct by conjunct.                         *)

\* Goroutine a goes from one step to another, and nobody else moves.
Moves(a, from, to) ==
    pc[a] = from /\ pc'[a] = to /\ \A b \in Actors \ {a} : pc'[b] = pc[b]

\* Goto is such a move.
LEMMA GotoMoves ==
    ASSUME TypeOK, NEW a \in Actors, NEW s, Goto(a, s)
    PROVE  Moves(a, pc[a], s)
  BY DEF TypeOK, Goto, Moves

\* It keeps the type of pc.
LEMMA GotoType ==
    ASSUME TypeOK, NEW a \in Actors, NEW s \in States, Goto(a, s)
    PROVE  pc' \in [Actors -> States]
  BY DEF TypeOK, Goto

\* Supply depends on the counters and on who is going to draw a number.
LEMMA SupplyFrame ==
    ASSUME Supply, UNCHANGED <<advanced, closed, nextSeqNo, maxSeqNo>>,
           \A w \in Writers : pc'[w] \in {"index"} \cup Adding <=> pc[w] \in {"index"} \cup Adding
    PROVE  Supply'
  <1>1. Drawing' = Drawing
    BY DEF Drawing
  <1> QED BY <1>1 DEF Supply

\* Order depends on the list and on who is about to number a node.
LEMMA OrderFrame ==
    ASSUME TypeOK, Order, UNCHANGED <<tail, seqOf, loc>>,
           nextSeqNo' \in Nat, nextSeqNo' >= nextSeqNo,
           \A a \in Adders : /\ pc'[a] = "number" <=> pc[a] = "number"
                             /\ pc'[a] = "store" => pc[a] = "store" \/ tail < MaxNodes
    PROVE  Order'
  <1>1. tail \in 0..MaxNodes /\ seqOf \in [Nodes -> Nat] /\ nextSeqNo \in Nat
    BY DEF TypeOK
  <1> QED BY <1>1, SMTT(30) DEF Order, SeqNoOrder

\* Slices holds as long as nobody enters one of the steps it is about.
LEMMA SlicesFrame ==
    ASSUME Slices, UNCHANGED <<tail, seqOf, loc, head, slice, gTail>>,
           \A w \in Writers : pc'[w] \in {"number", "freeze", "ticket"} \cup Updating =>
                                \/ pc'[w] = pc[w]
                                \/ pc'[w] \in Updating /\ pc[w] \in Updating \ {"sliceTail"}
                                \/ pc'[w] = "ticket" /\ pc[w] = "freeze"
    PROVE  Slices'
  BY DEF Slices, Updating

\* Private depends on the list and on the DWPTs' buffers.
LEMMA PrivateFrame ==
    ASSUME TypeOK, Private, UNCHANGED <<tail, seqOf, head, upto, docs>>,
           nextSeqNo' \in Nat, nextSeqNo' >= nextSeqNo,
           \A w \in Writers : /\ pc'[w] = "new" => pc[w] = "new"
                              /\ pc[w] = "gone" => pc'[w] = "gone"
    PROVE  Private'
  <1>1. nextSeqNo \in Nat /\ docs \in [Writers -> Seq(Nat)]
    BY DEF TypeOK
  <1>2. \A w \in Writers : \A i \in 1..Len(docs[w]) : InOrder(w, i)' <=> InOrder(w, i)
    BY DEF InOrder
  <1>3. \A w \in Writers : \A i \in 1..Len(docs[w]) : docs[w][i] < nextSeqNo => docs'[w][i] < nextSeqNo'
    BY <1>1
  <1> QED BY <1>2, <1>3 DEF Private

\* Stream depends on the global buffer and on what is frozen.
LEMMA StreamFrame ==
    ASSUME Stream, UNCHANGED <<tail, gLock, gHead, gTail, gBuf, dropped, tickets, packet>>,
           \A a \in Actors : pc[a] \in {"ticket", "nakedTicket"} => pc'[a] = pc[a]
    PROVE  Stream'
  BY DEF Stream, GlobalExactlyOnce, Frozen, FrozenByAll

\* Ticketed depends on what is frozen and on the slices of flushed DWPTs.
LEMMA TicketedFrame ==
    ASSUME Ticketed, UNCHANGED <<tail, dropped, tickets, packet, head, slice>>,
           \A w \in Writers : /\ pc'[w] = "ticket" => pc[w] = "ticket"
                              /\ pc[w] = "flushed" => pc'[w] = "flushed"
    PROVE  Ticketed'
  BY DEF Ticketed, Frozen, FrozenByAll

\* Drained depends on the global buffer, the flusher and the DWPTs in a flush.
LEMMA DrainedFrame ==
    ASSUME Drained, UNCHANGED <<tail, gHead, gTail, gBuf, flushed>>, pc'[Flusher] = pc[Flusher],
           \A w \in Writers : pc[w] \in {"checkedOut", "prepare", "freeze"} =>
                                 pc'[w] = pc[w] \/ (pc[w] = "checkedOut" /\ pc'[w] = "prepare")
    PROVE  Drained'
  BY DEF Drained, NoChanges

data == <<tail, seqOf, loc, head, slice, upto, docs, gLock, gHead, gTail, gBuf, dropped,
          tickets, packet>>

\* A move of one goroutine that changes no more than mutexes keeps them all.
LEMMA MoveFrame ==
    ASSUME IInv, NEW a \in Adders, NEW from, NEW to, Moves(a, from, to),
           UNCHANGED data, UNCHANGED <<advanced, closed, nextSeqNo, maxSeqNo, flushed>>,
           from \notin {"number", "sliceTail", "prepare", "freeze", "ticket", "nakedTicket", "new",
                        "flushed", "gone"},
           to \notin {"number", "sliceTail", "freeze", "ticket", "nakedTicket", "new"},
           to \in Updating => from \in Updating,
           from = "checkedOut" => to = "prepare", to = "store" => tail < MaxNodes,
           a \in Writers /\ advanced =>
              (from \in {"index"} \cup Adding <=> to \in {"index"} \cup Adding)
    PROVE  Supply' /\ Order' /\ Slices' /\ Private' /\ Stream' /\ Ticketed' /\ Drained'
  <1> USE DEF IInv, Moves, data
  <1>1. nextSeqNo \in Nat /\ nextSeqNo' = nextSeqNo
    BY DEF TypeOK
  <1>2. Supply' /\ Order'
    <2>1. CASE advanced
      BY <1>1, <2>1, SupplyFrame, OrderFrame
    <2>2. CASE ~advanced
      BY <1>1, <2>2, OrderFrame DEF Supply
    <2> QED BY <2>1, <2>2
  <1>3. Slices' /\ Private'
    BY <1>1, SlicesFrame, PrivateFrame DEF Updating
  <1>4. Stream' /\ Ticketed'
    BY StreamFrame, TicketedFrame
  <1>5. Drained'
    <2>1. Flusher \in Actors \ {a}
      OBVIOUS
    <2> QED BY <2>1, DrainedFrame
  <1> QED BY <1>2, <1>3, <1>4, <1>5

-----------------------------------------------------------------------------
(* One lemma for each action.                                              *)

\* AddNode takes d.mu: nobody adds to a closed queue.
LEMMA AddNodeLinkInv == ASSUME IInv, NEW a \in Adders, AddNodeLink(a) PROVE IInv'
  <1> USE DEF AddNodeLink, seqVars, globalVars, ticketVars, writerVars
  <1>1. ~closed
    BY DEF IInv, Phases, Roles, Locked, TypeOK, Ending, Adding
  <1>2. Moves(a, "add", "store")
    BY <1>1, GotoMoves DEF IInv
  <1>3. TypeOK'
    BY <1>1, ZenonT(60) DEF IInv, TypeOK, Goto, States
  <1>4. Roles' /\ Phases'
    BY <1>1, <1>2 DEF IInv, Roles, Phases, Moves, Adding, Updating, Flushing, Ending
  <1>5. Locked'
    BY <1>1, <1>2 DEF IInv, Locked, Moves, Adding
  <1>6. Supply' /\ Order' /\ Slices' /\ Private' /\ Stream' /\ Ticketed' /\ Drained'
    BY <1>1, <1>2, MoveFrame DEF data, Updating, Adding
  <1> QED BY <1>3, <1>4, <1>5, <1>6 DEF IInv

\* What the tickets hold is behind the head of the global slice.
LEMMA FrozenBehind ==
    ASSUME Stream
    PROVE  /\ FrozenByAll \subseteq 1..gHead
           /\ \A k \in 1..Len(tickets) : Frozen(k) \subseteq 1..gHead
  BY DEF Stream, GlobalExactlyOnce, FrozenByAll, Frozen

\* storeTail: the new node is ahead of every slice, and nobody is draining.
LEMMA AddNodeStoreInv == ASSUME IInv, NEW a \in Adders, AddNodeStore(a) PROVE IInv'
  <1> USE DEF AddNodeStore, seqVars, globalVars, ticketVars, writerVars
  <1>1. Moves(a, "store", "number")
    BY GotoMoves DEF IInv
  <1>2. tail \in 0..MaxNodes /\ tail' = tail + 1 /\ tail < MaxNodes
    BY DEF IInv, TypeOK, Order
  <1>3. TypeOK'
    <2>1. pc' \in [Actors -> States]
      BY GotoType DEF IInv, States
    <2>2. loc \in [Adders -> 0..MaxNodes]
      BY DEF IInv, TypeOK
    <2>3. tail + 1 \in 0..MaxNodes
      BY <1>2
    <2>4. loc' \in [Adders -> 0..MaxNodes]
      BY <2>2, <2>3
    <2> QED BY <1>2, <2>1, <2>3, <2>4, ZenonT(60) DEF IInv, TypeOK
  <1>4. Roles' /\ Phases'
    BY <1>1 DEF IInv, Roles, Phases, Moves, Adding, Updating, Flushing, Ending
  <1>5. Locked'
    BY <1>1 DEF IInv, Locked, Moves, Adding
  <1>6. Supply'
    BY <1>1, SupplyFrame DEF IInv, Moves, Adding
  <1>7. loc'[a] = tail + 1 /\ \A b \in Adders \ {a} : loc'[b] = loc[b]
    BY DEF IInv, TypeOK
  <1>8. Order'
    <2>1. \A b \in Adders \ {a} : pc[b] \notin {"store", "number"}
      BY DEF IInv, Locked
    <2>2. seqOf \in [Nodes -> Nat] /\ seqOf' = seqOf /\ nextSeqNo' = nextSeqNo
      BY DEF IInv, TypeOK
    <2>3. \A n \in 1..tail : seqOf[n] > 0
      BY <1>1, <2>1, <2>2, <1>2 DEF IInv, Order, Moves
    <2>4. seqOf[tail + 1] = 0
      BY <1>2 DEF IInv, Order
    <2> QED BY <1>1, <1>2, <1>7, <2>1, <2>2, <2>3, <2>4 DEF IInv, Order, SeqNoOrder, Moves
  <1>9. Slices'
    <2>1. \A w \in Writers : head[w] \in 0..tail /\ slice[w] \in 0..tail
      BY <1>2 DEF IInv, TypeOK, Slices
    <2>2. \A w \in Writers : loc[w] \in 0..MaxNodes
      BY DEF IInv, TypeOK
    <2> QED BY <1>1, <1>2, <1>7, <2>1, <2>2 DEF IInv, Slices, Moves, Updating
  <1>10. Private'
    <2>1. seqOf[tail + 1] = 0
      BY <1>2 DEF IInv, Order
    <2>2. \A w \in Writers : head[w] \in 0..tail
      BY <1>2 DEF IInv, TypeOK, Slices
    <2> QED BY <1>1, <1>2, <2>1, <2>2 DEF IInv, Private, InOrder, Moves
  <1>11. Stream'
    <2>1. UNCHANGED <<gHead, gTail, gBuf, gLock, dropped, packet, tickets>>
      OBVIOUS
    <2>2. gHead \in 0..MaxNodes /\ gTail \in 0..MaxNodes
      BY DEF IInv, TypeOK
    <2>3. GlobalExactlyOnce'
      BY <2>1 DEF IInv, Stream, GlobalExactlyOnce, FrozenByAll, Frozen
    <2> QED BY <1>1, <1>2, <2>1, <2>2, <2>3 DEF IInv, Stream, Moves
  <1>12. Ticketed'
    <2>1. \A k \in 1..Len(tickets) : tail + 1 \notin Frozen(k)
      BY <1>2, FrozenBehind DEF IInv, TypeOK, Stream
    <2>2. tail + 1 \notin FrozenByAll
      BY <1>2, FrozenBehind DEF IInv, TypeOK, Stream
    <2>3. \A w \in Writers : head[w] \in 0..tail /\ slice[w] \in 0..tail
      BY <1>2 DEF IInv, TypeOK, Slices
    <2>4. FrozenByAll' = FrozenByAll /\ \A k : Frozen(k)' = Frozen(k)
      BY DEF FrozenByAll, Frozen
    <2>5. tickets \in Seq(Ticket) /\ UNCHANGED <<tickets, head, slice, dropped>>
      BY DEF IInv, TypeOK
    <2>6. ASSUME NEW w \in Writers, pc'[w] = "ticket", NEW n \in (1..tail') \ dropped'
          PROVE  n \in FrozenByAll' <=> n <= slice'[w]
      <3>1. pc[w] = "ticket" /\ w # a
        BY <1>1, <2>6 DEF Moves
      <3>2. n = tail + 1 \/ n \in (1..tail) \ dropped
        BY <1>2, <2>5
      <3>3. slice[w] \in 0..tail /\ slice'[w] = slice[w]
        BY <2>3, <2>5
      <3>4. CASE n = tail + 1
        BY <1>2, <2>2, <2>4, <3>3, <3>4
      <3>5. CASE n \in (1..tail) \ dropped
        BY <2>4, <3>1, <3>3, <3>5 DEF IInv, Ticketed
      <3> QED BY <3>2, <3>4, <3>5
    <2>7. ASSUME NEW k \in 1..Len(tickets'), tickets'[k].writer \in Writers
          PROVE  /\ pc'[tickets'[k].writer] = "flushed"
                 /\ \A n \in (1..tail') \ dropped' : n \in Frozen(k)' <=> n <= head'[tickets'[k].writer]
      BY <1>1, <1>2, <2>1, <2>3, <2>4, <2>5, <2>7 DEF IInv, Ticketed, Moves
    <2> QED BY <2>6, <2>7 DEF Ticketed
  <1>13. Drained'
    BY <1>1 DEF IInv, Roles, Locked, Phases, Drained, Moves, Adding, Flushing, Ending
  <1> QED BY <1>3, <1>4, <1>5, <1>6, <1>8, <1>9, <1>10, <1>11, <1>12, <1>13 DEF IInv

\* tryApplyGlobalSlice finds globalBufferLock taken.
LEMMA SkipGlobalSliceInv == ASSUME IInv, NEW a \in Adders, SkipGlobalSlice(a) PROVE IInv'
  <1> DEFINE to == IF a \in Writers THEN "private" ELSE "idle"
  <1> USE DEF SkipGlobalSlice, seqVars, globalVars, ticketVars, writerVars
  <1>1. Moves(a, "try", to)
    BY GotoMoves DEF IInv
  <1>2. TypeOK'
    <2>1. pc' \in [Actors -> States]
      BY GotoType DEF IInv, States
    <2> QED BY <2>1 DEF IInv, TypeOK
  <1>3. Roles' /\ Phases'
    BY <1>1 DEF IInv, Roles, Locked, Phases, Moves, Adding, Updating, Flushing, Ending
  <1>4. Locked'
    BY <1>1 DEF IInv, Locked, Moves, Adding
  <1>5. Supply' /\ Order' /\ Slices' /\ Private' /\ Stream' /\ Ticketed' /\ Drained'
    BY <1>1, MoveFrame DEF data, Updating, Adding
  <1> QED BY <1>2, <1>3, <1>4, <1>5 DEF IInv

\* A deleter takes dw.lock: the queue is not advanced.
LEMMA ApplyDeleteOrUpdateInv == ASSUME IInv, NEW a \in Adders, ApplyDeleteOrUpdate(a) PROVE IInv'
  <1> USE DEF ApplyDeleteOrUpdate, seqVars, globalVars, ticketVars, writerVars
  <1>1. Moves(a, "idle", "add")
    BY GotoMoves DEF IInv
  <1>2. TypeOK'
    <2>1. pc' \in [Actors -> States]
      BY GotoType DEF IInv, States
    <2> QED BY <2>1 DEF IInv, TypeOK
  <1>3. Roles' /\ Phases'
    BY <1>1 DEF IInv, Roles, Phases, Moves, Adding, Updating, Flushing, Ending
  <1>4. Locked'
    BY <1>1 DEF IInv, Locked, Moves, Adding
  <1>5. Supply' /\ Order' /\ Slices' /\ Private' /\ Stream' /\ Ticketed' /\ Drained'
    BY <1>1, MoveFrame DEF data, Updating, Adding
  <1> QED BY <1>2, <1>3, <1>4, <1>5 DEF IInv

\* applyAllDeletes decides to freeze the global buffer.
LEMMA ApplyAllDeletesInv == ASSUME IInv, NEW a \in Adders, ApplyAllDeletes(a) PROVE IInv'
  <1> USE DEF ApplyAllDeletes, seqVars, globalVars, ticketVars, writerVars
  <1>1. Moves(a, "idle", "naked")
    BY GotoMoves DEF IInv
  <1>2. TypeOK'
    <2>1. pc' \in [Actors -> States]
      BY GotoType DEF IInv, States
    <2> QED BY <2>1 DEF IInv, TypeOK
  <1>3. Roles' /\ Phases'
    BY <1>1 DEF IInv, Roles, Phases, Moves, Adding, Updating, Flushing, Ending
  <1>4. Locked'
    BY <1>1 DEF IInv, Locked, Moves, Adding
  <1>5. Supply' /\ Order' /\ Slices' /\ Private' /\ Stream' /\ Ticketed' /\ Drained'
    BY <1>1, MoveFrame DEF data, Updating, Adding
  <1> QED BY <1>2, <1>3, <1>4, <1>5 DEF IInv

\* A DWPT is obtained for a document: the queue is not advanced.
LEMMA ObtainAndLockInv == ASSUME IInv, NEW a \in Adders, ObtainAndLock(a) PROVE IInv'
  <1> USE DEF ObtainAndLock, seqVars, globalVars, ticketVars, writerVars
  <1>1. Moves(a, "free", "index")
    BY GotoMoves DEF IInv
  <1>2. TypeOK'
    <2>1. pc' \in [Actors -> States]
      BY GotoType DEF IInv, States
    <2> QED BY <2>1, ZenonT(60) DEF IInv, TypeOK
  <1>3. Roles' /\ Phases'
    BY <1>1 DEF IInv, Roles, Phases, Moves, Adding, Updating, Flushing, Ending
  <1>4. Locked'
    BY <1>1 DEF IInv, Locked, Moves, Adding
  <1>5. Supply' /\ Order' /\ Slices' /\ Private' /\ Stream' /\ Ticketed' /\ Drained'
    BY <1>1, MoveFrame DEF data, Updating, Adding
  <1> QED BY <1>2, <1>3, <1>4, <1>5 DEF IInv

\* A document with a delete node is about to add the node.
LEMMA AddWithSliceInv == ASSUME IInv, NEW a \in Adders, AddWithSlice(a) PROVE IInv'
  <1> USE DEF AddWithSlice, seqVars, globalVars, ticketVars, writerVars
  <1>1. Moves(a, "index", "add")
    BY GotoMoves DEF IInv
  <1>2. TypeOK'
    <2>1. pc' \in [Actors -> States]
      BY GotoType DEF IInv, States
    <2> QED BY <2>1, ZenonT(60) DEF IInv, TypeOK
  <1>3. Roles' /\ Phases'
    BY <1>1 DEF IInv, Roles, Phases, Moves, Adding, Updating, Flushing, Ending
  <1>4. Locked'
    BY <1>1 DEF IInv, Locked, Moves, Adding
  <1>5. Supply' /\ Order' /\ Slices' /\ Private' /\ Stream' /\ Ticketed' /\ Drained'
    BY <1>1, MoveFrame DEF data, Updating, Adding
  <1> QED BY <1>2, <1>3, <1>4, <1>5 DEF IInv

\* A DWPT's flush takes the ticket queue's mutex.
LEMMA AddTicketInv == ASSUME IInv, NEW a \in Writers, AddTicket(a) PROVE IInv'
  <1> USE DEF AddTicket, seqVars, globalVars, ticketVars, writerVars
  <1>1. Moves(a, "checkedOut", "prepare")
    BY GotoMoves DEF IInv
  <1>2. TypeOK'
    <2>1. pc' \in [Actors -> States]
      BY GotoType DEF IInv, States
    <2> QED BY <2>1 DEF IInv, TypeOK
  <1>3. Roles' /\ Phases'
    BY <1>1 DEF IInv, Roles, Phases, Moves, Adding, Updating, Flushing, Ending
  <1>4. Locked'
    BY <1>1 DEF IInv, Locked, Moves, Adding
  <1>5. Supply' /\ Order' /\ Slices' /\ Private' /\ Stream' /\ Ticketed' /\ Drained'
    BY <1>1, MoveFrame DEF data, Updating, Adding
  <1> QED BY <1>2, <1>3, <1>4, <1>5 DEF IInv

\* The global slice is cut at the tail by a goroutine that takes globalBufferLock.
LEMMA CutFrame ==
    ASSUME IInv, NEW a \in Actors, NEW from, NEW to, Moves(a, from, to), CutGlobalSlice(a),
           UNCHANGED <<tail, seqOf, loc, head, upto, docs, gHead, gBuf, dropped, tickets, packet>>,
           UNCHANGED <<advanced, closed, nextSeqNo, maxSeqNo, flushed>>,
           a = Flusher => from = "naked",
           \/ <<from, to>> \in {<<"try", "apply">>, <<"idle", "size">>, <<"naked", "nakedFreeze">>}
              /\ UNCHANGED slice
           \/ from = "prepare" /\ to = "freeze" /\ a \in Writers /\ slice' = [slice EXCEPT ![a] = tail]
    PROVE  Supply' /\ Order' /\ Slices' /\ Private' /\ Stream' /\ Ticketed' /\ Drained'
  <1> USE DEF CutGlobalSlice
  <1>1. nextSeqNo \in Nat /\ nextSeqNo' = nextSeqNo /\ tail \in 0..MaxNodes
    BY DEF IInv, TypeOK
  <1>2. from \in {"try", "idle", "naked", "prepare"} /\ to \in {"apply", "size", "nakedFreeze", "freeze"}
    OBVIOUS
  <1>3. Supply'
    BY <1>2, SupplyFrame DEF IInv, Moves, Adding
  <1>4. Order'
    BY <1>1, <1>2, OrderFrame DEF IInv, Moves
  <1>5. slice \in [Writers -> 0..MaxNodes] /\ head \in [Writers -> 0..MaxNodes]
    BY DEF IInv, TypeOK
  <1>6. \A w \in Writers : slice'[w] = IF w = a /\ from = "prepare" THEN tail ELSE slice[w]
    BY <1>5
  <1>7. \A b \in Actors : pc[b] \notin {"apply", "size", "freeze", "nakedFreeze"}
    BY DEF IInv, Locked
  <1>8. Slices'
    <2> SUFFICES ASSUME NEW w \in Writers PROVE
           /\ head'[w] <= tail' /\ slice'[w] <= tail'
           /\ pc'[w] \in {"number"} \cup Updating => head'[w] < loc'[w] /\ loc'[w] <= tail'
           /\ pc'[w] \in Updating => seqOf'[loc'[w]] > 0
           /\ pc'[w] \in Updating \ {"sliceTail"} => slice'[w] = loc'[w]
           /\ pc'[w] \in {"freeze", "ticket"} => head'[w] <= slice'[w]
           /\ pc'[w] = "freeze" => slice'[w] = gTail'
      BY DEF Slices
    <2>1. CASE w = a
      BY <1>1, <1>2, <1>5, <1>6, <2>1 DEF IInv, Slices, Moves, Updating
    <2>2. CASE w # a
      BY <1>1, <1>5, <1>6, <1>7, <2>2 DEF IInv, Slices, Moves, Updating
    <2> QED BY <2>1, <2>2
  <1>9. Private'
    BY <1>1, <1>2, PrivateFrame DEF IInv, Moves
  <1>10. FrozenByAll' = FrozenByAll /\ \A k : Frozen(k)' = Frozen(k)
    BY DEF FrozenByAll, Frozen
  <1>11. Stream'
    <2>1. GlobalExactlyOnce'
      BY <1>10 DEF IInv, Stream, GlobalExactlyOnce
    <2>2. gHead = gTail
      BY DEF IInv, Stream
    <2> QED BY <1>1, <1>2, <2>1, <2>2 DEF IInv, Stream, Moves
  <1>12. Ticketed'
    BY <1>2, <1>6, <1>10 DEF IInv, Ticketed, Moves
  <1>13. Drained'
    <2>1. NoChanges => NoChanges'
      BY DEF NoChanges
    <2>2. \A w \in Writers : pc[w] \in {"checkedOut", "prepare"} =>
             pc'[w] \in {"checkedOut", "prepare"} \/ (pc'[w] = "freeze" /\ gTail' = tail')
      BY <1>2 DEF Moves
    <2>3. pc'[Flusher] = pc[Flusher] \/ (pc[Flusher] = "naked" /\ pc'[Flusher] = "nakedFreeze")
      BY DEF Moves, IInv, Roles, Ending
    <2> QED BY <1>7, <2>1, <2>2, <2>3 DEF IInv, Drained
  <1> QED BY <1>3, <1>4, <1>8, <1>9, <1>11, <1>12, <1>13

\* tryApplyGlobalSlice got globalBufferLock: nobody does so on a closed queue.
LEMMA TryApplyGlobalSliceInv == ASSUME IInv, NEW a \in Adders, TryApplyGlobalSlice(a) PROVE IInv'
  <1> USE DEF TryApplyGlobalSlice, seqVars, globalVars, ticketVars, writerVars
  <1>1. ~closed
    BY DEF IInv, Phases, Roles, Locked, TypeOK, Ending, Adding
  <1>2. Moves(a, "try", "apply") /\ CutGlobalSlice(a)
    BY <1>1, GotoMoves DEF IInv
  <1>3. TypeOK'
    <2>1. pc' \in [Actors -> States]
      BY <1>1, GotoType DEF IInv, States
    <2> QED BY <1>1, <2>1 DEF IInv, TypeOK, CutGlobalSlice
  <1>4. Roles' /\ Phases'
    BY <1>1, <1>2 DEF IInv, Roles, Phases, Moves, Adding, Updating, Flushing, Ending
  <1>5. Locked'
    BY <1>1, <1>2 DEF IInv, Locked, Moves, Adding, CutGlobalSlice
  <1>6. Supply' /\ Order' /\ Slices' /\ Private' /\ Stream' /\ Ticketed' /\ Drained'
    BY <1>1, <1>2, CutFrame
  <1> QED BY <1>3, <1>4, <1>5, <1>6 DEF IInv

\* GetBufferedUpdatesTermsSize takes globalBufferLock.
LEMMA GetBufferedUpdatesTermsSizeInv ==
    ASSUME IInv, NEW a \in Adders, GetBufferedUpdatesTermsSize(a) PROVE IInv'
  <1> USE DEF GetBufferedUpdatesTermsSize, seqVars, globalVars, ticketVars, writerVars
  <1>1. Moves(a, "idle", "size") /\ CutGlobalSlice(a)
    BY GotoMoves DEF IInv
  <1>2. TypeOK'
    <2>1. pc' \in [Actors -> States]
      BY GotoType DEF IInv, States
    <2> QED BY <2>1 DEF IInv, TypeOK, CutGlobalSlice
  <1>3. Roles' /\ Phases'
    BY <1>1 DEF IInv, Roles, Phases, Moves, Adding, Updating, Flushing, Ending
  <1>4. Locked'
    BY <1>1 DEF IInv, Locked, Moves, Adding, CutGlobalSlice
  <1>5. Supply' /\ Order' /\ Slices' /\ Private' /\ Stream' /\ Ticketed' /\ Drained'
    BY <1>1, CutFrame
  <1> QED BY <1>2, <1>3, <1>4, <1>5 DEF IInv

\* PrepareFlush cuts the global slice and the DWPT's slice at one tail.
LEMMA FreezeGlobalBufferInv == ASSUME IInv, NEW a \in Writers, FreezeGlobalBuffer(a) PROVE IInv'
  <1> USE DEF FreezeGlobalBuffer, seqVars, globalVars, ticketVars, writerVars
  <1>1. ~closed
    BY DEF IInv, Phases, Roles, Locked, TypeOK, Ending, Adding
  <1>2. Moves(a, "prepare", "freeze") /\ CutGlobalSlice(a)
    BY <1>1, GotoMoves DEF IInv
  <1>3. TypeOK'
    <2>1. pc' \in [Actors -> States]
      BY <1>1, GotoType DEF IInv, States
    <2>2. slice \in [Writers -> 0..MaxNodes] /\ tail \in 0..MaxNodes
      BY DEF IInv, TypeOK
    <2>3. slice' \in [Writers -> 0..MaxNodes]
      BY <1>1, <2>2
    <2> QED BY <1>1, <2>1, <2>3 DEF IInv, TypeOK, CutGlobalSlice
  <1>4. Roles' /\ Phases'
    BY <1>1, <1>2 DEF IInv, Roles, Phases, Moves, Adding, Updating, Flushing, Ending
  <1>5. Locked'
    BY <1>1, <1>2 DEF IInv, Locked, Moves, Adding, CutGlobalSlice
  <1>6. Supply' /\ Order' /\ Slices' /\ Private' /\ Stream' /\ Ticketed' /\ Drained'
    BY <1>1, <1>2, CutFrame
  <1> QED BY <1>3, <1>4, <1>5, <1>6 DEF IInv

\* In the last phase of a full flush nobody is adding a node.
LEMMA NobodyAdds ==
    ASSUME IInv, pc[Flusher] \in {"drain"} \cup Ending
    PROVE  advanced /\ \A a \in Adders : pc[a] \notin Adding
  BY DEF IInv, Phases, Locked, Roles, Adding, Ending, Flushing

\* maybeFreezeGlobalBuffer: a queue that was closed in between has no changes.
LEMMA MaybeFreezeGlobalBufferInv ==
    ASSUME IInv, NEW a \in Actors, MaybeFreezeGlobalBuffer(a) PROVE IInv'
  <1> USE DEF MaybeFreezeGlobalBuffer, seqVars, globalVars, ticketVars, writerVars
  <1>1. CASE closed
    <2>1. pc[Flusher] = "done" /\ a \in Adders
      BY <1>1 DEF IInv, Phases
    <2>2. ~AnyChangesLocked
      BY <2>1, NobodyAdds DEF IInv, Drained, NoChanges, AnyChangesLocked, Ending, Adding
    <2>3. Moves(a, "naked", "idle")
      BY <1>1, <2>2, GotoMoves DEF IInv
    <2>4. TypeOK'
      <3>1. pc' \in [Actors -> States]
        BY <1>1, <2>2, GotoType DEF IInv, States
      <3> QED BY <1>1, <2>2, <3>1 DEF IInv, TypeOK
    <2>5. Roles' /\ Phases'
      BY <1>1, <2>1, <2>2, <2>3
      DEF IInv, Roles, Phases, Moves, Adding, Updating, Flushing, Ending
    <2>6. Locked'
      BY <1>1, <2>2, <2>3 DEF IInv, Locked, Moves, Adding
    <2>7. Supply' /\ Order' /\ Slices' /\ Private' /\ Stream' /\ Ticketed' /\ Drained'
      BY <1>1, <2>1, <2>2, <2>3, MoveFrame DEF data, Updating, Adding, IInv, Roles, Flushing
    <2> QED BY <2>4, <2>5, <2>6, <2>7 DEF IInv
  <1>2. CASE ~closed
    <2>1. Moves(a, "naked", "nakedFreeze") /\ CutGlobalSlice(a)
      BY <1>2, GotoMoves DEF IInv
    <2>2. TypeOK'
      <3>1. pc' \in [Actors -> States]
        BY <1>2, GotoType DEF IInv, States
      <3> QED BY <1>2, <3>1 DEF IInv, TypeOK, CutGlobalSlice
    <2>3. Roles' /\ Phases'
      BY <1>2, <2>1 DEF IInv, Roles, Phases, Moves, Adding, Updating, Flushing, Ending
    <2>4. Locked'
      BY <1>2, <2>1 DEF IInv, Locked, Moves, Adding, CutGlobalSlice
    <2>5. Supply' /\ Order' /\ Slices' /\ Private' /\ Stream' /\ Ticketed' /\ Drained'
      BY <1>2, <2>1, CutFrame
    <2> QED BY <2>2, <2>3, <2>4, <2>5 DEF IInv
  <1> QED BY <1>1, <1>2

\* globalSlice.apply: the slice moves into the global buffer.
LEMMA ApplyGlobalSliceInv == ASSUME IInv, NEW a \in Adders, ApplyGlobalSlice(a) PROVE IInv'
  <1> DEFINE to == IF a \in Writers THEN "private" ELSE "idle"
  <1> USE DEF ApplyGlobalSlice, seqVars, globalVars, ticketVars, writerVars
  <1>1. Moves(a, pc[a], to) /\ pc[a] \in {"apply", "size"} /\ (a \in Writers => pc[a] = "apply")
    BY GotoMoves DEF IInv, Roles, Adding, Updating, Flushing
  <1>2. gHead \in 0..MaxNodes /\ gTail \in 0..MaxNodes /\ tail \in 0..MaxNodes /\ gBuf \in SUBSET Nodes
    BY DEF IInv, TypeOK
  <1>3. nextSeqNo \in Nat /\ nextSeqNo' = nextSeqNo
    BY DEF IInv, TypeOK
  <1>4. gHead <= gTail /\ gTail <= tail
    BY DEF IInv, Stream
  <1>5. TypeOK'
    <2>1. pc' \in [Actors -> States]
      BY GotoType DEF IInv, States
    <2>2. gBuf' \in SUBSET Nodes /\ gHead' \in 0..MaxNodes
      BY <1>2 DEF Applied
    <2>3. dwLock' \in Deleters \cup {Flusher, None}
      BY DEF IInv, TypeOK
    <2> QED BY <2>1, <2>2, <2>3 DEF IInv, TypeOK
  <1>6. Roles' /\ Phases'
    BY <1>1 DEF IInv, Roles, Locked, Phases, Moves, Adding, Updating, Flushing, Ending
  <1>7. Locked'
    BY <1>1 DEF IInv, Locked, Moves, Adding
  <1>8. Supply' /\ Order'
    BY <1>1, <1>3, SupplyFrame, OrderFrame DEF IInv, Moves, Adding
  <1>9. Slices' /\ Private'
    BY <1>1, <1>3, SlicesFrame, PrivateFrame DEF IInv, Moves, Updating
  <1>10. Stream'
    <2>1. FrozenByAll' = FrozenByAll /\ \A k : Frozen(k)' = Frozen(k)
      BY DEF FrozenByAll, Frozen
    <2>2. gBuf' \cap (FrozenByAll \cup dropped) = {}
      BY <1>2 DEF IInv, Stream, GlobalExactlyOnce, Applied
    <2>3. 1..gTail = gBuf' \cup FrozenByAll \cup dropped
      <3>1. 1..gHead = gBuf \cup FrozenByAll \cup dropped
        BY DEF IInv, Stream, GlobalExactlyOnce
      <3>2. gBuf' = gBuf \cup (gHead + 1)..gTail
        BY DEF Applied
      <3> QED BY <1>2, <1>4, <3>1, <3>2
    <2>4. GlobalExactlyOnce'
      BY <2>1, <2>2, <2>3 DEF IInv, Stream, GlobalExactlyOnce
    <2> QED BY <1>1, <1>2, <1>4, <2>4 DEF IInv, Stream, Moves
  <1>11. Ticketed'
    BY <1>1, TicketedFrame DEF IInv, Moves
  <1>12. Drained'
    <2>1. NoChanges => NoChanges'
      BY <1>2 DEF NoChanges, Applied
    <2>2. \A w \in Writers : pc[w] \in {"checkedOut", "prepare", "freeze"} => pc'[w] = pc[w]
      BY <1>1 DEF Moves
    <2> QED BY <1>1, <2>1, <2>2 DEF IInv, Drained, Moves
  <1> QED BY <1>5, <1>6, <1>7, <1>8, <1>9, <1>10, <1>11, <1>12 DEF IInv

\* The slice of a DWPT ends at its own node, which is ahead of the slice's head.
LEMMA SetSliceTailInv == ASSUME IInv, NEW a \in Writers, SetSliceTail(a) PROVE IInv'
  <1> USE DEF SetSliceTail, seqVars, globalVars, ticketVars, writerVars
  <1>1. /\ head[a] < loc[a] /\ loc[a] <= tail /\ seqOf[loc[a]] > 0
        /\ head[a] \in 0..MaxNodes /\ loc[a] \in 0..MaxNodes
    BY DEF IInv, TypeOK, Slices, Updating
  <1>2. /\ Goto(a, "try") /\ pc[a] = "sliceTail" /\ slice' = [slice EXCEPT ![a] = loc[a]]
        /\ UNCHANGED <<seqVars, globalVars, ticketVars, head, upto, docs, dwLock, loc>>
    BY <1>1
  <1> HIDE DEF SetSliceTail
  <1>3. Moves(a, "sliceTail", "try")
    BY <1>2, GotoMoves DEF IInv
  <1>3a. slice \in [Writers -> 0..MaxNodes]
    BY DEF IInv, TypeOK
  <1>4. slice'[a] = loc[a] /\ \A w \in Writers \ {a} : slice'[w] = slice[w]
    BY <1>2, <1>3a
  <1>5. nextSeqNo \in Nat /\ nextSeqNo' = nextSeqNo
    BY <1>2 DEF IInv, TypeOK
  <1>6. TypeOK'
    <2>1. pc' \in [Actors -> States]
      BY <1>2, GotoType DEF IInv, States
    <2>2. slice' \in [Writers -> 0..MaxNodes]
      BY <1>1, <1>2, <1>3a
    <2> QED BY <1>2, <2>1, <2>2, ZenonT(60) DEF IInv, TypeOK
  <1>7. Roles' /\ Phases'
    BY <1>2, <1>3 DEF IInv, Roles, Phases, Moves, Adding, Updating, Flushing, Ending
  <1>8. Locked'
    BY <1>2, <1>3 DEF IInv, Locked, Moves, Adding
  <1>9. Supply' /\ Order'
    BY <1>2, <1>3, <1>5, SupplyFrame, OrderFrame DEF IInv, Moves, Adding
  <1>10. Slices'
    BY <1>1, <1>2, <1>3, <1>4 DEF IInv, Slices, Moves, Updating
  <1>11. Private'
    BY <1>2, <1>3, <1>5, PrivateFrame DEF IInv, Moves
  <1>12. Stream' /\ Drained'
    BY <1>2, <1>3, StreamFrame, DrainedFrame DEF IInv, Moves
  <1>13. Ticketed'
    <2>1. FrozenByAll' = FrozenByAll /\ \A k : Frozen(k)' = Frozen(k)
      BY <1>2 DEF FrozenByAll, Frozen
    <2> QED BY <1>1, <1>2, <1>3, <1>4, <2>1 DEF IInv, Ticketed, Moves
  <1> QED BY <1>6, <1>7, <1>8, <1>9, <1>10, <1>11, <1>12, <1>13 DEF IInv

\* Only the holder of the ticket queue's mutex has frozen deletes.
LEMMA OnePacket ==
    ASSUME IInv, NEW a \in Actors, qMu = a
    PROVE  /\ \A b \in Actors \ {a} : packet[b] = {}
           /\ FrozenByAll = Frozen(Len(tickets)) \cup packet[a]
  <1>1. \A b \in Actors \ {a} : packet[b] = {}
    BY DEF IInv, Stream, Locked
  <1> QED BY <1>1 DEF FrozenByAll

\* A ticket at the end of the queue.
LEMMA AppendTicket ==
    ASSUME tickets \in Seq(Ticket), NEW t \in Ticket, tickets' = Append(tickets, t)
    PROVE  /\ tickets' \in Seq(Ticket) /\ Len(tickets') = Len(tickets) + 1 /\ Len(tickets) \in Nat
           /\ tickets'[Len(tickets) + 1] = t
           /\ \A k \in 1..Len(tickets) : tickets'[k] = tickets[k] /\ Frozen(k)' = Frozen(k)
           /\ Frozen(Len(tickets))' = Frozen(Len(tickets)) \cup t.deletes
  <1>1. /\ tickets' \in Seq(Ticket) /\ Len(tickets') = Len(tickets) + 1 /\ Len(tickets) \in Nat
        /\ tickets'[Len(tickets) + 1] = t
        /\ \A k \in 1..Len(tickets) : tickets'[k] = tickets[k]
    OBVIOUS
  <1>2. ASSUME NEW k \in 1..Len(tickets) PROVE Frozen(k)' = Frozen(k)
    <2>1. \A j \in 1..k : tickets'[j] = tickets[j]
      BY <1>1
    <2> QED BY <2>1 DEF Frozen
  <1>3. Frozen(Len(tickets))' = Frozen(Len(tickets)) \cup t.deletes
    <2>1. ASSUME NEW n PROVE n \in Frozen(Len(tickets))' <=> n \in Frozen(Len(tickets)) \cup t.deletes
      <3>1. n \in Frozen(Len(tickets))' <=> \E j \in 1..(Len(tickets) + 1) : n \in tickets'[j].deletes
        BY <1>1 DEF Frozen
      <3>2. n \in Frozen(Len(tickets)) <=> \E j \in 1..Len(tickets) : n \in tickets[j].deletes
        BY DEF Frozen
      <3> QED BY <1>1, <3>1, <3>2
    <2> QED BY <2>1
  <1> QED BY <1>1, <1>2, <1>3

\* freezeGlobalBufferInternal: the global buffer and the slice move into a packet.
LEMMA FreezeGlobalBufferInternalInv ==
    ASSUME IInv, NEW a \in Actors, FreezeGlobalBufferInternal(a) PROVE IInv'
  <1> DEFINE to == IF pc[a] = "freeze" THEN "ticket" ELSE "nakedTicket"
  <1> USE DEF FreezeGlobalBufferInternal, seqVars, globalVars, ticketVars, writerVars
  <1>1. Moves(a, pc[a], to) /\ pc[a] \in {"freeze", "nakedFreeze"} /\ (a \in Writers <=> pc[a] = "freeze")
    BY GotoMoves DEF IInv, Roles, Adding, Updating, Flushing, Ending
  <1>2. gHead \in 0..MaxNodes /\ gTail \in 0..MaxNodes /\ tail \in 0..MaxNodes /\ gBuf \in SUBSET Nodes
    BY DEF IInv, TypeOK
  <1>3. nextSeqNo \in Nat /\ nextSeqNo' = nextSeqNo
    BY DEF IInv, TypeOK
  <1>4. gHead <= gTail /\ gTail <= tail
    BY DEF IInv, Stream
  <1>5. Applied \in SUBSET Nodes
    BY <1>2 DEF Applied
  <1>6. packet \in [Actors -> SUBSET Nodes]
    BY DEF IInv, TypeOK
  <1>7. packet'[a] = Applied /\ \A b \in Actors \ {a} : packet'[b] = packet[b]
    BY <1>6
  <1>8. TypeOK'
    <2>1. pc' \in [Actors -> States]
      BY GotoType DEF IInv, States
    <2>2. packet' \in [Actors -> SUBSET Nodes]
      BY <1>5, <1>6
    <2> QED BY <1>2, <2>1, <2>2 DEF IInv, TypeOK
  <1>9. Roles' /\ Phases'
    BY <1>1 DEF IInv, Roles, Locked, Phases, Moves, Adding, Updating, Flushing, Ending
  <1>10. Locked'
    BY <1>1 DEF IInv, Locked, Moves, Adding
  <1>11. Supply' /\ Order'
    BY <1>1, <1>3, SupplyFrame, OrderFrame DEF IInv, Moves, Adding
  <1>12. Slices' /\ Private'
    BY <1>1, <1>3, SlicesFrame, PrivateFrame DEF IInv, Moves, Updating
  <1>13. qMu = a /\ packet[a] = {}
    BY <1>1 DEF IInv, Locked, Stream
  <1>14. \A k : Frozen(k)' = Frozen(k)
    BY DEF Frozen
  <1>15. (\A b \in Actors \ {a} : packet[b] = {}) /\ FrozenByAll = Frozen(Len(tickets))
    BY <1>13, OnePacket, ZenonT(60)
  <1>16. FrozenByAll' = FrozenByAll \cup Applied
    <2>1. UNION {packet'[b] : b \in Actors} = Applied
      BY <1>7, <1>15
    <2> QED BY <1>14, <1>15, <2>1 DEF FrozenByAll
  <1>17. 1..gHead = gBuf \cup FrozenByAll \cup dropped
    BY DEF IInv, Stream, GlobalExactlyOnce
  <1>18. Stream'
    <2>1. 1..gTail = FrozenByAll' \cup dropped
      BY <1>2, <1>4, <1>16, <1>17 DEF Applied
    <2>2. Applied \cap (FrozenByAll \cup dropped) = {}
      BY <1>2, <1>17 DEF Applied, IInv, Stream, GlobalExactlyOnce
    <2>3. \A b \in Actors : packet'[b] \cap Frozen(Len(tickets)) = {}
      BY <1>7, <1>15, <2>2
    <2>4. GlobalExactlyOnce'
      BY <1>14, <1>15, <1>16, <2>1, <2>2, <2>3 DEF IInv, Stream, GlobalExactlyOnce
    <2> QED BY <1>1, <1>2, <1>4, <1>7, <1>15, <2>4 DEF IInv, Stream, Moves
  <1>19. Ticketed'
    <2>1. ASSUME NEW w \in Writers, pc'[w] = "ticket", NEW n \in (1..tail) \ dropped
          PROVE  n \in FrozenByAll' <=> n <= slice[w]
      <3>1. w = a
        BY <1>1, <1>13, <2>1 DEF IInv, Locked, Moves
      <3>2. slice[w] = gTail
        BY <1>1, <3>1 DEF IInv, Slices
      <3>3. n \in 1..gTail <=> n \in FrozenByAll'
        BY <1>2, <1>4, <1>16, <1>17 DEF Applied
      <3> QED BY <1>2, <3>2, <3>3
    <2> QED BY <1>1, <1>14, <2>1 DEF IInv, Ticketed, Moves
  <1>20. Drained'
    <2>1. NoChanges => NoChanges'
      BY <1>2 DEF NoChanges, Applied
    <2>2. \A w \in Writers : pc[w] \in {"checkedOut", "prepare"} => pc'[w] = pc[w]
      BY <1>1 DEF Moves
    <2>3. \A w \in Writers : pc[w] = "freeze" => w = a
      BY <1>1 DEF IInv, Locked
    <2>4. gTail = tail => NoChanges'
      BY DEF NoChanges
    <2>5. pc'[Flusher] = pc[Flusher] \/ (pc[Flusher] = "nakedFreeze" /\ pc'[Flusher] = "nakedTicket")
      BY <1>1 DEF Moves
    <2> QED BY <2>1, <2>2, <2>3, <2>4, <2>5 DEF IInv, Drained
  <1> QED BY <1>8, <1>9, <1>10, <1>11, <1>12, <1>18, <1>19, <1>20 DEF IInv

\* A DWPT is checked out: in a full flush it is going to freeze what is left.
LEMMA CheckoutInv == ASSUME IInv, NEW a \in Writers, Checkout(a) PROVE IInv'
  <1> USE DEF Checkout, seqVars, globalVars, ticketVars, writerVars
  <1>1. Moves(a, "free", "checkedOut")
    BY GotoMoves DEF IInv
  <1>2. TypeOK'
    <2>1. pc' \in [Actors -> States]
      BY GotoType DEF IInv, States
    <2>2. flushed \in BOOLEAN
      BY DEF IInv, TypeOK
    <2>3. flushed' \in BOOLEAN
      BY <2>2, Zenon
    <2> QED BY <2>1, <2>3, ZenonT(60) DEF IInv, TypeOK
  <1>3. Roles' /\ Phases'
    <2>1. flushed' => flushed \/ pc[Flusher] = "drain"
      BY Zenon
    <2>2. UNCHANGED <<advanced, closed, dwLock>> /\ pc'[Flusher] = pc[Flusher]
      BY <1>1 DEF Moves
    <2>3. Roles'
      BY <1>1 DEF IInv, Roles, Moves, Adding, Updating, Flushing, Ending
    <2> HIDE DEF Checkout
    <2> QED BY <1>1, <2>1, <2>2, <2>3 DEF IInv, Phases, Moves, Flushing
  <1>4. Locked'
    BY <1>1 DEF IInv, Locked, Moves, Adding
  <1>5. nextSeqNo \in Nat /\ nextSeqNo' = nextSeqNo
    BY DEF IInv, TypeOK
  <1>6. Supply' /\ Order'
    BY <1>1, <1>5, SupplyFrame, OrderFrame DEF IInv, Moves, Adding
  <1>7. Slices' /\ Private'
    BY <1>1, <1>5, SlicesFrame, PrivateFrame DEF IInv, Moves, Updating
  <1>8. Stream' /\ Ticketed'
    BY <1>1, StreamFrame, TicketedFrame DEF IInv, Moves
  <1>9. Drained'
    BY <1>1 DEF IInv, Drained, NoChanges, Phases, Moves
  <1> QED BY <1>2, <1>3, <1>4, <1>6, <1>7, <1>8, <1>9 DEF IInv

\* DeleteSlice.apply as functions of the slice and the buffer.
LEMMA ApplySliceIs ==
    ASSUME TypeOK, NEW w \in Writers, NEW t \in 0..MaxNodes, NEW d \in Nat, ApplySlice(w, t, d)
    PROVE  /\ head' \in [Writers -> 0..MaxNodes] /\ slice' \in [Writers -> 0..MaxNodes]
           /\ upto' \in [Writers -> [Nodes -> Nat]]
           /\ head'[w] = t /\ slice'[w] = t
           /\ \A n \in Nodes : upto'[w][n] = IF n \in (head[w] + 1)..t THEN d ELSE upto[w][n]
           /\ \A v \in Writers \ {w} : head'[v] = head[v] /\ slice'[v] = slice[v] /\ upto'[v] = upto[v]
  <1>1. /\ head \in [Writers -> 0..MaxNodes] /\ slice \in [Writers -> 0..MaxNodes]
        /\ upto \in [Writers -> [Nodes -> Nat]]
    BY DEF TypeOK
  <1>2. /\ head' \in [Writers -> 0..MaxNodes] /\ slice' \in [Writers -> 0..MaxNodes]
        /\ head'[w] = t /\ slice'[w] = t
        /\ \A v \in Writers \ {w} : head'[v] = head[v] /\ slice'[v] = slice[v]
    BY <1>1 DEF ApplySlice
  <1> DEFINE new == [n \in Nodes |-> IF n \in (head[w] + 1)..t THEN d ELSE upto[w][n]]
  <1>3. new \in [Nodes -> Nat]
    BY <1>1
  <1>4. upto' = [upto EXCEPT ![w] = new]
    BY DEF ApplySlice
  <1>5. \A n \in Nodes : new[n] = IF n \in (head[w] + 1)..t THEN d ELSE upto[w][n]
    OBVIOUS
  <1> HIDE DEF new
  <1> QED BY <1>1, <1>2, <1>3, <1>4, <1>5

\* Applying a slice up to the DWPT's last document leaves its documents in order.
LEMMA ApplySliceInOrder ==
    ASSUME IInv, NEW w \in Writers, NEW t \in 0..MaxNodes, ApplySlice(w, t, Len(docs[w])),
           head[w] <= t, UNCHANGED <<tail, seqOf>>,
           NEW i \in 1..Len(docs[w]), docs'[w][i] = docs[w][i]
    PROVE  InOrder(w, i)'
  <1>1. docs[w] \in Seq(Nat) /\ tail \in 0..MaxNodes /\ head[w] \in 0..MaxNodes /\ seqOf \in [Nodes -> Nat]
    BY DEF IInv, TypeOK
  <1>2. upto[w] \in [Nodes -> Nat] /\ Len(docs[w]) \in Nat /\ docs[w][i] \in Nat
    <2>1. upto \in [Writers -> [Nodes -> Nat]]
      BY DEF IInv, TypeOK
    <2>2. upto[w] \in [Nodes -> Nat]
      BY <2>1
    <2>3. Len(docs[w]) \in Nat /\ docs[w][i] \in Nat
      BY <1>1
    <2> QED BY <2>2, <2>3
  <1>3. /\ head'[w] = t
        /\ \A n \in Nodes : upto'[w][n] = IF n \in (head[w] + 1)..t THEN Len(docs[w]) ELSE upto[w][n]
    BY <1>2, ApplySliceIs DEF IInv
  <1>4. InOrder(w, i)
    BY DEF IInv, Private
  <1> SUFFICES ASSUME docs[w][i] > 0, NEW n \in 1..tail
               PROVE  (seqOf[n] = 0 \/ seqOf[n] > docs[w][i]) <=> (i <= upto'[w][n] \/ n > t)
    BY <1>3 DEF InOrder
  <1>5. (seqOf[n] = 0 \/ seqOf[n] > docs[w][i]) <=> (i <= upto[w][n] \/ n > head[w])
    BY <1>4 DEF InOrder
  <1>6. n \in Nodes /\ n \in Nat
    BY <1>1
  <1>7. CASE n \in (head[w] + 1)..t
    <2>1. upto'[w][n] = Len(docs[w]) /\ i <= Len(docs[w])
      BY <1>2, <1>3, <1>6, <1>7
    <2>2. n > head[w]
      BY <1>1, <1>6, <1>7
    <2> QED BY <1>5, <2>1, <2>2
  <1>8. CASE n \notin (head[w] + 1)..t
    <2>1. upto'[w][n] = upto[w][n]
      BY <1>3, <1>6, <1>8
    <2>2. n > head[w] <=> n > t
      BY <1>1, <1>6, <1>8, SMTT(30)
    <2> QED BY <1>5, <2>1, <2>2
  <1> QED BY <1>7, <1>8

\* The end of PrepareFlush: the ticket holds all that the DWPT's slice has reached.
LEMMA PrepareFlushInv == ASSUME IInv, NEW a \in Writers, PrepareFlush(a) PROVE IInv'
  <1> USE DEF seqVars, globalVars, ticketVars, writerVars
  <1> DEFINE t == [writer |-> a, deletes |-> packet[a]]
  <1>1. pc[a] = "ticket"
    BY DEF PrepareFlush
  <1>2. head[a] \in 0..MaxNodes /\ slice[a] \in 0..MaxNodes /\ head[a] <= slice[a] /\ slice[a] <= tail
    BY <1>1 DEF IInv, TypeOK, Slices
  <1>3. /\ ApplySlice(a, slice[a], Len(docs[a])) /\ tickets' = Append(tickets, t)
        /\ packet' = [packet EXCEPT ![a] = {}] /\ qMu' = None /\ Goto(a, "flushed")
        /\ UNCHANGED <<seqVars, globalVars, flushed, docs, dwLock, loc>>
    BY <1>2 DEF PrepareFlush
  <1>4. Moves(a, "ticket", "flushed")
    BY <1>1, <1>3, GotoMoves DEF IInv
  <1>5. packet \in [Actors -> SUBSET Nodes] /\ docs \in [Writers -> Seq(Nat)] /\ tickets \in Seq(Ticket)
    BY DEF IInv, TypeOK
  <1>6. packet' \in [Actors -> SUBSET Nodes] /\ packet'[a] = {} /\ \A b \in Actors \ {a} : packet'[b] = packet[b]
    BY <1>3, <1>5
  <1>7. t \in Ticket
    BY <1>5 DEF Ticket
  <1>8. Len(docs[a]) \in Nat
    BY <1>5
  <1>9. /\ head' \in [Writers -> 0..MaxNodes] /\ slice' \in [Writers -> 0..MaxNodes]
        /\ upto' \in [Writers -> [Nodes -> Nat]]
        /\ head'[a] = slice[a] /\ slice'[a] = slice[a]
        /\ \A n \in Nodes : upto'[a][n] = IF n \in (head[a] + 1)..slice[a] THEN Len(docs[a]) ELSE upto[a][n]
        /\ \A v \in Writers \ {a} : head'[v] = head[v] /\ slice'[v] = slice[v] /\ upto'[v] = upto[v]
    BY <1>2, <1>3, <1>8, ApplySliceIs DEF IInv
  <1>10. /\ tickets' \in Seq(Ticket) /\ Len(tickets') = Len(tickets) + 1 /\ Len(tickets) \in Nat
         /\ tickets'[Len(tickets) + 1] = t
         /\ \A k \in 1..Len(tickets) : tickets'[k] = tickets[k] /\ Frozen(k)' = Frozen(k)
         /\ Frozen(Len(tickets))' = Frozen(Len(tickets)) \cup t.deletes
    BY <1>3, <1>5, <1>7, AppendTicket
  <1>11. t.writer = a /\ t.deletes = packet[a]
    OBVIOUS
  <1> HIDE DEF t
  <1>12. qMu = a
    BY <1>1 DEF IInv, Locked
  <1>13. (\A b \in Actors \ {a} : packet[b] = {}) /\ FrozenByAll = Frozen(Len(tickets)) \cup packet[a]
    BY <1>12, OnePacket
  <1>14. \A b \in Actors : packet'[b] = {}
    BY <1>6, <1>13
  <1>15. FrozenByAll' = FrozenByAll /\ Frozen(Len(tickets))' = FrozenByAll
    BY <1>10, <1>11, <1>13, <1>14 DEF FrozenByAll
  <1>16. TypeOK'
    <2>1. pc' \in [Actors -> States]
      BY <1>3, GotoType DEF IInv, States
    <2> QED BY <1>3, <1>6, <1>9, <1>10, <2>1 DEF IInv, TypeOK
  <1>17. Roles' /\ Phases'
    BY <1>3, <1>4 DEF IInv, Roles, Phases, Moves, Adding, Updating, Flushing, Ending
  <1>18. Locked'
    BY <1>3, <1>4, <1>12 DEF IInv, Locked, Moves, Adding
  <1>19. nextSeqNo \in Nat /\ nextSeqNo' = nextSeqNo
    BY <1>3 DEF IInv, TypeOK
  <1>20. Supply' /\ Order'
    BY <1>3, <1>4, <1>19, SupplyFrame, OrderFrame DEF IInv, Moves, Adding
  <1>21. Slices'
    BY <1>2, <1>3, <1>4, <1>9 DEF IInv, Slices, Moves, Updating
  <1>22. Private'
    <2>1. ASSUME NEW i \in 1..Len(docs[a]) PROVE InOrder(a, i)'
      BY <1>2, <1>3, ApplySliceInOrder
    <2>2. ASSUME NEW w \in Writers \ {a}, NEW i \in 1..Len(docs[w]) PROVE InOrder(w, i)'
      BY <1>3, <1>9 DEF IInv, Private, InOrder
    <2>3. ASSUME NEW n \in Nodes PROVE (upto'[a][n] > 0 => n <= slice[a]) /\ upto'[a][n] <= Len(docs[a])
      <3>1. (upto[a][n] > 0 => n <= head[a]) /\ upto[a][n] <= Len(docs[a])
        BY <1>1 DEF IInv, Private
      <3> QED BY <1>2, <1>8, <1>9, <3>1
    <2> QED BY <1>3, <1>4, <1>9, <2>1, <2>2, <2>3 DEF IInv, Private, Moves
  <1>23. Stream'
    <2>1. \A j, k \in 1..Len(tickets') : j # k => tickets'[j].deletes \cap tickets'[k].deletes = {}
      <3>1. \A j \in 1..Len(tickets) : tickets[j].deletes \cap packet[a] = {}
        BY <1>10 DEF IInv, Stream, GlobalExactlyOnce, Frozen
      <3> QED BY <1>10, <1>11, <3>1 DEF IInv, Stream, GlobalExactlyOnce
    <2>2. GlobalExactlyOnce'
      BY <1>3, <1>14, <1>15, <2>1 DEF IInv, Stream, GlobalExactlyOnce
    <2> QED BY <1>3, <1>14, <2>2 DEF IInv, Stream
  <1>24. Ticketed'
    <2>1. \A w \in Writers : pc'[w] # "ticket"
      BY <1>4, <1>12 DEF IInv, Locked, Moves
    <2>2. ASSUME NEW k \in 1..Len(tickets'), tickets'[k].writer \in Writers
          PROVE  /\ pc'[tickets'[k].writer] = "flushed"
                 /\ \A n \in (1..tail) \ dropped : n \in Frozen(k)' <=> n <= head'[tickets'[k].writer]
      <3>1. CASE k \in 1..Len(tickets)
        <4>1. tickets'[k] = tickets[k] /\ Frozen(k)' = Frozen(k)
          BY <1>10, <3>1
        <4>2. pc[tickets[k].writer] = "flushed" /\ tickets[k].writer # a
          BY <1>1, <2>2, <3>1, <4>1 DEF IInv, Ticketed
        <4>3. \A n \in (1..tail) \ dropped : n \in Frozen(k) <=> n <= head[tickets[k].writer]
          BY <2>2, <3>1, <4>1 DEF IInv, Ticketed
        <4>4. tickets[k].writer \in Writers \ {a}
          BY <2>2, <4>1, <4>2
        <4>5. pc'[tickets[k].writer] = "flushed" /\ head'[tickets[k].writer] = head[tickets[k].writer]
          BY <1>4, <1>9, <4>2, <4>4 DEF Moves
        <4> QED BY <4>1, <4>3, <4>5
      <3>2. CASE k = Len(tickets')
        <4>1. tickets'[k].writer = a /\ Frozen(k)' = FrozenByAll
          BY <1>10, <1>11, <1>15, <3>2
        <4>2. \A n \in (1..tail) \ dropped : n \in FrozenByAll <=> n <= slice[a]
          BY <1>1 DEF IInv, Ticketed
        <4> QED BY <1>4, <1>9, <4>1, <4>2 DEF Moves
      <3> QED BY <1>10, <3>1, <3>2
    <2> QED BY <1>3, <2>1, <2>2 DEF Ticketed
  <1>25. Drained'
    BY <1>3, <1>4, DrainedFrame DEF IInv, Moves
  <1> QED BY <1>16, <1>17, <1>18, <1>20, <1>21, <1>22, <1>23, <1>24, <1>25 DEF IInv

\* A naked ticket: what was frozen moves from the goroutine into the queue.
LEMMA AddNakedTicketInv == ASSUME IInv, NEW a \in Actors, AddNakedTicket(a) PROVE IInv'
  <1> USE DEF AddNakedTicket, seqVars, globalVars, ticketVars, writerVars
  <1> DEFINE t == [writer |-> None, deletes |-> packet[a]]
             to == IF a = Flusher THEN "closing" ELSE "idle"
  <1>1. Moves(a, "nakedTicket", to) /\ a \notin Writers
    BY GotoMoves DEF IInv, Roles, Adding, Updating, Flushing
  <1>2. packet \in [Actors -> SUBSET Nodes] /\ tickets \in Seq(Ticket)
    BY DEF IInv, TypeOK
  <1>3. packet' \in [Actors -> SUBSET Nodes] /\ packet'[a] = {} /\ \A b \in Actors \ {a} : packet'[b] = packet[b]
    BY <1>2
  <1>4. t \in Ticket /\ t.writer = None /\ t.deletes = packet[a]
    BY <1>2 DEF Ticket
  <1>5. qMu = a
    BY <1>1 DEF IInv, Locked, Moves
  <1>6. (\A b \in Actors \ {a} : packet[b] = {}) /\ FrozenByAll = Frozen(Len(tickets)) \cup packet[a]
    BY <1>5, OnePacket
  <1>7. \A b \in Actors : packet'[b] = {}
    BY <1>3, <1>6
  <1>8. /\ tickets' \in Seq(Ticket) /\ Len(tickets) \in Nat /\ Len(tickets') \in Nat
        /\ \A k \in 1..Len(tickets) : tickets'[k] = tickets[k] /\ Frozen(k)' = Frozen(k)
        /\ \A k \in 1..Len(tickets') : k \in 1..Len(tickets)
              \/ (tickets'[k].writer = None /\ tickets'[k].deletes = packet[a] /\ k = Len(tickets) + 1)
        /\ Frozen(Len(tickets))' = FrozenByAll
    <2>1. CASE packet[a] = {}
      <3>1. tickets' = tickets
        BY <2>1
      <3>2. \A k : Frozen(k)' = Frozen(k)
        BY <3>1 DEF Frozen
      <3>3. Len(tickets) \in Nat
        BY <1>2
      <3> QED BY <1>2, <1>6, <2>1, <3>1, <3>2, <3>3
    <2>2. CASE packet[a] # {}
      <3>1. tickets' = Append(tickets, t)
        BY <2>2
      <3> HIDE DEF t
      <3>2. /\ tickets' \in Seq(Ticket) /\ Len(tickets') = Len(tickets) + 1 /\ Len(tickets) \in Nat
            /\ tickets'[Len(tickets) + 1] = t
            /\ \A k \in 1..Len(tickets) : tickets'[k] = tickets[k] /\ Frozen(k)' = Frozen(k)
            /\ Frozen(Len(tickets))' = Frozen(Len(tickets)) \cup t.deletes
        BY <1>2, <1>4, <3>1, AppendTicket
      <3> QED BY <1>4, <1>6, <3>2
    <2> QED BY <2>1, <2>2
  <1>9. FrozenByAll' = FrozenByAll
    BY <1>7, <1>8 DEF FrozenByAll
  <1>10. TypeOK'
    <2>1. pc' \in [Actors -> States]
      BY GotoType DEF IInv, States
    <2> QED BY <1>3, <1>8, <2>1 DEF IInv, TypeOK
  <1>11. Roles' /\ Phases'
    BY <1>1 DEF IInv, Roles, Phases, Moves, Adding, Updating, Flushing, Ending
  <1>12. Locked'
    BY <1>1, <1>5 DEF IInv, Locked, Moves, Adding
  <1>13. nextSeqNo \in Nat /\ nextSeqNo' = nextSeqNo
    BY DEF IInv, TypeOK
  <1>14. Supply' /\ Order'
    BY <1>1, <1>13, SupplyFrame, OrderFrame DEF IInv, Moves, Adding
  <1>15. Slices' /\ Private'
    BY <1>1, <1>13, SlicesFrame, PrivateFrame DEF IInv, Moves, Updating
  <1>16. Stream'
    <2>1. \A j, k \in 1..Len(tickets') : j # k => tickets'[j].deletes \cap tickets'[k].deletes = {}
      <3>1. \A j \in 1..Len(tickets) : tickets[j].deletes \cap packet[a] = {}
        BY <1>8 DEF IInv, Stream, GlobalExactlyOnce, Frozen
      <3> QED BY <1>8, <3>1 DEF IInv, Stream, GlobalExactlyOnce
    <2>2. GlobalExactlyOnce'
      BY <1>7, <1>9, <2>1 DEF IInv, Stream, GlobalExactlyOnce
    <2> QED BY <1>7, <2>2 DEF IInv, Stream
  <1>17. Ticketed'
    <2>1. \A w \in Writers : pc'[w] # "ticket"
      BY <1>1, <1>5 DEF IInv, Locked, Moves
    <2>2. \A w \in Writers : pc'[w] = pc[w]
      BY <1>1 DEF Moves
    <2>3. ASSUME NEW k \in 1..Len(tickets'), tickets'[k].writer \in Writers
          PROVE  /\ pc'[tickets'[k].writer] = "flushed"
                 /\ \A n \in (1..tail) \ dropped : n \in Frozen(k)' <=> n <= head[tickets'[k].writer]
      <3>1. k \in 1..Len(tickets) /\ tickets'[k] = tickets[k] /\ Frozen(k)' = Frozen(k)
        BY <1>8, <2>3
      <3> QED BY <2>2, <2>3, <3>1 DEF IInv, Ticketed
    <2> QED BY <2>1, <2>3 DEF Ticketed
  <1>18. Drained'
    <2>1. pc'[Flusher] = pc[Flusher] \/ (pc[Flusher] = "nakedTicket" /\ pc'[Flusher] = "closing")
      BY <1>1 DEF Moves
    <2>2. \A w \in Writers : pc'[w] = pc[w]
      BY <1>1 DEF Moves
    <2> QED BY <2>1, <2>2 DEF IInv, Drained, NoChanges
  <1> QED BY <1>10, <1>11, <1>12, <1>14, <1>15, <1>16, <1>17, <1>18 DEF IInv

\* A document at the end of a DWPT's buffer.
LEMMA AppendDoc ==
    ASSUME docs \in [Writers -> Seq(Nat)], NEW w \in Writers, NEW d \in Nat,
           docs' = [docs EXCEPT ![w] = Append(@, d)]
    PROVE  /\ docs' \in [Writers -> Seq(Nat)]
           /\ Len(docs[w]) \in Nat /\ Len(docs'[w]) = Len(docs[w]) + 1
           /\ docs'[w][Len(docs[w]) + 1] = d
           /\ \A i \in 1..Len(docs[w]) : docs'[w][i] = docs[w][i]
           /\ \A v \in Writers \ {w} : docs'[v] = docs[v]
  <1>1. docs[w] \in Seq(Nat) /\ docs'[w] = Append(docs[w], d)
    OBVIOUS
  <1>2. Append(docs[w], d) \in Seq(Nat)
    BY <1>1
  <1> QED BY <1>1, <1>2

\* A DWPT that draws its number, or fails to, is one fewer to draw.
LEMMA DrawingLess ==
    ASSUME NEW w \in Writers, NEW s, Moves(w, pc[w], s),
           pc[w] \in {"index"} \cup Adding, s \notin {"index"} \cup Adding
    PROVE  /\ Cardinality(Drawing) \in Nat /\ Cardinality(Drawing') \in Nat
           /\ Cardinality(Drawing) = Cardinality(Drawing') + 1
  <1>1. Drawing' = Drawing \ {w} /\ w \in Drawing
    BY DEF Drawing, Moves
  <1>2. IsFiniteSet(Drawing)
    BY FS_Subset DEF Drawing
  <1>3. Cardinality(Drawing') = Cardinality(Drawing) - 1
    BY <1>1, <1>2, FS_RemoveElement
  <1>4. IsFiniteSet(Drawing')
    BY <1>1, <1>2, FS_RemoveElement
  <1>5. Cardinality(Drawing) \in Nat /\ Cardinality(Drawing') \in Nat
    BY <1>2, <1>4, FS_CardinalityType
  <1> QED BY <1>3, <1>5

\* A DWPT that is going to draw a number finds one, in a queue that is open.
LEMMA NumberLeft ==
    ASSUME IInv, NEW w \in Writers, pc[w] \in {"index"} \cup Adding
    PROVE  ~closed /\ ~Exhausted(nextSeqNo)
  <1>1. ~closed
    BY DEF IInv, Phases, Ending, Adding
  <1>2. IsFiniteSet(Drawing) /\ w \in Drawing
    BY FS_Subset DEF Drawing
  <1>3. Cardinality(Drawing) \in Nat /\ Cardinality(Drawing) # 0
    BY <1>2, FS_CardinalityType, FS_EmptySet
  <1>4. nextSeqNo \in Nat /\ maxSeqNo \in Nat
    BY DEF IInv, TypeOK
  <1> QED BY <1>1, <1>3, <1>4 DEF IInv, Supply, Exhausted

\* A document that failed takes no number.
LEMMA DeleteLastDocsInv == ASSUME IInv, NEW a \in Writers, DeleteLastDocs(a) PROVE IInv'
  <1> USE DEF DeleteLastDocs, seqVars, globalVars, ticketVars, writerVars
  <1>1. Moves(a, "index", "free")
    BY GotoMoves DEF IInv
  <1>2. docs \in [Writers -> Seq(Nat)] /\ nextSeqNo \in Nat \ {0} /\ maxSeqNo \in Nat
    BY DEF IInv, TypeOK
  <1>3. /\ docs' \in [Writers -> Seq(Nat)]
        /\ Len(docs[a]) \in Nat /\ Len(docs'[a]) = Len(docs[a]) + 1
        /\ docs'[a][Len(docs[a]) + 1] = 0
        /\ \A i \in 1..Len(docs[a]) : docs'[a][i] = docs[a][i]
        /\ \A v \in Writers \ {a} : docs'[v] = docs[v]
    BY <1>2, AppendDoc
  <1>4. TypeOK'
    <2>1. pc' \in [Actors -> States]
      BY GotoType DEF IInv, States
    <2> QED BY <1>3, <2>1, ZenonT(60) DEF IInv, TypeOK
  <1>5. Roles' /\ Phases'
    BY <1>1 DEF IInv, Roles, Phases, Moves, Adding, Updating, Flushing, Ending
  <1>6. Locked'
    BY <1>1 DEF IInv, Locked, Moves, Adding
  <1>7. Supply'
    BY <1>1, <1>2, DrawingLess, SMTT(30) DEF IInv, Supply, Moves, Adding
  <1>8. Order' /\ Slices'
    <2>1. nextSeqNo' \in Nat /\ nextSeqNo' >= nextSeqNo
      BY <1>2
    <2> QED BY <1>1, <2>1, OrderFrame, SlicesFrame DEF IInv, Moves, Updating
  <1>9. Private'
    <2>1. ASSUME NEW i \in 1..Len(docs'[a]) PROVE docs'[a][i] < nextSeqNo /\ InOrder(a, i)'
      <3>1. i \in 1..Len(docs[a]) \/ docs'[a][i] = 0
        BY <1>3
      <3> QED BY <1>2, <1>3, <3>1, SMTT(30) DEF IInv, Private, InOrder
    <2>2. ASSUME NEW w \in Writers \ {a}, NEW i \in 1..Len(docs'[w])
          PROVE docs'[w][i] < nextSeqNo /\ InOrder(w, i)'
      BY <1>3 DEF IInv, Private, InOrder
    <2>3. ASSUME NEW n \in Nodes PROVE upto[a][n] <= Len(docs'[a])
      <3>1. upto \in [Writers -> [Nodes -> Nat]]
        BY DEF IInv, TypeOK
      <3>2. upto[a][n] \in Nat
        BY <3>1
      <3>3. upto[a][n] <= Len(docs[a])
        BY <1>1 DEF IInv, Private, Moves
      <3> QED BY <1>3, <3>2, <3>3
    <2> QED BY <1>1, <1>3, <2>1, <2>2, <2>3 DEF IInv, Private, Moves
  <1>10. Stream' /\ Ticketed'
    BY <1>1, StreamFrame, TicketedFrame DEF IInv, Moves
  <1>11. Drained'
    BY <1>1, DrainedFrame DEF IInv, Moves
  <1> QED BY <1>4, <1>5, <1>6, <1>7, <1>8, <1>9, <1>10, <1>11 DEF IInv

\* A DWPT's slice and documents after finishDocuments: what is left to show is
\* that the new document is in order against the updates.
LEMMA FinishFrame ==
    ASSUME IInv, NEW w \in Writers, NEW t \in 0..MaxNodes, NEW d \in Nat,
           ApplySlice(w, t, Len(docs[w])), docs' = [docs EXCEPT ![w] = Append(@, d)],
           head[w] <= t, t <= tail, UNCHANGED <<tail, seqOf, globalVars, ticketVars, dwLock, loc>>,
           nextSeqNo' \in Nat, nextSeqNo' >= nextSeqNo, d < nextSeqNo',
           pc[w] \in {"index", "private"}, Moves(w, pc[w], "free"),
           \A n \in 1..tail : (seqOf[n] = 0 \/ seqOf[n] > d) <=> n > t
    PROVE  /\ head' \in [Writers -> 0..MaxNodes] /\ slice' \in [Writers -> 0..MaxNodes]
           /\ upto' \in [Writers -> [Nodes -> Nat]] /\ docs' \in [Writers -> Seq(Nat)]
           /\ Order' /\ Slices' /\ Private' /\ Stream' /\ Ticketed' /\ Drained'
  <1> USE DEF globalVars, ticketVars
  <1>1. docs \in [Writers -> Seq(Nat)] /\ nextSeqNo \in Nat \ {0} /\ tail \in 0..MaxNodes
    BY DEF IInv, TypeOK
  <1>2. /\ docs' \in [Writers -> Seq(Nat)]
        /\ Len(docs[w]) \in Nat /\ Len(docs'[w]) = Len(docs[w]) + 1
        /\ docs'[w][Len(docs[w]) + 1] = d
        /\ \A i \in 1..Len(docs[w]) : docs'[w][i] = docs[w][i]
        /\ \A v \in Writers \ {w} : docs'[v] = docs[v]
    BY <1>1, AppendDoc
  <1>3. /\ head' \in [Writers -> 0..MaxNodes] /\ slice' \in [Writers -> 0..MaxNodes]
        /\ upto' \in [Writers -> [Nodes -> Nat]]
        /\ head'[w] = t /\ slice'[w] = t
        /\ \A n \in Nodes : upto'[w][n] = IF n \in (head[w] + 1)..t THEN Len(docs[w]) ELSE upto[w][n]
        /\ \A v \in Writers \ {w} : head'[v] = head[v] /\ slice'[v] = slice[v] /\ upto'[v] = upto[v]
    BY <1>2, ApplySliceIs DEF IInv
  <1>4. Order'
    BY OrderFrame DEF IInv, Moves
  <1>5. Slices'
    BY <1>1, <1>3 DEF IInv, Slices, Moves, Updating
  <1>6. \A n \in Nodes : upto'[w][n] \in Nat
    <2>1. upto' \in [Writers -> [Nodes -> Nat]]
      BY <1>3
    <2>2. upto'[w] \in [Nodes -> Nat]
      BY <2>1
    <2> QED BY <2>2
  <1>7. ASSUME NEW n \in Nodes PROVE (upto'[w][n] > 0 => n <= t) /\ upto'[w][n] <= Len(docs[w])
    <2>1. (upto[w][n] > 0 => n <= head[w]) /\ upto[w][n] <= Len(docs[w])
      BY DEF IInv, Private
    <2>2. head[w] \in 0..MaxNodes
      BY DEF IInv, TypeOK
    <2> QED BY <1>2, <1>3, <2>1, <2>2
  <1>8. Private'
    <2>1. ASSUME NEW i \in 1..Len(docs'[w]) PROVE docs'[w][i] < nextSeqNo' /\ InOrder(w, i)'
      <3>1. CASE i \in 1..Len(docs[w])
        <4>1. InOrder(w, i)'
          BY <1>2, <3>1, ApplySliceInOrder
        <4>2. docs[w][i] < nextSeqNo /\ docs[w][i] \in Nat
          BY <1>1, <3>1 DEF IInv, Private
        <4> QED BY <1>1, <1>2, <3>1, <4>1, <4>2
      <3>2. CASE i = Len(docs[w]) + 1
        <4>1. docs'[w][i] = d
          BY <1>2, <3>2
        <4>2. \A n \in 1..tail : ~(i <= upto'[w][n])
          BY <1>1, <1>2, <1>6, <1>7, <3>2
        <4> QED BY <1>3, <4>1, <4>2 DEF InOrder
      <3> QED BY <1>2, <3>1, <3>2
    <2>2. ASSUME NEW v \in Writers \ {w}, NEW i \in 1..Len(docs'[v])
          PROVE docs'[v][i] < nextSeqNo' /\ InOrder(v, i)'
      <3>1. docs[v][i] < nextSeqNo /\ docs[v][i] \in Nat /\ docs'[v] = docs[v]
        BY <1>1, <1>2 DEF IInv, Private
      <3>2. InOrder(v, i)'
        BY <1>2, <1>3, ZenonT(60) DEF IInv, Private, InOrder
      <3> QED BY <1>1, <3>1, <3>2
    <2>3. \A n \in Nodes : (upto'[w][n] > 0 => n <= head'[w]) /\ upto'[w][n] <= Len(docs'[w])
      <3>1. head'[w] = t /\ Len(docs'[w]) = Len(docs[w]) + 1 /\ Len(docs[w]) \in Nat
        BY <1>2, <1>3
      <3> QED BY <1>6, <1>7, <3>1
    <2>4. ASSUME NEW v \in Writers \ {w}
          PROVE  /\ pc'[v] = "new" => docs'[v] = <<>>
                 /\ \A n \in Nodes : upto'[v][n] > 0 => n <= head'[v]
                 /\ pc'[v] # "gone" => \A n \in Nodes : upto'[v][n] <= Len(docs'[v])
      BY <1>2, <1>3, ZenonT(60) DEF IInv, Private, Moves
    <2>5. pc'[w] = "free"
      BY DEF Moves
    <2> QED BY <2>1, <2>2, <2>3, <2>4, <2>5 DEF Private
  <1>9. Stream' /\ Drained'
    BY StreamFrame, DrainedFrame DEF IInv, Moves
  <1>10. Ticketed'
    <2>1. FrozenByAll' = FrozenByAll /\ \A k : Frozen(k)' = Frozen(k)
      BY DEF FrozenByAll, Frozen
    <2>2. \A v \in Writers : pc'[v] \in {"ticket", "flushed"} => v # w /\ pc'[v] = pc[v]
      BY DEF Moves
    <2>3. \A v \in Writers : pc[v] = "flushed" => v # w /\ pc'[v] = pc[v]
      BY DEF Moves
    <2>4. \A v \in Writers : v # w => head'[v] = head[v] /\ slice'[v] = slice[v]
      BY <1>3
    <2> QED BY <2>1, <2>2, <2>3, <2>4 DEF IInv, Ticketed
  <1> QED BY <1>2, <1>3, <1>4, <1>5, <1>8, <1>9, <1>10

\* UpdateSlice: with d.mu free every node has its number, and the document's is larger.
LEMMA UpdateSliceInv == ASSUME IInv, NEW a \in Writers, UpdateSlice(a) PROVE IInv'
  <1> USE DEF seqVars, globalVars, ticketVars, writerVars
  <1>1. pc[a] = "index" /\ mu = None
    BY DEF UpdateSlice
  <1>2. /\ nextSeqNo' = nextSeqNo + 1
        /\ ApplySlice(a, tail, Len(docs[a])) /\ docs' = [docs EXCEPT ![a] = Append(@, nextSeqNo)]
        /\ Goto(a, "free")
        /\ UNCHANGED <<mu, tail, seqOf, maxSeqNo, advanced, closed, dwLock, loc>>
        /\ UNCHANGED <<globalVars, ticketVars>>
    BY <1>1, NumberLeft DEF UpdateSlice
  <1>3. Moves(a, "index", "free")
    BY <1>1, <1>2, GotoMoves DEF IInv
  <1>4. nextSeqNo \in Nat \ {0} /\ maxSeqNo \in Nat /\ tail \in 0..MaxNodes /\ seqOf \in [Nodes -> Nat]
    BY DEF IInv, TypeOK
  <1>5. \A n \in 1..tail : (seqOf[n] = 0 \/ seqOf[n] > nextSeqNo) <=> n > tail
    <2>1. \A n \in 1..tail : seqOf[n] # 0
      BY <1>1 DEF IInv, Order, Locked
    <2>2. \A n \in 1..tail : seqOf[n] < nextSeqNo
      BY <1>4 DEF IInv, Order
    <2> QED BY <1>4, <2>1, <2>2
  <1>6. head[a] <= tail
    BY DEF IInv, Slices
  <1>7. nextSeqNo' \in Nat /\ nextSeqNo' >= nextSeqNo /\ nextSeqNo < nextSeqNo' /\ nextSeqNo' \in Nat \ {0}
    BY <1>2, <1>4
  <1>8. /\ head' \in [Writers -> 0..MaxNodes] /\ slice' \in [Writers -> 0..MaxNodes]
        /\ upto' \in [Writers -> [Nodes -> Nat]] /\ docs' \in [Writers -> Seq(Nat)]
        /\ Order' /\ Slices' /\ Private' /\ Stream' /\ Ticketed' /\ Drained'
    <2>1. nextSeqNo \in Nat /\ tail \in 0..MaxNodes /\ tail <= tail /\ pc[a] \in {"index", "private"}
      BY <1>1, <1>4
    <2>2. Moves(a, pc[a], "free")
      BY <1>1, <1>3
    <2> QED BY <1>2, <1>5, <1>6, <1>7, <2>1, <2>2, FinishFrame
  <1>9. TypeOK'
    <2>1. pc' \in [Actors -> States]
      BY <1>2, GotoType DEF IInv, States
    <2> QED BY <1>2, <1>7, <1>8, <2>1, ZenonT(60) DEF IInv, TypeOK
  <1>10. Roles' /\ Phases'
    BY <1>2, <1>3 DEF IInv, Roles, Phases, Moves, Adding, Updating, Flushing, Ending
  <1>11. Locked'
    BY <1>2, <1>3 DEF IInv, Locked, Moves, Adding
  <1>12. Supply'
    <2>1. /\ Cardinality(Drawing) \in Nat /\ Cardinality(Drawing') \in Nat
          /\ Cardinality(Drawing) = Cardinality(Drawing') + 1
      BY <1>1, <1>3, DrawingLess DEF Adding
    <2> QED BY <1>2, <1>4, <2>1 DEF IInv, Supply
  <1> QED BY <1>8, <1>9, <1>10, <1>11, <1>12 DEF IInv

\* finishDocuments with a delete node: the document has the number of its node.
LEMMA FinishUpdateInv == ASSUME IInv, NEW a \in Writers, FinishUpdate(a) PROVE IInv'
  <1> USE DEF seqVars, globalVars, ticketVars, writerVars
  <1>1. pc[a] = "private"
    BY DEF FinishUpdate
  <1>2. /\ head[a] < loc[a] /\ loc[a] <= tail /\ seqOf[loc[a]] > 0 /\ slice[a] = loc[a]
        /\ head[a] \in 0..MaxNodes /\ slice[a] \in 0..MaxNodes
    BY <1>1 DEF IInv, TypeOK, Slices, Updating
  <1>3. /\ ApplySlice(a, slice[a], Len(docs[a])) /\ docs' = [docs EXCEPT ![a] = Append(@, seqOf[loc[a]])]
        /\ Goto(a, "free")
        /\ UNCHANGED <<seqVars, globalVars, ticketVars, dwLock, loc>>
    BY <1>2 DEF FinishUpdate
  <1>4. Moves(a, "private", "free")
    BY <1>1, <1>3, GotoMoves DEF IInv
  <1>5. nextSeqNo \in Nat \ {0} /\ tail \in 0..MaxNodes /\ seqOf \in [Nodes -> Nat]
    BY DEF IInv, TypeOK
  <1>6. seqOf[loc[a]] \in Nat /\ seqOf[loc[a]] < nextSeqNo /\ loc[a] \in 1..tail
    BY <1>2, <1>5 DEF IInv, Order
  <1>7. ASSUME NEW n \in 1..tail
        PROVE  (seqOf[n] = 0 \/ seqOf[n] > seqOf[loc[a]]) <=> n > slice[a]
    <2>1. seqOf[n] \in Nat
      BY <1>5
    <2>2. n < loc[a] => 0 < seqOf[n] /\ seqOf[n] < seqOf[loc[a]]
      BY <1>2, <1>6 DEF IInv, Order, SeqNoOrder
    <2>3. loc[a] < n /\ seqOf[n] > 0 => seqOf[loc[a]] < seqOf[n]
      BY <1>6 DEF IInv, Order, SeqNoOrder
    <2> QED BY <1>2, <1>5, <1>6, <2>1, <2>2, <2>3
  <1>8. head[a] <= slice[a] /\ slice[a] <= tail /\ nextSeqNo' \in Nat /\ nextSeqNo' >= nextSeqNo
        /\ seqOf[loc[a]] < nextSeqNo'
    BY <1>2, <1>3, <1>5, <1>6
  <1>9. /\ head' \in [Writers -> 0..MaxNodes] /\ slice' \in [Writers -> 0..MaxNodes]
        /\ upto' \in [Writers -> [Nodes -> Nat]] /\ docs' \in [Writers -> Seq(Nat)]
        /\ Order' /\ Slices' /\ Private' /\ Stream' /\ Ticketed' /\ Drained'
    BY <1>1, <1>2, <1>3, <1>4, <1>6, <1>7, <1>8, FinishFrame
  <1>10. TypeOK'
    <2>1. pc' \in [Actors -> States]
      BY <1>3, GotoType DEF IInv, States
    <2> QED BY <1>3, <1>9, <2>1, ZenonT(60) DEF IInv, TypeOK
  <1>11. Roles' /\ Phases'
    BY <1>3, <1>4 DEF IInv, Roles, Phases, Moves, Adding, Updating, Flushing, Ending
  <1>12. Locked'
    BY <1>3, <1>4 DEF IInv, Locked, Moves, Adding
  <1>13. Supply'
    BY <1>3, <1>4, SupplyFrame DEF IInv, Moves, Adding
  <1> QED BY <1>9, <1>10, <1>11, <1>12, <1>13 DEF IInv

\* A new DWPT's slice starts at the tail.
LEMMA NewSliceInv == ASSUME IInv, NEW a \in Writers, NewSlice(a) PROVE IInv'
  <1> USE DEF NewSlice, seqVars, globalVars, ticketVars, writerVars
  <1>1. Moves(a, "new", "free")
    BY GotoMoves DEF IInv
  <1>2. head \in [Writers -> 0..MaxNodes] /\ slice \in [Writers -> 0..MaxNodes] /\ tail \in 0..MaxNodes
    BY DEF IInv, TypeOK
  <1>3. /\ head' \in [Writers -> 0..MaxNodes] /\ slice' \in [Writers -> 0..MaxNodes]
        /\ head'[a] = tail /\ slice'[a] = tail
        /\ \A w \in Writers : w # a => head'[w] = head[w] /\ slice'[w] = slice[w]
    BY <1>2
  <1>4. TypeOK'
    <2>1. pc' \in [Actors -> States]
      BY GotoType DEF IInv, States
    <2> QED BY <1>3, <2>1, ZenonT(60) DEF IInv, TypeOK
  <1>5. Roles' /\ Phases'
    BY <1>1 DEF IInv, Roles, Phases, Moves, Adding, Updating, Flushing, Ending
  <1>6. Locked'
    BY <1>1 DEF IInv, Locked, Moves, Adding
  <1>7. nextSeqNo \in Nat /\ nextSeqNo' \in Nat /\ nextSeqNo' >= nextSeqNo
    BY DEF IInv, TypeOK
  <1>8. Supply' /\ Order'
    BY <1>1, <1>7, SupplyFrame, OrderFrame DEF IInv, Moves, Adding
  <1>9. Slices'
    BY <1>1, <1>2, <1>3 DEF IInv, Slices, Moves, Updating
  <1>10. Private'
    <2>1. docs[a] = <<>> /\ Len(docs[a]) = 0
      BY <1>1 DEF IInv, Private, Moves
    <2>2. ASSUME NEW n \in Nodes PROVE upto[a][n] = 0
      <3>1. upto \in [Writers -> [Nodes -> Nat]]
        BY DEF IInv, TypeOK
      <3>2. upto[a][n] \in Nat
        BY <3>1
      <3>3. upto[a][n] <= 0
        BY <1>1, <2>1 DEF IInv, Private, Moves
      <3> QED BY <3>2, <3>3
    <2>3. ASSUME NEW w \in Writers, w # a
          PROVE  /\ pc'[w] = "new" => docs[w] = <<>>
                 /\ \A n \in Nodes : upto[w][n] > 0 => n <= head'[w]
                 /\ pc'[w] # "gone" => \A n \in Nodes : upto[w][n] <= Len(docs[w])
                 /\ \A i \in 1..Len(docs[w]) : docs[w][i] < nextSeqNo /\ InOrder(w, i)'
      BY <1>1, <1>3, <2>3 DEF IInv, Private, InOrder, Moves
    <2> QED BY <1>1, <1>3, <2>1, <2>2, <2>3 DEF Private, Moves
  <1>11. Stream' /\ Drained'
    BY <1>1, StreamFrame, DrainedFrame DEF IInv, Moves
  <1>12. Ticketed'
    <2>1. FrozenByAll' = FrozenByAll /\ \A k : Frozen(k)' = Frozen(k)
      BY DEF FrozenByAll, Frozen
    <2>2. \A w \in Writers : pc'[w] = "ticket" \/ pc[w] = "flushed" => w # a /\ pc'[w] = pc[w]
      BY <1>1 DEF Moves
    <2> QED BY <1>3, <2>1, <2>2 DEF IInv, Ticketed
  <1> QED BY <1>4, <1>5, <1>6, <1>8, <1>9, <1>10, <1>11, <1>12 DEF IInv

\* A DWPT is aborted: its documents go.
LEMMA AbortWriterInv == ASSUME IInv, NEW a \in Writers, AbortWriter(a) PROVE IInv'
  <1> USE DEF AbortWriter, seqVars, globalVars, ticketVars, writerVars
  <1>1. Moves(a, "free", "gone")
    BY GotoMoves DEF IInv
  <1>2. docs \in [Writers -> Seq(Nat)]
    BY DEF IInv, TypeOK
  <1>3. docs' \in [Writers -> Seq(Nat)] /\ docs'[a] = <<>> /\ \A w \in Writers : w # a => docs'[w] = docs[w]
    BY <1>2
  <1>4. TypeOK'
    <2>1. pc' \in [Actors -> States]
      BY GotoType DEF IInv, States
    <2> QED BY <1>3, <2>1, ZenonT(60) DEF IInv, TypeOK
  <1>5. Roles' /\ Phases'
    BY <1>1 DEF IInv, Roles, Phases, Moves, Adding, Updating, Flushing, Ending
  <1>6. Locked'
    BY <1>1 DEF IInv, Locked, Moves, Adding
  <1>7. nextSeqNo \in Nat /\ nextSeqNo' \in Nat /\ nextSeqNo' >= nextSeqNo
    BY DEF IInv, TypeOK
  <1>8. Supply' /\ Order' /\ Slices'
    BY <1>1, <1>7, SupplyFrame, OrderFrame, SlicesFrame DEF IInv, Moves, Adding, Updating
  <1>9. Private'
    <2>1. Len(docs'[a]) = 0 /\ pc'[a] = "gone"
      BY <1>1, <1>3 DEF Moves
    <2>2. ASSUME NEW w \in Writers, w # a
          PROVE  /\ pc'[w] = "new" => docs'[w] = <<>>
                 /\ pc'[w] # "gone" => \A n \in Nodes : upto[w][n] <= Len(docs'[w])
                 /\ \A i \in 1..Len(docs'[w]) : docs'[w][i] < nextSeqNo /\ InOrder(w, i)'
      BY <1>1, <1>3, <2>2 DEF IInv, Private, InOrder, Moves
    <2> QED BY <2>1, <2>2 DEF IInv, Private
  <1>10. Stream' /\ Ticketed' /\ Drained'
    BY <1>1, StreamFrame, TicketedFrame, DrainedFrame DEF IInv, Moves
  <1> QED BY <1>4, <1>5, <1>6, <1>8, <1>9, <1>10 DEF IInv

\* The node gets a number larger than any number drawn before.
LEMMA AddNodeNumberInv == ASSUME IInv, NEW a \in Adders, AddNodeNumber(a) PROVE IInv'
  <1> DEFINE to == IF a \in Writers THEN "sliceTail" ELSE "try"
  <1> USE DEF seqVars, globalVars, ticketVars, writerVars
  <1>1. pc[a] = "number" /\ mu = a
    BY DEF AddNodeNumber, IInv, Locked
  <1>2. ~Exhausted(nextSeqNo)
    <2>1. CASE a \in Writers
      BY <1>1, <2>1, NumberLeft DEF Adding
    <2>2. CASE a \in Deleters
      BY <1>1, <2>2 DEF IInv, Locked, Phases, Exhausted, Adding
    <2> QED BY <2>1, <2>2
  <1>3. /\ seqOf' = [seqOf EXCEPT ![loc[a]] = nextSeqNo] /\ nextSeqNo' = nextSeqNo + 1
        /\ mu' = None /\ Goto(a, to)
        /\ UNCHANGED <<tail, maxSeqNo, advanced, closed, globalVars, ticketVars, writerVars, dwLock, loc>>
    BY <1>2 DEF AddNodeNumber
  <1>4. Moves(a, "number", to)
    BY <1>1, <1>3, GotoMoves DEF IInv
  <1>5. nextSeqNo \in Nat \ {0} /\ maxSeqNo \in Nat /\ tail \in 0..MaxNodes /\ seqOf \in [Nodes -> Nat]
    BY DEF IInv, TypeOK
  <1>6. loc[a] = tail /\ tail > 0 /\ seqOf[tail] = 0 /\ tail \in Nodes
    BY <1>1, <1>5 DEF IInv, Order
  <1>7. /\ seqOf' \in [Nodes -> Nat] /\ seqOf'[tail] = nextSeqNo
        /\ \A n \in Nodes : n # tail => seqOf'[n] = seqOf[n]
    BY <1>3, <1>5, <1>6
  <1>8. nextSeqNo' \in Nat \ {0} /\ nextSeqNo < nextSeqNo'
    BY <1>3, <1>5
  <1>9. TypeOK'
    <2>1. pc' \in [Actors -> States]
      BY <1>3, GotoType DEF IInv, States
    <2> QED BY <1>3, <1>7, <1>8, <2>1 DEF IInv, TypeOK
  <1>10. Roles' /\ Phases'
    BY <1>3, <1>4 DEF IInv, Roles, Locked, Phases, Moves, Adding, Updating, Flushing, Ending
  <1>11. Locked'
    BY <1>3, <1>4 DEF IInv, Locked, Moves, Adding
  <1>12. Supply'
    <2>1. CASE a \in Writers
      <3>1. /\ Cardinality(Drawing) \in Nat /\ Cardinality(Drawing') \in Nat
            /\ Cardinality(Drawing) = Cardinality(Drawing') + 1
        BY <1>1, <1>4, <2>1, DrawingLess DEF Adding
      <3> QED BY <1>3, <1>5, <3>1 DEF IInv, Supply
    <2>2. CASE a \in Deleters
      BY <1>1, <1>3, <2>2 DEF IInv, Locked, Phases, Supply, Adding
    <2> QED BY <2>1, <2>2
  <1>13. Order'
    <2>1. \A b \in Adders : pc'[b] \notin {"store", "number"}
      BY <1>1, <1>4 DEF IInv, Locked, Moves
    <2>2. \A n \in Nodes : seqOf'[n] < nextSeqNo' /\ (n > tail => seqOf'[n] = 0)
      BY <1>5, <1>6, <1>7, <1>8 DEF IInv, Order
    <2>3. \A n \in 1..tail : seqOf'[n] # 0
      BY <1>5, <1>6, <1>7 DEF IInv, Order
    <2>4. ASSUME NEW m \in 1..tail, NEW n \in 1..tail, m < n, seqOf'[n] > 0
          PROVE  0 < seqOf'[m] /\ seqOf'[m] < seqOf'[n]
      <3>1. m # tail /\ m \in Nodes /\ n \in Nodes /\ seqOf[m] \in Nat /\ seqOf[n] \in Nat
        BY <1>5, <2>4
      <3>2. CASE n = tail
        BY <1>5, <1>7, <2>3, <3>1, <3>2 DEF IInv, Order
      <3>3. CASE n # tail
        BY <1>7, <2>4, <3>1, <3>3 DEF IInv, Order, SeqNoOrder
      <3> QED BY <3>2, <3>3
    <2> QED BY <1>3, <2>1, <2>2, <2>3, <2>4 DEF Order, SeqNoOrder
  <1>14. Slices'
    <2>1. ASSUME NEW w \in Writers, pc'[w] \in Updating PROVE seqOf'[loc[w]] > 0
      <3>1. CASE w = a
        BY <1>5, <1>6, <1>7, <3>1
      <3>2. CASE w # a
        <4>1. pc[w] \in Updating
          BY <1>4, <2>1, <3>2 DEF Moves
        <4>2. loc[w] \in 0..MaxNodes /\ head[w] \in 0..MaxNodes
          BY DEF IInv, TypeOK
        <4>3. head[w] < loc[w] /\ seqOf[loc[w]] > 0
          BY <4>1 DEF IInv, Slices
        <4> QED BY <1>5, <1>7, <4>2, <4>3
      <3> QED BY <3>1, <3>2
    <2> QED BY <1>3, <1>4, <2>1 DEF IInv, Slices, Moves, Updating
  <1>15. Private'
    <2>1. ASSUME NEW w \in Writers, NEW i \in 1..Len(docs[w])
          PROVE  docs[w][i] < nextSeqNo' /\ InOrder(w, i)'
      <3>1. docs \in [Writers -> Seq(Nat)]
        BY DEF IInv, TypeOK
      <3>2. docs[w][i] \in Nat /\ docs[w][i] < nextSeqNo /\ InOrder(w, i)
        BY <3>1 DEF IInv, Private
      <3>3. ASSUME NEW n \in 1..tail
            PROVE (seqOf'[n] = 0 \/ seqOf'[n] > docs[w][i]) <=> (seqOf[n] = 0 \/ seqOf[n] > docs[w][i])
        BY <1>5, <1>6, <1>7, <3>2
      <3>4. UNCHANGED <<tail, docs, upto, head>>
        BY <1>3
      <3>5. InOrder(w, i)'
        BY <3>2, <3>3, <3>4 DEF InOrder
      <3> QED BY <1>5, <1>8, <3>2, <3>5
    <2> QED BY <1>3, <1>4, <2>1 DEF IInv, Private, Moves
  <1>16. Stream' /\ Ticketed'
    BY <1>3, <1>4, StreamFrame, TicketedFrame DEF IInv, Moves
  <1>17. Drained'
    BY <1>3, <1>4, DrainedFrame DEF IInv, Moves
  <1> QED BY <1>9, <1>10, <1>11, <1>12, <1>13, <1>14, <1>15, <1>16, <1>17 DEF IInv

\* GetNextSequenceNumber draws from the queue only while it is not advanced.
LEMMA TakeSeqNoInv == ASSUME IInv, NEW a \in Adders, TakeSeqNo(a) PROVE IInv'
  <1> USE DEF seqVars, globalVars, ticketVars, writerVars
  <1>1. /\ ~advanced /\ nextSeqNo' = nextSeqNo + 1
        /\ UNCHANGED <<mu, tail, seqOf, maxSeqNo, advanced, closed, pc, loc>>
        /\ UNCHANGED <<globalVars, ticketVars, writerVars, dwLock>>
    BY DEF TakeSeqNo, Exhausted
  <1>2. nextSeqNo \in Nat \ {0}
    BY DEF IInv, TypeOK
  <1>3. nextSeqNo' \in Nat \ {0} /\ nextSeqNo' \in Nat /\ nextSeqNo' >= nextSeqNo
    BY <1>1, <1>2
  <1>4. TypeOK'
    BY <1>1, <1>3, ZenonT(60) DEF IInv, TypeOK
  <1>5. Roles' /\ Phases' /\ Locked' /\ Supply'
    BY <1>1 DEF IInv, Roles, Phases, Locked, Supply
  <1>6. Order' /\ Slices' /\ Private'
    BY <1>1, <1>3, OrderFrame, SlicesFrame, PrivateFrame DEF IInv
  <1>7. Stream' /\ Ticketed' /\ Drained'
    BY <1>1, StreamFrame, TicketedFrame, DrainedFrame DEF IInv
  <1> QED BY <1>4, <1>5, <1>6, <1>7 DEF IInv

\* AdvanceQueue: every DWPT that is going to draw a number is in the pool.
LEMMA AdvanceQueueInv == ASSUME IInv, AdvanceQueue PROVE IInv'
  <1> USE DEF seqVars, globalVars, ticketVars, writerVars
  <1>1. pc[Flusher] = "idle" /\ dwLock = None /\ ~advanced /\ ~closed /\ ~flushed
    BY DEF AdvanceQueue, IInv, Phases, Ending
  <1>2. /\ advanced' = TRUE /\ maxSeqNo' = MaxPendingSeqNo(Cardinality(Pool)) /\ Goto(Flusher, "mark")
        /\ UNCHANGED <<mu, tail, seqOf, nextSeqNo, closed, globalVars, ticketVars, writerVars, dwLock, loc>>
    BY <1>1 DEF AdvanceQueue
  <1>3. Moves(Flusher, "idle", "mark")
    BY <1>1, <1>2, GotoMoves DEF IInv
  <1>4. nextSeqNo \in Nat \ {0} /\ nextSeqNo' \in Nat /\ nextSeqNo' >= nextSeqNo
    BY <1>2 DEF IInv, TypeOK
  <1>5. \A w \in Writers : pc'[w] = pc[w]
    BY <1>3 DEF Moves
  <1>6. IsFiniteSet(Pool) /\ Drawing \subseteq Pool
    BY FS_Subset DEF Pool, Drawing, Adding
  <1>7. Cardinality(Pool) \in Nat /\ Cardinality(Drawing) \in Nat /\ Cardinality(Drawing) <= Cardinality(Pool)
    BY <1>6, FS_Subset, FS_CardinalityType
  <1>8. TypeOK'
    <2>1. pc' \in [Actors -> States]
      BY <1>2, GotoType DEF IInv, States
    <2>2. maxSeqNo' \in Nat
      BY <1>2, <1>4, <1>7 DEF MaxPendingSeqNo
    <2>3. advanced' \in BOOLEAN
      BY <1>2, Zenon
    <2> QED BY <1>2, <2>1, <2>2, <2>3 DEF IInv, TypeOK
  <1>9. Roles' /\ Phases'
    BY <1>1, <1>2, <1>3 DEF IInv, Roles, Phases, Moves, Ending
  <1>10. Locked'
    BY <1>1, <1>2, <1>3 DEF IInv, Locked, Moves
  <1>11. Supply'
    <2>1. Drawing' = Drawing
      BY <1>5 DEF Drawing
    <2> QED BY <1>2, <1>4, <1>7, <2>1 DEF Supply, MaxPendingSeqNo
  <1>12. Order' /\ Slices' /\ Private'
    BY <1>2, <1>3, <1>4, <1>5, OrderFrame, SlicesFrame, PrivateFrame DEF IInv, Moves
  <1>13. Stream' /\ Ticketed'
    BY <1>2, <1>3, <1>5, StreamFrame, TicketedFrame DEF IInv, Moves
  <1>14. Drained'
    BY <1>3 DEF Drained, Moves
  <1> QED BY <1>8, <1>9, <1>10, <1>11, <1>12, <1>13, <1>14 DEF IInv

\* MarkForFullFlush ends: the pool has no DWPT left with an operation under way.
LEMMA MarkDoneInv == ASSUME IInv, MarkDone PROVE IInv'
  <1> USE DEF seqVars, globalVars, ticketVars, writerVars
  <1>1. pc[Flusher] = "mark" /\ advanced /\ ~closed /\ ~flushed
    BY DEF MarkDone, IInv, Phases, Ending
  <1>2. nextSeqNo \in Nat \ {0} /\ maxSeqNo \in Nat /\ pc \in [Actors -> States] /\ docs \in [Writers -> Seq(Nat)]
    BY DEF IInv, TypeOK
  <1>3. nextSeqNo <= maxSeqNo
    <2>1. IsFiniteSet(Drawing)
      BY FS_Subset DEF Drawing
    <2>2. Cardinality(Drawing) \in Nat
      BY <2>1, FS_CardinalityType
    <2> QED BY <1>1, <1>2, <2>2 DEF IInv, Supply
  <1>4. /\ pc' = [a \in Actors |-> IF a = Flusher THEN "drain"
                                   ELSE IF a \in Pool /\ docs[a] = <<>> THEN "gone" ELSE pc[a]]
        /\ UNCHANGED <<seqVars, globalVars, ticketVars, writerVars, dwLock, loc>>
        /\ \A w \in Pool : pc[w] = "free"
    BY <1>2, <1>3 DEF MarkDone
  <1>5. pc' \in [Actors -> States]
    BY <1>2, <1>4 DEF States
  <1>6. /\ pc'[Flusher] = "drain" /\ \A d \in Deleters : pc'[d] = pc[d]
        /\ \A w \in Writers : pc'[w] = pc[w] \/ (pc[w] = "free" /\ pc'[w] = "gone")
        /\ \A w \in Writers : pc[w] \notin {"index"} \cup Adding \cup Updating
    BY <1>4 DEF Pool, Adding, Updating
  <1>7. TypeOK'
    BY <1>4, <1>5, ZenonT(60) DEF IInv, TypeOK
  <1>8. Roles'
    BY <1>6 DEF IInv, Roles
  <1>9. Phases'
    <2>1. \A w \in Writers : pc'[w] \in {"new", "free", "flushed", "gone"} \cup Flushing
      BY <1>6 DEF IInv, Roles
    <2> QED BY <1>1, <1>4, <1>6, <2>1 DEF IInv, Phases, Ending
  <1>10. Locked'
    BY <1>1, <1>4, <1>6 DEF IInv, Locked, Adding
  <1>11. nextSeqNo' \in Nat /\ nextSeqNo' >= nextSeqNo
    BY <1>2, <1>4
  <1>12. Supply' /\ Order'
    BY <1>4, <1>6, <1>11, SupplyFrame, OrderFrame DEF IInv, Adding
  <1>13. Slices' /\ Private'
    BY <1>4, <1>6, <1>11, SlicesFrame, PrivateFrame DEF IInv, Updating
  <1>14. Stream' /\ Ticketed'
    <2>1. \A a \in Actors : pc[a] \in {"ticket", "nakedTicket"} => pc'[a] = pc[a]
      BY <1>1, <1>6
    <2> QED BY <1>4, <1>6, <2>1, StreamFrame, TicketedFrame DEF IInv
  <1>15. Drained'
    BY <1>1, <1>4, <1>6 DEF Drained
  <1> QED BY <1>7, <1>8, <1>9, <1>10, <1>12, <1>13, <1>14, <1>15 DEF IInv

\* WaitForFlush returned: a full flush that flushed a DWPT has frozen everything.
LEMMA FlushedAllInv == ASSUME IInv, FlushedAll PROVE IInv'
  <1> DEFINE to == IF ~flushed /\ AnyChangesLocked THEN "naked" ELSE "closing"
  <1> USE DEF FlushedAll, seqVars, globalVars, ticketVars, writerVars
  <1>1. Moves(Flusher, "drain", to)
    BY GotoMoves DEF IInv
  <1>2. \A w \in Writers : pc'[w] = pc[w]
    BY <1>1 DEF Moves
  <1>3. TypeOK'
    <2>1. pc' \in [Actors -> States]
      BY GotoType DEF IInv, States
    <2> QED BY <2>1 DEF IInv, TypeOK
  <1>4. Roles' /\ Phases'
    BY <1>1 DEF IInv, Roles, Phases, Moves, Ending
  <1>5. Locked'
    BY <1>1 DEF IInv, Locked, Moves
  <1>6. nextSeqNo \in Nat /\ nextSeqNo' \in Nat /\ nextSeqNo' >= nextSeqNo
    BY DEF IInv, TypeOK
  <1>7. Supply' /\ Order' /\ Slices' /\ Private'
    BY <1>1, <1>2, <1>6, SupplyFrame, OrderFrame, SlicesFrame, PrivateFrame DEF IInv, Moves
  <1>8. Stream' /\ Ticketed'
    BY <1>1, <1>2, StreamFrame, TicketedFrame DEF IInv, Moves
  <1>9. Drained'
    <2>1. to = "closing" => NoChanges
      BY DEF IInv, Drained, NoChanges, AnyChangesLocked
    <2> QED BY <1>1, <2>1 DEF Drained, NoChanges, Moves
  <1> QED BY <1>3, <1>4, <1>5, <1>7, <1>8, <1>9 DEF IInv

\* Close finds no changes, and a number left.
LEMMA CloseInv == ASSUME IInv, Close PROVE IInv'
  <1> USE DEF seqVars, globalVars, ticketVars, writerVars
  <1>1. pc[Flusher] = "closing" /\ ~closed
    BY DEF Close, IInv, Phases
  <1>2. ~AnyChangesLocked /\ NoChanges /\ advanced
    BY <1>1, NobodyAdds DEF IInv, Drained, NoChanges, AnyChangesLocked, Ending, Adding
  <1>3. nextSeqNo \in Nat \ {0} /\ maxSeqNo \in Nat
    BY DEF IInv, TypeOK
  <1>4. nextSeqNo <= maxSeqNo
    <2>1. IsFiniteSet(Drawing)
      BY FS_Subset DEF Drawing
    <2>2. Cardinality(Drawing) \in Nat
      BY <2>1, FS_CardinalityType
    <2> QED BY <1>1, <1>2, <1>3, <2>2 DEF IInv, Supply
  <1>5. /\ closed' = TRUE /\ Goto(Flusher, "done") /\ nextSeqNo' = maxSeqNo + 1
        /\ UNCHANGED <<mu, tail, seqOf, maxSeqNo, advanced, globalVars, ticketVars, writerVars, dwLock, loc>>
    BY <1>2, <1>3, <1>4 DEF Close
  <1>6. Moves(Flusher, "closing", "done")
    BY <1>1, <1>5, GotoMoves DEF IInv
  <1>7. \A w \in Writers : pc'[w] = pc[w]
    BY <1>6 DEF Moves
  <1>8. nextSeqNo' \in Nat \ {0} /\ nextSeqNo' \in Nat /\ nextSeqNo' >= nextSeqNo
    BY <1>3, <1>4, <1>5
  <1>9. TypeOK'
    <2>1. pc' \in [Actors -> States]
      BY <1>5, GotoType DEF IInv, States
    <2>2. closed' \in BOOLEAN
      BY <1>5, Zenon
    <2> QED BY <1>5, <1>8, <2>1, <2>2, ZenonT(60) DEF IInv, TypeOK
  <1>10. Roles' /\ Phases'
    BY <1>1, <1>5, <1>6 DEF IInv, Roles, Phases, Moves, Ending
  <1>11. Locked'
    BY <1>5, <1>6 DEF IInv, Locked, Moves
  <1>12. Supply'
    BY <1>5 DEF Supply
  <1>13. Order' /\ Slices' /\ Private'
    BY <1>5, <1>6, <1>7, <1>8, OrderFrame, SlicesFrame, PrivateFrame DEF IInv, Moves
  <1>14. Stream' /\ Ticketed'
    BY <1>5, <1>6, <1>7, StreamFrame, TicketedFrame DEF IInv, Moves
  <1>15. Drained'
    BY <1>2, <1>5, <1>6 DEF Drained, NoChanges, Moves
  <1> QED BY <1>9, <1>10, <1>11, <1>12, <1>13, <1>14, <1>15 DEF IInv

\* Clear discards what is buffered and what is in the list; what is frozen stays.
LEMMA ClearStream ==
    ASSUME IInv, Clear, UNCHANGED <<tail, tickets, packet>>,
           \A a \in Actors : pc[a] \in {"ticket", "nakedTicket"} => pc'[a] = pc[a]
    PROVE  /\ Stream' /\ dropped' \in SUBSET Nodes /\ dropped \subseteq dropped'
           /\ FrozenByAll' = FrozenByAll /\ \A k : Frozen(k)' = Frozen(k)
           /\ gTail' \in 0..MaxNodes /\ gHead' \in 0..MaxNodes
           /\ 1..tail' = FrozenByAll' \cup dropped'
  <1> USE DEF Clear
  <1>1. gHead \in 0..MaxNodes /\ tail \in 0..MaxNodes /\ gTail \in 0..MaxNodes
    BY DEF IInv, TypeOK
  <1>2. gBuf \in SUBSET Nodes /\ dropped \in SUBSET Nodes
    BY DEF IInv, TypeOK
  <1>3. dropped' \in SUBSET Nodes
    BY <1>1, <1>2
  <1>4. FrozenByAll' = FrozenByAll /\ \A k : Frozen(k)' = Frozen(k)
    BY DEF FrozenByAll, Frozen
  <1>5. 1..gHead = gBuf \cup FrozenByAll \cup dropped /\ gHead <= gTail /\ gTail <= tail
    BY DEF IInv, Stream, GlobalExactlyOnce
  <1>6. 1..tail = FrozenByAll \cup dropped'
    BY <1>1, <1>5
  <1>7. FrozenByAll \cap dropped' = {}
    <2>1. FrozenByAll \cap gBuf = {} /\ FrozenByAll \cap dropped = {}
      BY DEF IInv, Stream, GlobalExactlyOnce
    <2>2. FrozenByAll \cap (gHead + 1)..tail = {}
      BY <1>1, <1>5
    <2> QED BY <2>1, <2>2
  <1>8. GlobalExactlyOnce'
    BY <1>4, <1>6, <1>7 DEF IInv, Stream, GlobalExactlyOnce
  <1>9. Stream'
    BY <1>1, <1>8 DEF IInv, Stream
  <1> QED BY <1>1, <1>3, <1>4, <1>6, <1>9

\* LockAndAbortAll clears the queue before it aborts the DWPTs ...
LEMMA LockAndAbortAllInv == ASSUME IInv, LockAndAbortAll PROVE IInv'
  <1> USE DEF LockAndAbortAll, seqVars, ticketVars, writerVars
  <1>1. Moves(Flusher, "idle", "aborting")
    BY GotoMoves DEF IInv
  <1>2. \A w \in Writers : pc'[w] = pc[w]
    BY <1>1 DEF Moves
  <1>3. /\ Stream' /\ dropped' \in SUBSET Nodes /\ dropped \subseteq dropped'
        /\ FrozenByAll' = FrozenByAll /\ \A k : Frozen(k)' = Frozen(k)
        /\ gTail' \in 0..MaxNodes /\ gHead' \in 0..MaxNodes
    BY <1>1, ClearStream DEF Moves
  <1>4. gLock = None /\ gLock' = None /\ gBuf' = {}
    BY DEF Clear
  <1>5. TypeOK'
    <2>1. pc' \in [Actors -> States]
      BY GotoType DEF IInv, States
    <2> QED BY <1>3, <1>4, <2>1 DEF IInv, TypeOK
  <1>6. Roles' /\ Phases'
    BY <1>1 DEF IInv, Roles, Phases, Moves, Ending
  <1>7. Locked'
    BY <1>1, <1>4 DEF IInv, Locked, Moves, Adding
  <1>8. nextSeqNo \in Nat /\ nextSeqNo' \in Nat /\ nextSeqNo' >= nextSeqNo
    BY DEF IInv, TypeOK
  <1>9. Supply' /\ Order' /\ Private'
    BY <1>1, <1>2, <1>8, SupplyFrame, OrderFrame, PrivateFrame DEF IInv, Moves
  <1>10. Slices'
    <2>1. \A w \in Writers : pc[w] # "freeze"
      BY <1>4 DEF IInv, Locked
    <2> QED BY <1>2, <2>1 DEF IInv, Slices
  <1>11. Ticketed'
    BY <1>2, <1>3 DEF IInv, Ticketed
  <1>12. Drained'
    BY <1>1 DEF Drained, Moves
  <1> QED BY <1>3, <1>5, <1>6, <1>7, <1>9, <1>10, <1>11, <1>12 DEF IInv

\* ... and after it.
LEMMA FinishAbortAllInv == ASSUME IInv, FinishAbortAll PROVE IInv'
  <1> USE DEF FinishAbortAll, seqVars, ticketVars, writerVars
  <1>1. Moves(Flusher, "aborting", "idle")
    BY GotoMoves DEF IInv
  <1>2. \A w \in Writers : pc'[w] = pc[w]
    BY <1>1 DEF Moves
  <1>3. /\ Stream' /\ dropped' \in SUBSET Nodes /\ dropped \subseteq dropped'
        /\ FrozenByAll' = FrozenByAll /\ \A k : Frozen(k)' = Frozen(k)
        /\ gTail' \in 0..MaxNodes /\ gHead' \in 0..MaxNodes
    BY <1>1, ClearStream DEF Moves
  <1>4. gLock = None /\ gLock' = None /\ gBuf' = {}
    BY DEF Clear
  <1>5. Cardinality(Gone) \in Nat
    <2>1. IsFiniteSet(Gone)
      BY FS_Subset DEF Gone
    <2> QED BY <2>1, FS_CardinalityType
  <1>6. nextSeqNo \in Nat \ {0} /\ ~advanced
    BY DEF IInv, TypeOK, Phases
  <1>7. nextSeqNo' \in Nat \ {0} /\ nextSeqNo' \in Nat /\ nextSeqNo' >= nextSeqNo
    BY <1>5, <1>6
  <1>8. TypeOK'
    <2>1. pc' \in [Actors -> States]
      BY GotoType DEF IInv, States
    <2> QED BY <1>3, <1>4, <1>7, <2>1 DEF IInv, TypeOK
  <1>9. Roles' /\ Phases'
    BY <1>1 DEF IInv, Roles, Phases, Moves, Ending
  <1>10. Locked'
    BY <1>1, <1>4 DEF IInv, Locked, Moves, Adding
  <1>11. Order' /\ Private'
    BY <1>1, <1>2, <1>7, OrderFrame, PrivateFrame DEF IInv, Moves
  <1>12. Slices'
    <2>1. \A w \in Writers : pc[w] # "freeze"
      BY <1>4 DEF IInv, Locked
    <2> QED BY <1>2, <2>1 DEF IInv, Slices
  <1>13. Ticketed' /\ Supply'
    BY <1>2, <1>3, <1>6 DEF IInv, Ticketed, Supply
  <1>14. Drained'
    BY <1>1 DEF Drained, Moves
  <1> QED BY <1>3, <1>8, <1>9, <1>10, <1>11, <1>12, <1>13, <1>14 DEF IInv

\* Every step keeps the inductive invariant.
LEMMA NextInv == ASSUME IInv, [Next]_vars PROVE IInv'
  <1>1. ASSUME NEW a \in Adders, Add(a) PROVE IInv'
    BY <1>1, AddNodeLinkInv, AddNodeStoreInv, AddNodeNumberInv, TryApplyGlobalSliceInv,
       SkipGlobalSliceInv, ApplyGlobalSliceInv DEF Add
  <1>2. ASSUME NEW a \in Deleters, Delete(a) PROVE IInv'
    BY <1>2, ApplyDeleteOrUpdateInv, TakeSeqNoInv, GetBufferedUpdatesTermsSizeInv,
       ApplyAllDeletesInv DEF Delete
  <1>3. ASSUME NEW a \in Actors, Naked(a) PROVE IInv'
    BY <1>3, MaybeFreezeGlobalBufferInv, FreezeGlobalBufferInternalInv, AddNakedTicketInv DEF Naked
  <1>4. ASSUME NEW w \in Writers, Index(w) PROVE IInv'
    BY <1>4, NewSliceInv, ObtainAndLockInv, DeleteLastDocsInv, UpdateSliceInv, AddWithSliceInv,
       SetSliceTailInv, FinishUpdateInv DEF Index
  <1>5. ASSUME NEW w \in Writers, Flush(w) PROVE IInv'
    BY <1>5, CheckoutInv, AddTicketInv, FreezeGlobalBufferInv, PrepareFlushInv DEF Flush
  <1>6. CASE FlushAllThreads
    BY <1>6, AdvanceQueueInv, MarkDoneInv, FlushedAllInv, CloseInv DEF FlushAllThreads
  <1>7. CASE AbortAll
    BY <1>7, LockAndAbortAllInv, FinishAbortAllInv, AbortWriterInv DEF AbortAll
  <1>8. CASE UNCHANGED vars
    <2> USE <1>8 DEF vars
    <2>0. TypeOK'
      BY ZenonT(60) DEF IInv, TypeOK
    <2>1. Roles' /\ Locked' /\ Phases' /\ Supply'
      BY DEF IInv, Roles, Locked, Phases, Supply, Drawing
    <2>2. nextSeqNo' \in Nat /\ nextSeqNo' >= nextSeqNo
      BY DEF IInv, TypeOK
    <2>3. Order' /\ Slices' /\ Private'
      BY <2>2, OrderFrame, SlicesFrame, PrivateFrame DEF IInv
    <2>4. Stream' /\ Ticketed' /\ Drained'
      BY StreamFrame, TicketedFrame, DrainedFrame DEF IInv
    <2> QED BY <2>0, <2>1, <2>3, <2>4 DEF IInv
  <1> QED BY <1>1, <1>2, <1>3, <1>4, <1>5, <1>6, <1>7, <1>8 DEF Next

\* The inductive invariant holds in every reachable state.
THEOREM Invariant == Spec => []IInv
  <1>1. IInv /\ [Next]_vars => IInv'
    BY NextInv
  <1> QED BY InitInv, <1>1, PTL DEF Spec

-----------------------------------------------------------------------------
(* The properties of the delete queue.                                     *)

\* The state has its types, and the list is in the order of its sequence numbers.
THEOREM ListIsOrdered == Spec => []ListOK
  <1>1. IInv => ListOK
    BY DEF IInv, Order, ListOK
  <1> QED BY Invariant, <1>1, PTL

\* The sequence numbers returned to the callers show the effective order: the
\* segment of a DWPT gets exactly the updates with a number larger than its
\* document's.
THEOREM SequenceNumbersSerialize == Spec => []SerializedBySeqNo
  <1>1. ASSUME IInv PROVE SerializedBySeqNo
    <2> SUFFICES ASSUME NEW k \in 1..Len(tickets), tickets[k].writer \in Writers,
                        NEW i \in 1..Len(docs[tickets[k].writer]), docs[tickets[k].writer][i] > 0,
                        NEW n \in (1..tail) \ dropped, seqOf[n] > 0
                 PROVE  seqOf[n] > docs[tickets[k].writer][i]
                          <=> (i <= upto[tickets[k].writer][n] \/ n \notin Frozen(k))
      BY DEF SerializedBySeqNo
    <2> DEFINE w == tickets[k].writer
    <2>1. n \in Frozen(k) <=> n <= head[w]
      BY <1>1 DEF IInv, Ticketed
    <2>2. (seqOf[n] = 0 \/ seqOf[n] > docs[w][i]) <=> (i <= upto[w][n] \/ n > head[w])
      BY <1>1 DEF IInv, Private, InOrder
    <2>3. tail \in 0..MaxNodes /\ head \in [Writers -> 0..MaxNodes] /\ seqOf \in [Nodes -> Nat]
      BY <1>1 DEF IInv, TypeOK
    <2>4. n > head[w] <=> ~(n <= head[w])
      BY <2>3
    <2>5. seqOf[n] # 0
      BY <2>3
    <2> QED BY <2>1, <2>2, <2>4, <2>5
  <1> QED BY Invariant, <1>1, PTL

\* Every update passes through the global stream exactly once, and what a DWPT
\* applied privately is not published to its segment again.
THEOREM EveryUpdateOnce == Spec => []ExactlyOnce
  <1>1. ASSUME IInv PROVE ExactlyOnce
    <2>1. GlobalExactlyOnce
      BY <1>1 DEF IInv, Stream
    <2>2. NotAppliedTwice
      <3> SUFFICES ASSUME NEW k \in 1..Len(tickets), tickets[k].writer \in Writers,
                          NEW n \in Nodes, upto[tickets[k].writer][n] > 0,
                          NEW j \in (k + 1)..Len(tickets), n \in tickets[j].deletes
                   PROVE  FALSE
        BY DEF NotAppliedTwice
      <3> DEFINE w == tickets[k].writer
      <3>1. n <= head[w]
        BY <1>1 DEF IInv, Private
      <3>2. head[w] <= tail /\ n \in 1..tail
        <4>1. tail \in 0..MaxNodes /\ head \in [Writers -> 0..MaxNodes]
          BY <1>1 DEF IInv, TypeOK
        <4>2. head[w] <= tail
          BY <1>1 DEF IInv, Slices
        <4> QED BY <3>1, <4>1, <4>2
      <3>3. tickets \in Seq(Ticket)
        BY <1>1 DEF IInv, TypeOK
      <3>4. Len(tickets) \in Nat /\ j \in 1..Len(tickets)
        BY <3>3
      <3>5. n \in Frozen(Len(tickets))
        BY <3>4 DEF Frozen
      <3>6. n \notin dropped
        BY <2>1, <3>5 DEF GlobalExactlyOnce, FrozenByAll
      <3>7. n \in Frozen(k)
        BY <1>1, <3>1, <3>2, <3>6 DEF IInv, Ticketed
      <3>8. PICK i \in 1..k : n \in tickets[i].deletes
        BY <3>7 DEF Frozen
      <3>9. i \in 1..Len(tickets) /\ i # j
        BY <3>4
      <3> QED BY <2>1, <3>4, <3>8, <3>9 DEF GlobalExactlyOnce
    <2> QED BY <2>1, <2>2 DEF ExactlyOnce
  <1> QED BY Invariant, <1>1, PTL

\* No panic of the queue is reached: the numbers AdvanceQueue sets aside are
\* enough, the ends of a slice stay in order, and a closed queue is not used.
THEOREM NeverPanics == Spec => []NoPanic
  <1>1. IInv => NoPanic
    BY DEF IInv, Roles, NoPanic, Adding, Updating, Flushing, Ending
  <1> QED BY Invariant, <1>1, PTL

\* Close, whose error FlushAllThreads ignores, finds every update in a ticket.
THEOREM CloseLosesNothing == Spec => []NothingLostAtClose
  <1>1. IInv => NothingLostAtClose
    BY DEF IInv, Phases, Drained, NoChanges, Stream, GlobalExactlyOnce, NothingLostAtClose
  <1> QED BY Invariant, <1>1, PTL

\* The last step of LockAndAbortAll leaves no update behind that is not frozen.
THEOREM AbortLeavesNothing == Spec => AbortDropsAll
  <1> DEFINE A == pc[Flusher] = "aborting" /\ pc'[Flusher] = "idle" =>
                    gBuf' = {} /\ gTail' = tail' /\ 1..tail' = FrozenByAll' \cup dropped'
  <1>1. ASSUME IInv, [Next]_vars PROVE [A]_vars
    <2> SUFFICES ASSUME Next, pc[Flusher] = "aborting", pc'[Flusher] = "idle"
                 PROVE  gBuf' = {} /\ gTail' = tail' /\ 1..tail' = FrozenByAll' \cup dropped'
      BY <1>1
    <2>1. TypeOK
      BY <1>1 DEF IInv
    <2>2. CASE FinishAbortAll
      BY <1>1, <2>2, ClearStream, GotoMoves DEF FinishAbortAll, ticketVars, Moves, Clear, IInv
    <2>3. ASSUME NEW a \in Adders, NEW s, Goto(a, s) PROVE pc'[Flusher] = pc[Flusher]
      BY <2>1, <2>3 DEF TypeOK, Goto
    <2>4. ASSUME Panic PROVE pc'[Flusher] = "panic"
      BY <2>4 DEF Panic
    <2>5. \A a \in Adders : ~Add(a)
      BY <2>3, <2>4 DEF Add, AddNodeLink, AddNodeStore, AddNodeNumber, TryApplyGlobalSlice,
                        SkipGlobalSlice, ApplyGlobalSlice
    <2>6. \A a \in Deleters : ~Delete(a)
      BY <2>3, <2>4 DEF Delete, ApplyDeleteOrUpdate, TakeSeqNo, GetBufferedUpdatesTermsSize,
                        ApplyAllDeletes
    <2>7. \A w \in Writers : ~Index(w)
      BY <2>3, <2>4 DEF Index, NewSlice, ObtainAndLock, DeleteLastDocs, UpdateSlice, AddWithSlice,
                        SetSliceTail, FinishUpdate
    <2>8. \A w \in Writers : ~Flush(w)
      BY <2>3, <2>4 DEF Flush, Checkout, AddTicket, FreezeGlobalBuffer, PrepareFlush
    <2>9. \A a \in Actors : ~Naked(a)
      BY <2>3, <2>4 DEF Naked, MaybeFreezeGlobalBuffer, FreezeGlobalBufferInternal, AddNakedTicket
    <2>10. ~FlushAllThreads /\ ~LockAndAbortAll /\ \A w \in Writers : ~AbortWriter(w)
      BY <2>3, <2>4 DEF FlushAllThreads, AdvanceQueue, MarkDone, FlushedAll, Close, LockAndAbortAll,
                        AbortWriter
    <2>11. FinishAbortAll
      BY <2>5, <2>6, <2>7, <2>8, <2>9, <2>10 DEF Next, AbortAll
    <2> QED BY <2>2, <2>11
  <1> QED BY Invariant, <1>1, PTL DEF Spec, AbortDropsAll

=============================================================================
