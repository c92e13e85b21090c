----------------------------- MODULE SearchProofs -----------------------------
(***************************************************************************)
(* Proofs about the search side: SearcherManager, for any number of        *)
(* goroutines, readers and commits, and the reopen thread, for any number  *)
(* of waiters and generations.                                             *)
(***************************************************************************)
EXTENDS Searching, FiniteSetTheorems, TLAPS

USE BoundAssumption, NoneAssumption DEF Readers

-----------------------------------------------------------------------------
(* Counting.                                                               *)

\* The sizes of two finite sets that differ in one element at most.
LEMMA CountChange ==
  ASSUME NEW F, NEW G, IsFiniteSet(F), IsFiniteSet(G), NEW x, F \ {x} = G \ {x}
  PROVE  Cardinality(G) + (IF x \in F THEN 1 ELSE 0) = Cardinality(F) + (IF x \in G THEN 1 ELSE 0)
  <1>1. Cardinality(F) \in Nat /\ Cardinality(G) \in Nat
    BY FS_CardinalityType
  <1>2. Cardinality(F \ {x}) = IF x \in F THEN Cardinality(F) - 1 ELSE Cardinality(F)
    BY FS_RemoveElement
  <1>3. Cardinality(G \ {x}) = IF x \in G THEN Cardinality(G) - 1 ELSE Cardinality(G)
    BY FS_RemoveElement
  <1>4. Cardinality(F \ {x}) = Cardinality(G \ {x})
    OBVIOUS
  <1> DEFINE f == Cardinality(F)
             g == Cardinality(G)
             n == Cardinality(F \ {x})
  <1>5. n = (IF x \in F THEN f - 1 ELSE f) /\ n = (IF x \in G THEN g - 1 ELSE g) /\ f \in Nat /\ g \in Nat
    BY <1>1, <1>2, <1>3, <1>4
  <1> HIDE DEF f, g, n
  <1>6. g + (IF x \in F THEN 1 ELSE 0) = f + (IF x \in G THEN 1 ELSE 0)
    BY <1>5
  <1> QED BY <1>6 DEF f, g

\* A value taken somewhere is counted, one taken nowhere is not.
LEMMA CountPositive ==
  ASSUME NEW S, IsFiniteSet(S), NEW f, NEW r
  PROVE  /\ Cardinality({y \in S : f[y] = r}) \in Nat
         /\ Cardinality({y \in S : f[y] = r}) = 0 <=> \A y \in S : f[y] # r
  <1> DEFINE F == {y \in S : f[y] = r}
  <1>1. IsFiniteSet(F)
    BY FS_Subset
  <1>2. Cardinality(F) \in Nat
    BY <1>1, FS_CardinalityType
  <1>3. Cardinality(F) = 0 <=> F = {}
    BY <1>1, FS_EmptySet
  <1> QED BY <1>2, <1>3

-----------------------------------------------------------------------------
(* SearcherManager.                                                        *)

Holders(r) == Cardinality({s \in Searchers : hold[s] = r})
Renewers(r) == Cardinality({p \in Refreshers : mine[p] = r})
Managed(r) == IF r = current THEN 1 ELSE 0
GivenUp(r) == IF r = atClose THEN 1 ELSE 0

\* A reader nobody but its refresher knows of yet.
Fresh(p) ==
  /\ mine[p] # current
  /\ \A s \in Searchers : hold[s] # mine[p]
  /\ \A q \in Refreshers : q # p => mine[q] # mine[p]

\* The count of a reader is the number of references due, until none is: then
\* it is closed for good.
Counted(r) == refs[r] = Due(r) \/ (Due(r) <= 0 /\ refs[r] <= 0)

\* Readers are numbered as they are opened.
Numbered == Cardinality(opened) \in Nat /\ opened = 0 .. (Cardinality(opened) - 1)

\* The inductive invariant.  Without the refresher's monopoly on the reader
\* it has opened, dropping that reader twice would close it under somebody.
SearchInv ==
  /\ TypeOK /\ Numbered
  /\ \A r \in opened : Counted(r)
  /\ \A p \in Refreshers : pc[p] \in {"searcher", "swap"} => Fresh(p)

\* The owners of a reader by kind, and what is due to them.
Kinds ==
  \A r : /\ Holders(r) \in Nat /\ Renewers(r) \in Nat /\ Managed(r) \in {0, 1}
         /\ Owners(r) = Holders(r) + Renewers(r) + Managed(r)
         /\ Owners(r) \in Nat /\ GivenUp(r) \in {0, 1}
         /\ Due(r) = Owners(r) - GivenUp(r) /\ Due(r) \in Int

\* In every state each reader has its owners of three kinds.
LEMMA OwnersAre == Kinds /\ Kinds'
  <1>1. ASSUME NEW r
        PROVE  /\ Holders(r) \in Nat /\ Renewers(r) \in Nat /\ Managed(r) \in {0, 1}
               /\ Owners(r) = Holders(r) + Renewers(r) + Managed(r)
               /\ Owners(r) \in Nat /\ GivenUp(r) \in {0, 1}
               /\ Due(r) = Owners(r) - GivenUp(r) /\ Due(r) \in Int
    <2>1. Holders(r) \in Nat /\ Renewers(r) \in Nat
      BY FiniteAssumption, CountPositive DEF Holders, Renewers
    <2>2. Managed(r) \in {0, 1} /\ GivenUp(r) \in {0, 1}
      BY DEF Managed, GivenUp
    <2>3. Owners(r) = Holders(r) + Renewers(r) + Managed(r) /\ Due(r) = Owners(r) - GivenUp(r)
      BY DEF Owners, Holders, Renewers, Managed, Due, GivenUp
    <2> QED BY <2>1, <2>2, <2>3
  <1>2. ASSUME NEW r
        PROVE  (/\ Holders(r) \in Nat /\ Renewers(r) \in Nat /\ Managed(r) \in {0, 1}
                /\ Owners(r) = Holders(r) + Renewers(r) + Managed(r)
                /\ Owners(r) \in Nat /\ GivenUp(r) \in {0, 1}
                /\ Due(r) = Owners(r) - GivenUp(r) /\ Due(r) \in Int)'
    <2>1. Holders(r)' \in Nat /\ Renewers(r)' \in Nat
      BY FiniteAssumption, CountPositive DEF Holders, Renewers
    <2>2. Managed(r)' \in {0, 1} /\ GivenUp(r)' \in {0, 1}
      BY DEF Managed, GivenUp
    <2>3. Owners(r)' = Holders(r)' + Renewers(r)' + Managed(r)' /\ Due(r)' = Owners(r)' - GivenUp(r)'
      BY DEF Owners, Holders, Renewers, Managed, Due, GivenUp
    <2> QED BY <2>1, <2>2, <2>3
  <1> QED BY <1>1, <1>2 DEF Kinds

\* One goroutine acquires or releases a reader.
LEMMA HoldersChange ==
  ASSUME NEW s \in Searchers, \A t \in Searchers : t # s => hold'[t] = hold[t], NEW r
  PROVE  Holders(r)' + (IF hold[s] = r THEN 1 ELSE 0) = Holders(r) + (IF hold'[s] = r THEN 1 ELSE 0)
  <1> DEFINE F == {y \in Searchers : hold[y] = r}
             G == {y \in Searchers : hold'[y] = r}
  <1>1. IsFiniteSet(F) /\ IsFiniteSet(G)
    BY FiniteAssumption, FS_Subset
  <1>2. F \ {s} = G \ {s} /\ (s \in F <=> hold[s] = r) /\ (s \in G <=> hold'[s] = r)
    OBVIOUS
  <1> HIDE DEF F, G
  <1>3. Cardinality(G) + (IF s \in F THEN 1 ELSE 0) = Cardinality(F) + (IF s \in G THEN 1 ELSE 0)
    BY <1>1, <1>2, CountChange
  <1> QED BY <1>2, <1>3 DEF F, G, Holders

\* One refresher takes or gives up a reader.
LEMMA RenewersChange ==
  ASSUME NEW p \in Refreshers, \A q \in Refreshers : q # p => mine'[q] = mine[q], NEW r
  PROVE  Renewers(r)' + (IF mine[p] = r THEN 1 ELSE 0) = Renewers(r) + (IF mine'[p] = r THEN 1 ELSE 0)
  <1> DEFINE F == {y \in Refreshers : mine[y] = r}
             G == {y \in Refreshers : mine'[y] = r}
  <1>1. IsFiniteSet(F) /\ IsFiniteSet(G)
    BY FiniteAssumption, FS_Subset
  <1>2. F \ {p} = G \ {p} /\ (p \in F <=> mine[p] = r) /\ (p \in G <=> mine'[p] = r)
    OBVIOUS
  <1> HIDE DEF F, G
  <1>3. Cardinality(G) + (IF p \in F THEN 1 ELSE 0) = Cardinality(F) + (IF p \in G THEN 1 ELSE 0)
    BY <1>1, <1>2, CountChange
  <1> QED BY <1>2, <1>3 DEF F, G, Renewers

\* A reader somebody has is counted.
LEMMA OwnerCounted ==
  ASSUME NEW r
  PROVE  /\ \A s \in Searchers : hold[s] = r => Holders(r) >= 1
         /\ \A p \in Refreshers : mine[p] = r => Renewers(r) >= 1
         /\ (\A s \in Searchers : hold[s] # r) => Holders(r) = 0
         /\ (\A p \in Refreshers : mine[p] # r) => Renewers(r) = 0
  <1>1. Holders(r) \in Nat /\ (Holders(r) = 0 <=> \A s \in Searchers : hold[s] # r)
    BY FiniteAssumption, CountPositive DEF Holders
  <1>2. Renewers(r) \in Nat /\ (Renewers(r) = 0 <=> \A p \in Refreshers : mine[p] # r)
    BY FiniteAssumption, CountPositive DEF Renewers
  <1> QED BY <1>1, <1>2

-----------------------------------------------------------------------------
(* The parts of the type invariant the proofs below use.                   *)

\* What the type invariant says of a state.
LEMMA TypeFacts ==
  ASSUME SearchInv
  PROVE  /\ refs \in [Readers -> Int] /\ opened \subseteq Readers
         /\ current \in opened /\ \A r \in opened : refs[r] \in Int
         /\ hold \in [Searchers -> opened \cup {None}]
         /\ mine \in [Refreshers -> opened \cup {None}]
         /\ pc \in [Refreshers -> {"idle", "open", "searcher", "swap", "release"}]
         /\ None \notin opened
         /\ atClose \in opened \cup {None} /\ (closed <=> atClose # None)
  BY DEF SearchInv, TypeOK

\* At the start the manager has the one reference there is.
LEMMA SearchInitInv == Init => SearchInv
  <1> SUFFICES ASSUME Init PROVE SearchInv
    OBVIOUS
  <1>1. TypeOK
    <2>1. closed \in BOOLEAN
      BY Zenon DEF Init
    <2> QED BY <2>1 DEF Init, TypeOK
  <1>2. opened = {0} /\ Cardinality(opened) = 1
    BY FS_Singleton DEF Init
  <1>3. Numbered
    BY <1>2 DEF Numbered
  <1>4. Due(0) = 1 /\ refs[0] = 1
    <2>1. Holders(0) = 0 /\ Renewers(0) = 0
      <3>1. (\A s \in Searchers : hold[s] # 0) /\ (\A p \in Refreshers : mine[p] # 0)
        BY DEF Init
      <3> QED BY <3>1, OwnerCounted
    <2>2. Managed(0) = 1 /\ refs[0] = 1 /\ GivenUp(0) = 0
      BY DEF Init, Managed, GivenUp
    <2> QED BY <2>1, <2>2, OwnersAre DEF Kinds
  <1> QED BY <1>1, <1>2, <1>3, <1>4 DEF SearchInv, Init, Counted

-----------------------------------------------------------------------------
(* Actions.                                                                *)

\* A commit of the index does not concern the manager.
LEMMA CommitInv == ASSUME SearchInv, Commit PROVE SearchInv'
  <1>1. TypeOK'
    BY DEF Commit, SearchInv, TypeOK, refreshing
  <1>2. \A r : Due(r)' = Due(r)
    BY DEF Commit, Owners, Due, refreshing
  <1> QED BY <1>1, <1>2 DEF Commit, SearchInv, Numbered, Counted, Fresh, refreshing

\* Acquire finds the current reader open, because the manager has a reference.
LEMMA AcquireInv == ASSUME SearchInv, NEW s \in Searchers, Acquire(s) PROVE SearchInv'
  <1>0. /\ current \in opened /\ \A r \in opened : r \in Readers /\ refs[r] \in Int
        /\ refs \in [Readers -> Int] /\ hold \in [Searchers -> opened \cup {None}] /\ None \notin opened
        /\ (closed <=> atClose # None)
    BY TypeFacts
  <1>1. /\ ~closed /\ hold[s] = None /\ UNCHANGED <<opened, version, commits, current, closed, atClose, pc, want, mine>>
        /\ hold' = [hold EXCEPT ![s] = current] /\ refs' = IncRef(current)
    BY DEF Acquire, refreshing
  <1>2. hold'[s] = current /\ \A t \in Searchers : t # s => hold'[t] = hold[t]
    BY <1>0, <1>1
  <1>3. ASSUME NEW r \in opened PROVE Counted(r)'
    <2>1. Holders(r)' = Holders(r) + (IF r = current THEN 1 ELSE 0)
      <3>1. Holders(r)' + (IF hold[s] = r THEN 1 ELSE 0) = Holders(r) + (IF hold'[s] = r THEN 1 ELSE 0)
        BY <1>2, HoldersChange
      <3>2. hold[s] # r /\ hold'[s] = current
        BY <1>0, <1>1, <1>2
      <3> QED BY <3>1, <3>2, OwnersAre DEF Kinds
    <2>2. Renewers(r)' = Renewers(r) /\ Managed(r)' = Managed(r) /\ GivenUp(r)' = GivenUp(r)
      BY <1>1 DEF Renewers, Managed, GivenUp
    <2>3. Due(r)' = Due(r) + (IF r = current THEN 1 ELSE 0)
      BY <2>1, <2>2, OwnersAre DEF Kinds
    <2>4. Counted(r) /\ Due(r) \in Int /\ refs[r] \in Int
      BY <1>0, OwnersAre DEF SearchInv, Kinds
    <2>5. CASE r = current
      <3>0. Managed(r) = 1 /\ GivenUp(r) = 0
        BY <1>0, <1>1, <2>5 DEF Managed, GivenUp
      <3>1. Due(r) >= 1
        BY <3>0, OwnersAre DEF Kinds
      <3>2. refs[r] = Due(r)
        BY <2>4, <3>1 DEF Counted
      <3>3. refs'[r] = refs[r] + 1
        BY <1>0, <1>1, <2>5, <3>1, <3>2 DEF IncRef
      <3> QED BY <2>3, <2>5, <3>2, <3>3 DEF Counted
    <2>6. CASE r # current
      <3>1. refs'[r] = refs[r]
        BY <1>0, <1>1, <2>6 DEF IncRef
      <3> QED BY <2>3, <2>4, <2>6, <3>1 DEF Counted
    <2> QED BY <2>5, <2>6
  <1>4. TypeOK'
    <2>1. hold' \in [Searchers -> opened' \cup {None}]
      BY <1>0, <1>1
    <2>2. refs' \in [Readers -> Int]
      BY <1>0, <1>1 DEF IncRef
    <2> QED BY <1>1, <2>1, <2>2 DEF SearchInv, TypeOK
  <1>5. \A p \in Refreshers : pc'[p] \in {"searcher", "swap"} => Fresh(p)'
    BY <1>1, <1>2 DEF SearchInv, Fresh
  <1> QED BY <1>1, <1>3, <1>4, <1>5 DEF SearchInv, Numbered

\* Release drops the reference of the goroutine, and no other.
LEMMA ReleaseInv == ASSUME SearchInv, NEW s \in Searchers, Release(s) PROVE SearchInv'
  <1>0. /\ \A r \in opened : r \in Readers /\ refs[r] \in Int
        /\ refs \in [Readers -> Int] /\ hold \in [Searchers -> opened \cup {None}] /\ None \notin opened
    BY TypeFacts
  <1>1. /\ hold[s] # None /\ UNCHANGED <<opened, version, commits, current, closed, atClose, pc, want, mine>>
        /\ hold' = [hold EXCEPT ![s] = None] /\ refs' = DecRef(hold[s])
    BY DEF Release, refreshing
  <1>2. /\ hold[s] \in opened /\ hold'[s] = None /\ \A t \in Searchers : t # s => hold'[t] = hold[t]
    BY <1>0, <1>1
  <1>3. ASSUME NEW r \in opened PROVE Counted(r)'
    <2>1. Holders(r)' + (IF hold[s] = r THEN 1 ELSE 0) = Holders(r)
      <3>1. Holders(r)' + (IF hold[s] = r THEN 1 ELSE 0) = Holders(r) + (IF hold'[s] = r THEN 1 ELSE 0)
        BY <1>2, HoldersChange
      <3> QED BY <3>1, <1>0, <1>2, OwnersAre DEF Kinds
    <2>2. Renewers(r)' = Renewers(r) /\ Managed(r)' = Managed(r) /\ GivenUp(r)' = GivenUp(r)
      BY <1>1 DEF Renewers, Managed, GivenUp
    <2>3. Due(r)' + (IF hold[s] = r THEN 1 ELSE 0) = Due(r)
      BY <2>1, <2>2, OwnersAre DEF Kinds
    <2>4. Counted(r) /\ Due(r) \in Int /\ Due(r)' \in Int /\ refs[r] \in Int
      BY <1>0, OwnersAre DEF SearchInv, Kinds
    <2>5. refs'[r] = IF hold[s] = r THEN refs[r] - 1 ELSE refs[r]
      BY <1>0, <1>1, <1>2 DEF DecRef
    <2> QED BY <2>3, <2>4, <2>5 DEF Counted
  <1>4. TypeOK'
    <2>1. hold' \in [Searchers -> opened' \cup {None}]
      BY <1>0, <1>1
    <2>2. refs' \in [Readers -> Int]
      BY <1>0, <1>1, <1>2 DEF DecRef
    <2> QED BY <1>1, <2>1, <2>2 DEF SearchInv, TypeOK
  <1>5. \A p \in Refreshers : pc'[p] \in {"searcher", "swap"} => Fresh(p)'
    <2> SUFFICES ASSUME NEW p \in Refreshers, pc[p] \in {"searcher", "swap"} PROVE Fresh(p)'
      BY <1>1
    <2>1. mine[p] # None /\ Fresh(p)
      BY DEF SearchInv, TypeOK
    <2> QED BY <1>1, <1>2, <2>1 DEF Fresh
  <1> QED BY <1>1, <1>3, <1>4, <1>5 DEF SearchInv, Numbered

\* Close drops the manager's reference, whatever refresh is under way.
LEMMA CloseInv == ASSUME SearchInv, Close PROVE SearchInv'
  <1>0. /\ current \in opened /\ \A r \in opened : r \in Readers /\ refs[r] \in Int
        /\ refs \in [Readers -> Int] /\ None \notin opened /\ (closed <=> atClose # None)
    BY TypeFacts
  <1>1. /\ ~closed /\ closed' /\ closed' \in BOOLEAN /\ UNCHANGED <<opened, version, commits, current, hold, pc, want, mine>>
        /\ refs' = DecRef(current) /\ atClose' = current
    BY Zenon DEF Close, refreshing
  <1>3. ASSUME NEW r \in opened PROVE Counted(r)'
    <2>1. Holders(r)' = Holders(r) /\ Renewers(r)' = Renewers(r) /\ Managed(r)' = Managed(r)
      BY <1>1 DEF Renewers, Holders, Managed
    <2>2. GivenUp(r) = 0 /\ GivenUp(r)' = (IF r = current THEN 1 ELSE 0)
      BY <1>0, <1>1 DEF GivenUp
    <2>3. Due(r)' + (IF r = current THEN 1 ELSE 0) = Due(r)
      BY <2>1, <2>2, OwnersAre DEF Kinds
    <2>4. Counted(r) /\ Due(r) \in Int /\ Due(r)' \in Int /\ refs[r] \in Int
      BY <1>0, OwnersAre DEF SearchInv, Kinds
    <2>5. refs'[r] = IF r = current THEN refs[r] - 1 ELSE refs[r]
      BY <1>0, <1>1 DEF DecRef
    <2> QED BY <2>3, <2>4, <2>5 DEF Counted
  <1>4. TypeOK'
    <2>2. refs' \in [Readers -> Int]
      BY <1>0, <1>1 DEF DecRef
    <2> QED BY <1>0, <1>1, <2>2 DEF SearchInv, TypeOK
  <1> QED BY <1>1, <1>3, <1>4 DEF SearchInv, Numbered, Fresh
-----------------------------------------------------------------------------
(* MaybeRefresh.                                                           *)

\* A refresher goes on.
LEMMA Moves ==
  ASSUME SearchInv, NEW p \in Refreshers, NEW to \in {"idle", "open", "searcher", "swap", "release"},
         Goto(p, to)
  PROVE  /\ pc' \in [Refreshers -> {"idle", "open", "searcher", "swap", "release"}]
         /\ pc'[p] = to /\ \A q \in Refreshers : q # p => pc'[q] = pc[q]
  BY TypeFacts DEF Goto

\* The steps of MaybeRefresh that concern no reader.
LEMMA QuietInv ==
  ASSUME SearchInv, NEW p \in Refreshers, NEW to \in {"idle", "open", "swap"}, Goto(p, to),
         UNCHANGED <<manager, hold, mine>>, want' \in [Refreshers -> 0 .. MaxCommits],
         pc[p] \in {"idle", "open"} <=> to \in {"idle", "open"},
         to = "swap" => pc[p] = "searcher"
  PROVE  SearchInv'
  <1>1. /\ UNCHANGED <<refs, opened, version, commits, current, closed, atClose, hold, mine>>
        /\ pc' \in [Refreshers -> {"idle", "open", "searcher", "swap", "release"}]
        /\ pc'[p] = to /\ \A q \in Refreshers : q # p => pc'[q] = pc[q]
    BY Moves DEF manager
  <1>2. TypeOK'
    <2>1. \A q \in Refreshers : mine'[q] = None <=> pc'[q] \in {"idle", "open"}
      BY <1>1 DEF SearchInv, TypeOK
    <2> QED BY <1>1, <2>1 DEF SearchInv, TypeOK
  <1>3. \A r : Due(r)' = Due(r)
    BY <1>1 DEF Owners, Due
  <1>4. \A r \in opened' : Counted(r)'
    BY <1>1, <1>3 DEF SearchInv, Counted
  <1>5. \A q \in Refreshers : pc'[q] \in {"searcher", "swap"} => Fresh(q)'
    <2>1. \A q \in Refreshers : pc'[q] \in {"searcher", "swap"} => pc[q] \in {"searcher", "swap"}
      BY <1>1
    <2> QED BY <1>1, <2>1 DEF SearchInv, Fresh
  <1> QED BY <1>1, <1>2, <1>4, <1>5 DEF SearchInv, Numbered

\* MaybeRefresh begins.
LEMMA SupplyInv == ASSUME SearchInv, NEW p \in Refreshers, Supply(p) PROVE SearchInv'
  <1>1. want' \in [Refreshers -> 0 .. MaxCommits]
    BY DEF Supply, SearchInv, TypeOK
  <1> QED BY <1>1, QuietInv DEF Supply

\* No reader could be opened.
LEMMA ReopenFailsInv == ASSUME SearchInv, NEW p \in Refreshers, ReopenFails(p) PROVE SearchInv'
  <1>1. want' \in [Refreshers -> 0 .. MaxCommits]
    BY DEF ReopenFails, SearchInv, TypeOK
  <1> QED BY <1>1, QuietInv DEF ReopenFails

\* The searcher over the new reader is made.
LEMMA NewSearcherInv == ASSUME SearchInv, NEW p \in Refreshers, NewSearcher(p) PROVE SearchInv'
  <1>1. want' \in [Refreshers -> 0 .. MaxCommits]
    BY DEF NewSearcher, SearchInv, TypeOK
  <1> QED BY <1>1, QuietInv DEF NewSearcher

\* The new reader has its refresher as its one owner.
LEMMA ReopenInv == ASSUME SearchInv, NEW p \in Refreshers, Reopen(p) PROVE SearchInv'
  <1> DEFINE n == Cardinality(opened)
  <1>0. /\ current \in opened /\ opened \subseteq Readers /\ \A r \in opened : refs[r] \in Int
        /\ refs \in [Readers -> Int] /\ hold \in [Searchers -> opened \cup {None}]
        /\ mine \in [Refreshers -> opened \cup {None}] /\ None \notin Readers
        /\ atClose \in opened \cup {None}
    BY TypeFacts
  <1>1. /\ n \in Nat /\ opened = 0 .. (n - 1) /\ n <= MaxReaders /\ n \notin opened /\ n \in Readers
        /\ opened' = 0 .. n /\ IsFiniteSet(opened)
    <2>1. n \in Nat /\ opened = 0 .. (n - 1)
      BY DEF SearchInv, Numbered
    <2>2. n <= MaxReaders /\ opened' = opened \cup {n}
      BY DEF Reopen
    <2>3. IsFiniteSet(opened)
      BY <2>1, FS_Interval
    <2> HIDE DEF n
    <2> QED BY <2>1, <2>2, <2>3
  <1>2. Cardinality(opened') = n + 1
    BY <1>1, FS_AddElement DEF Reopen
  <1>3. /\ pc[p] = "open" /\ UNCHANGED <<commits, current, closed, atClose, hold, want>>
        /\ refs' = [refs EXCEPT ![n] = 1] /\ version' = [version EXCEPT ![n] = want[p]]
        /\ mine' = [mine EXCEPT ![p] = n] /\ opened' = opened \cup {n} /\ Goto(p, "searcher")
    BY DEF Reopen
  <1> HIDE DEF n
  <1>4. /\ pc' \in [Refreshers -> {"idle", "open", "searcher", "swap", "release"}]
        /\ pc'[p] = "searcher" /\ \A q \in Refreshers : q # p => pc'[q] = pc[q]
    BY <1>3, Moves
  <1>5. mine[p] = None
    BY <1>3 DEF SearchInv, TypeOK
  <1>6. mine'[p] = n /\ \A q \in Refreshers : q # p => mine'[q] = mine[q]
    BY <1>0, <1>3
  <1>7. ASSUME NEW r \in opened' PROVE Counted(r)'
    <2>1. r \in Readers /\ r # None
      BY <1>0, <1>1, <1>3
    <2>2. Holders(r)' = Holders(r) /\ Managed(r)' = Managed(r) /\ GivenUp(r)' = GivenUp(r)
      BY <1>3 DEF Holders, Managed, GivenUp
    <2>3. Renewers(r)' = Renewers(r) + (IF r = n THEN 1 ELSE 0)
      <3>1. Renewers(r)' + (IF mine[p] = r THEN 1 ELSE 0) = Renewers(r) + (IF mine'[p] = r THEN 1 ELSE 0)
        BY <1>6, RenewersChange
      <3> QED BY <1>5, <1>6, <2>1, <3>1, OwnersAre DEF Kinds
    <2>4. CASE r = n
      <3>1. Holders(r) = 0 /\ Renewers(r) = 0
        <4>1. \A s \in Searchers : hold[s] # n
          BY <1>0, <1>1
        <4>2. \A q \in Refreshers : mine[q] # n
          BY <1>0, <1>1
        <4> QED BY <2>4, <4>1, <4>2, OwnerCounted
      <3>2. Managed(r) = 0 /\ GivenUp(r) = 0
        BY <1>0, <1>1, <2>4 DEF Managed, GivenUp
      <3>3. Due(r)' = 1
        BY <2>2, <2>3, <2>4, <3>1, <3>2, OwnersAre DEF Kinds
      <3>4. refs'[r] = 1
        BY <1>0, <1>1, <1>3, <2>4
      <3> QED BY <3>3, <3>4 DEF Counted
    <2>5. CASE r # n
      <3>1. Due(r)' = Due(r)
        BY <2>2, <2>3, <2>5, OwnersAre DEF Kinds
      <3>2. refs'[r] = refs[r] /\ r \in opened
        BY <1>0, <1>3, <2>5
      <3> QED BY <3>1, <3>2 DEF Counted, SearchInv
    <2> QED BY <2>4, <2>5
  <1>8. TypeOK'
    <2>1. refs' \in [Readers -> Int] /\ opened' \in SUBSET Readers /\ current' \in opened'
      BY <1>0, <1>1, <1>3
    <2>2. version' \in [Readers -> 0 .. MaxCommits] /\ commits' \in 0 .. MaxCommits
      BY <1>3 DEF SearchInv, TypeOK
    <2>3. hold' \in [Searchers -> opened' \cup {None}]
      BY <1>0, <1>3
    <2>4. mine' \in [Refreshers -> opened' \cup {None}]
      BY <1>0, <1>3
    <2>5. \A q \in Refreshers : mine'[q] = None <=> pc'[q] \in {"idle", "open"}
      <3>1. n # None
        BY <1>0, <1>1
      <3> QED BY <1>4, <1>6, <3>1 DEF SearchInv, TypeOK
    <2>6. /\ closed' \in BOOLEAN /\ want' \in [Refreshers -> 0 .. MaxCommits]
          /\ atClose' \in opened' \cup {None} /\ (closed' <=> atClose' # None)
      BY <1>3 DEF SearchInv, TypeOK
    <2> QED BY <1>4, <2>1, <2>2, <2>3, <2>4, <2>5, <2>6 DEF TypeOK
  <1>9. Numbered'
    BY <1>1, <1>2 DEF Numbered
  <1>10. ASSUME NEW q \in Refreshers, pc'[q] \in {"searcher", "swap"} PROVE Fresh(q)'
    <2>1. n # current /\ (\A s \in Searchers : hold[s] # n) /\ (\A u \in Refreshers : mine[u] # n)
      BY <1>0, <1>1
    <2>2. CASE q = p
      BY <1>3, <1>6, <2>1, <2>2 DEF Fresh
    <2>3. CASE q # p
      <3>1. Fresh(q) /\ mine[q] # n
        BY <1>4, <1>10, <2>1, <2>3 DEF SearchInv
      <3> QED BY <1>3, <1>6, <2>3, <3>1 DEF Fresh
    <2> QED BY <2>2, <2>3
  <1> QED BY <1>3, <1>5, <1>7, <1>8, <1>9, <1>10 DEF SearchInv

\* The factory fails: the reader nobody else knows of is closed.
LEMMA NewSearcherFailsInv == ASSUME SearchInv, NEW p \in Refreshers, NewSearcherFails(p) PROVE SearchInv'
  <1>0. /\ \A r \in opened : r \in Readers /\ refs[r] \in Int
        /\ refs \in [Readers -> Int] /\ mine \in [Refreshers -> opened \cup {None}] /\ None \notin opened
    BY TypeFacts
  <1>1. /\ pc[p] = "searcher" /\ UNCHANGED <<opened, version, commits, current, closed, atClose, hold, want>>
        /\ refs' = [refs EXCEPT ![mine[p]] = @ - 2] /\ mine' = [mine EXCEPT ![p] = None] /\ Goto(p, "idle")
    BY DEF NewSearcherFails
  <1>2. /\ pc' \in [Refreshers -> {"idle", "open", "searcher", "swap", "release"}]
        /\ pc'[p] = "idle" /\ \A q \in Refreshers : q # p => pc'[q] = pc[q]
    BY <1>1, Moves
  <1>3. mine[p] # None /\ Fresh(p)
    BY <1>1 DEF SearchInv, TypeOK
  <1>4. mine[p] \in opened /\ mine'[p] = None /\ \A q \in Refreshers : q # p => mine'[q] = mine[q]
    BY <1>0, <1>1, <1>3
  <1>5. ASSUME NEW r \in opened PROVE Counted(r)'
    <2>1. Holders(r)' = Holders(r) /\ Managed(r)' = Managed(r) /\ GivenUp(r)' = GivenUp(r)
      BY <1>1 DEF Holders, Managed, GivenUp
    <2>2. Renewers(r)' + (IF mine[p] = r THEN 1 ELSE 0) = Renewers(r)
      <3>1. Renewers(r)' + (IF mine[p] = r THEN 1 ELSE 0) = Renewers(r) + (IF mine'[p] = r THEN 1 ELSE 0)
        BY <1>4, RenewersChange
      <3> QED BY <1>0, <1>4, <3>1, OwnersAre DEF Kinds
    <2>3. Due(r)' + (IF mine[p] = r THEN 1 ELSE 0) = Due(r)
      BY <2>1, <2>2, OwnersAre DEF Kinds
    <2>4. Counted(r) /\ Due(r) \in Int /\ Due(r)' \in Int /\ refs[r] \in Int
      BY <1>0, OwnersAre DEF SearchInv, Kinds
    <2>5. CASE r = mine[p]
      <3>1. Holders(r) = 0 /\ Managed(r) = 0
        BY <1>3, <2>5, OwnerCounted DEF Fresh, Managed
      <3>2. Renewers(r) <= 1
        <4>1. Renewers(r) = Cardinality({p})
          <5>1. {q \in Refreshers : mine[q] = r} = {p}
            BY <1>3, <2>5 DEF Fresh
          <5> QED BY <5>1 DEF Renewers
        <4> QED BY <4>1, FS_Singleton
      <3>3. Due(r) <= 1 /\ Due(r)' <= 0
        BY <2>3, <2>4, <2>5, <3>1, <3>2, OwnersAre DEF Kinds
      <3>4. refs'[r] = refs[r] - 2
        BY <1>0, <1>1, <2>5
      <3> QED BY <2>4, <3>3, <3>4 DEF Counted
    <2>6. CASE r # mine[p]
      <3>1. refs'[r] = refs[r]
        BY <1>0, <1>1, <2>6
      <3> QED BY <2>3, <2>4, <2>6, <3>1 DEF Counted
    <2> QED BY <2>5, <2>6
  <1>6. TypeOK'
    <2>1. refs' \in [Readers -> Int]
      BY <1>0, <1>1, <1>4
    <2>2. mine' \in [Refreshers -> opened' \cup {None}]
      BY <1>0, <1>1
    <2>3. \A q \in Refreshers : mine'[q] = None <=> pc'[q] \in {"idle", "open"}
      BY <1>2, <1>4 DEF SearchInv, TypeOK
    <2> QED BY <1>1, <1>2, <2>1, <2>2, <2>3 DEF SearchInv, TypeOK
  <1>7. ASSUME NEW q \in Refreshers, pc'[q] \in {"searcher", "swap"} PROVE Fresh(q)'
    <2>1. q # p /\ Fresh(q) /\ mine[q] # None
      BY <1>2, <1>7 DEF SearchInv, TypeOK
    <2> QED BY <1>1, <1>4, <2>1 DEF Fresh
  <1> QED BY <1>1, <1>3, <1>5, <1>6, <1>7 DEF SearchInv, Numbered

\* The manager's reference and the refresher's change places.
LEMMA SwapInv == ASSUME SearchInv, NEW p \in Refreshers, Swap(p) PROVE SearchInv'
  <1>0. /\ mine \in [Refreshers -> opened \cup {None}] /\ None \notin opened /\ current \in opened
    BY TypeFacts
  <1>1. /\ pc[p] = "swap" /\ UNCHANGED <<refs, opened, version, commits, closed, atClose, hold, want>>
        /\ current' = mine[p] /\ mine' = [mine EXCEPT ![p] = current] /\ Goto(p, "release")
    BY DEF Swap
  <1>2. /\ pc' \in [Refreshers -> {"idle", "open", "searcher", "swap", "release"}]
        /\ pc'[p] = "release" /\ \A q \in Refreshers : q # p => pc'[q] = pc[q]
    BY <1>1, Moves
  <1>3. mine[p] # None /\ Fresh(p)
    BY <1>1 DEF SearchInv, TypeOK
  <1>4. mine[p] \in opened /\ mine'[p] = current /\ \A q \in Refreshers : q # p => mine'[q] = mine[q]
    BY <1>0, <1>1, <1>3
  <1>5. ASSUME NEW r \in opened PROVE Counted(r)'
    <2>1. Holders(r)' = Holders(r) /\ GivenUp(r)' = GivenUp(r)
      BY <1>1 DEF Holders, GivenUp
    <2>2. Renewers(r)' + (IF mine[p] = r THEN 1 ELSE 0) = Renewers(r) + (IF current = r THEN 1 ELSE 0)
      BY <1>4, RenewersChange
    <2>3. Managed(r) = (IF current = r THEN 1 ELSE 0) /\ Managed(r)' = (IF mine[p] = r THEN 1 ELSE 0)
      BY <1>1, <1>3 DEF Managed
    <2>4. Due(r)' = Due(r)
      BY <2>1, <2>2, <2>3, OwnersAre DEF Kinds
    <2> QED BY <1>1, <2>4 DEF SearchInv, Counted
  <1>6. TypeOK'
    <2>2. mine' \in [Refreshers -> opened' \cup {None}]
      BY <1>0, <1>1
    <2>3. \A q \in Refreshers : mine'[q] = None <=> pc'[q] \in {"idle", "open"}
      BY <1>0, <1>2, <1>4 DEF SearchInv, TypeOK
    <2> QED BY <1>1, <1>2, <1>4, <2>2, <2>3 DEF SearchInv, TypeOK
  <1>7. ASSUME NEW q \in Refreshers, pc'[q] \in {"searcher", "swap"} PROVE Fresh(q)'
    <2>1. q # p /\ Fresh(q)
      BY <1>2, <1>7 DEF SearchInv
    <2>2. mine[q] # mine[p] /\ mine[q] # current
      BY <2>1 DEF Fresh
    <2> QED BY <1>1, <1>4, <2>1, <2>2 DEF Fresh
  <1> QED BY <1>1, <1>3, <1>5, <1>6, <1>7 DEF SearchInv, Numbered

\* The reader swapped out is released.
LEMMA ReleaseOldInv == ASSUME SearchInv, NEW p \in Refreshers, ReleaseOld(p) PROVE SearchInv'
  <1>0. /\ \A r \in opened : r \in Readers /\ refs[r] \in Int
        /\ refs \in [Readers -> Int] /\ mine \in [Refreshers -> opened \cup {None}] /\ None \notin opened
    BY TypeFacts
  <1>1. /\ pc[p] = "release" /\ UNCHANGED <<opened, version, commits, current, closed, atClose, hold, want>>
        /\ refs' = DecRef(mine[p]) /\ mine' = [mine EXCEPT ![p] = None] /\ Goto(p, "idle")
    BY DEF ReleaseOld
  <1>2. /\ pc' \in [Refreshers -> {"idle", "open", "searcher", "swap", "release"}]
        /\ pc'[p] = "idle" /\ \A q \in Refreshers : q # p => pc'[q] = pc[q]
    BY <1>1, Moves
  <1>3. mine[p] # None
    BY <1>1 DEF SearchInv, TypeOK
  <1>4. mine[p] \in opened /\ mine'[p] = None /\ \A q \in Refreshers : q # p => mine'[q] = mine[q]
    BY <1>0, <1>1, <1>3
  <1>5. ASSUME NEW r \in opened PROVE Counted(r)'
    <2>1. Holders(r)' = Holders(r) /\ Managed(r)' = Managed(r) /\ GivenUp(r)' = GivenUp(r)
      BY <1>1 DEF Holders, Managed, GivenUp
    <2>2. Renewers(r)' + (IF mine[p] = r THEN 1 ELSE 0) = Renewers(r)
      <3>1. Renewers(r)' + (IF mine[p] = r THEN 1 ELSE 0) = Renewers(r) + (IF mine'[p] = r THEN 1 ELSE 0)
        BY <1>4, RenewersChange
      <3> QED BY <1>0, <1>4, <3>1, OwnersAre DEF Kinds
    <2>3. Due(r)' + (IF mine[p] = r THEN 1 ELSE 0) = Due(r)
      BY <2>1, <2>2, OwnersAre DEF Kinds
    <2>4. Counted(r) /\ Due(r) \in Int /\ Due(r)' \in Int /\ refs[r] \in Int
      BY <1>0, OwnersAre DEF SearchInv, Kinds
    <2>5. refs'[r] = IF mine[p] = r THEN refs[r] - 1 ELSE refs[r]
      BY <1>0, <1>1, <1>4 DEF DecRef
    <2> QED BY <2>3, <2>4, <2>5 DEF Counted
  <1>6. TypeOK'
    <2>1. refs' \in [Readers -> Int]
      BY <1>0, <1>1, <1>4 DEF DecRef
    <2>2. mine' \in [Refreshers -> opened' \cup {None}]
      BY <1>0, <1>1
    <2>3. \A q \in Refreshers : mine'[q] = None <=> pc'[q] \in {"idle", "open"}
      BY <1>2, <1>4 DEF SearchInv, TypeOK
    <2> QED BY <1>1, <1>2, <2>1, <2>2, <2>3 DEF SearchInv, TypeOK
  <1>7. ASSUME NEW q \in Refreshers, pc'[q] \in {"searcher", "swap"} PROVE Fresh(q)'
    <2>1. q # p /\ Fresh(q) /\ mine[q] # None
      BY <1>2, <1>7 DEF SearchInv, TypeOK
    <2> QED BY <1>1, <1>4, <2>1 DEF Fresh
  <1> QED BY <1>1, <1>3, <1>5, <1>6, <1>7 DEF SearchInv, Numbered

\* Every step keeps the invariant.
LEMMA SearchStep == ASSUME SearchInv, [Next]_vars PROVE SearchInv'
  <1>1. CASE UNCHANGED vars
    <2>1. UNCHANGED <<refs, opened, version, commits, current, closed, atClose, hold, pc, want, mine>>
      BY <1>1 DEF vars, manager, refreshing
    <2>2. \A r : Due(r)' = Due(r)
      BY <2>1 DEF Owners, Due
    <2>3. TypeOK'
      BY <2>1 DEF SearchInv, TypeOK
    <2> QED BY <2>1, <2>2, <2>3 DEF SearchInv, Numbered, Counted, Fresh
  <1>2. CASE Next
    BY <1>2, CommitInv, CloseInv, AcquireInv, ReleaseInv, SupplyInv, ReopenInv, ReopenFailsInv, NewSearcherInv,
       NewSearcherFailsInv, SwapInv, ReleaseOldInv DEF Next, MaybeRefresh
  <1> QED BY <1>1, <1>2

\* The invariant says what the application relies on.
LEMMA SearchImplies == SearchInv => OpenIffOwned
  <1> SUFFICES ASSUME SearchInv PROVE OpenIffOwned
    OBVIOUS
  <1>0. /\ \A r \in opened : refs[r] \in Int /\ Due(r) \in Int /\ Counted(r)
        /\ hold \in [Searchers -> opened \cup {None}]
    BY TypeFacts, OwnersAre DEF SearchInv, Kinds
  <1>1. ASSUME NEW s \in Searchers, hold[s] # None, refs[hold[s]] <= 0
        PROVE  hold[s] = atClose /\ current # atClose
    <2> DEFINE r == hold[s]
    <2>1. r \in opened
      BY <1>0, <1>1
    <2>2. Holders(r) >= 1
      BY OwnerCounted
    <2>3. Due(r) <= 0
      BY <1>0, <1>1, <2>1 DEF Counted
    <2>4. Managed(r) = 0 /\ GivenUp(r) = 1
      BY <2>2, <2>3, OwnersAre DEF Kinds
    <2> QED BY <2>4 DEF Managed, GivenUp
  <1>2. \A r \in opened : Due(r) > 0 \/ refs[r] > 0 => refs[r] = Due(r)
    BY <1>0 DEF Counted
  <1> QED BY <1>1, <1>2 DEF OpenIffOwned, HeldIsOpen, ClosedWhenUnowned, SearchInv

\* A searcher somebody acquired stays open until it is released, unless it is
\* the one Close released and a refresh has replaced it since; and a reader is
\* closed when no reference is due: for any number of goroutines that acquire,
\* refresh and close in any order.
THEOREM SearchersOpenWhileOwned == Spec => []OpenIffOwned
  <1>1. SearchInv /\ [Next]_vars => SearchInv'
    BY SearchStep
  <1> QED BY <1>1, SearchInitInv, SearchImplies, PTL DEF Spec
-----------------------------------------------------------------------------
(* ControlledRealTimeReopenThread.                                         *)

Waits == {"idle", "check", "parked", "true", "false"}

\* A generation is announced after a refresh was counted that began when it was
\* published: the one noted when the refresh began is not later than what is
\* published when it is counted, because mu lets no second refresh note
\* another one in between.
ThreadInv ==
  /\ Reopening!TypeOK
  /\ wpc \in [Waiters -> Waits] /\ target \in [Waiters -> Reopening!Gens]
  /\ step \in [Reopeners -> {"idle", "refresh", "after"}]
  /\ refreshed <= published /\ start <= published
  /\ \A r \in Reopeners : step[r] # "idle" => mu = r
  /\ \A r \in Reopeners : step[r] = "after" => start <= refreshed
  /\ finish \/ searching <= refreshed
  /\ closer \in {"max", "notify"} => finish
  /\ Reopening!WaitTruthful

USE GenAssumption, ReopenerAssumption

\* At the start nothing is published and nobody waits.
LEMMA ThreadInitInv == Reopening!Init => ThreadInv
  <1> SUFFICES ASSUME Reopening!Init PROVE ThreadInv
    OBVIOUS
  <1>1. {finish, signal, rmClosed} \subseteq BOOLEAN
    BY Zenon DEF Reopening!Init
  <1>2. Reopening!TypeOK
    BY <1>1 DEF Reopening!Init, Reopening!TypeOK, Reopening!Gens
  <1> QED BY <1>2 DEF Reopening!Init, ThreadInv, Reopening!WaitTruthful, Waits, Reopening!Gens

\* The greater of two numbers.
LEMMA MaxOfTwo ==
  ASSUME NEW a \in Int, NEW b \in Int
  PROVE  LET m == Reopening!Max({a, b}) IN m \in {a, b} /\ m >= a /\ m >= b
  <1>1. \E x \in {a, b} : \A y \in {a, b} : x >= y
    <2>1. CASE a >= b
      BY <2>1
    <2>2. CASE ~(a >= b)
      BY <2>2
    <2> QED BY <2>1, <2>2
  <1> QED BY <1>1 DEF Reopening!Max

\* The variables the invariant reads.
gensAndWaits == <<published, refreshed, start, searching, waiting, finish, mu, wpc, target, step>>

\* The steps that write none of them.
LEMMA ThreadQuiet ==
  ASSUME ThreadInv, UNCHANGED gensAndWaits, {signal', rmClosed'} \subseteq BOOLEAN,
         closer' \in {"max", "notify"} => finish
  PROVE  ThreadInv'
  <1>1. {finish', signal', rmClosed'} \subseteq BOOLEAN
    BY Zenon DEF ThreadInv, Reopening!TypeOK, gensAndWaits
  <1>2. Reopening!TypeOK'
    BY <1>1 DEF ThreadInv, Reopening!TypeOK, gensAndWaits
  <1> QED BY <1>2 DEF ThreadInv, gensAndWaits, Reopening!WaitTruthful

\* What the type invariant says of a state.
LEMMA ThreadTypes ==
  ASSUME ThreadInv
  PROVE  /\ published \in Nat /\ refreshed \in Nat /\ start \in Nat /\ waiting \in Nat /\ searching \in Nat
         /\ published <= MaxGen /\ refreshed <= MaxGen /\ start <= MaxGen /\ waiting <= MaxGen
         /\ wpc \in [Waiters -> Waits] /\ target \in [Waiters -> Reopening!Gens]
         /\ \A w \in Waiters : target[w] \in Nat
         /\ step \in [Reopeners -> {"idle", "refresh", "after"}]
         /\ mu \in Reopeners \cup {None}
         /\ \A w \in Waiters : wpc[w] \in {"check", "parked"} => target[w] <= waiting
  BY DEF ThreadInv, Reopening!TypeOK, Reopening!Gens, Reopening!Inf

\* The Booleans of the state are Booleans.
LEMMA ThreadFlags == ThreadInv => {finish, signal, rmClosed} \subseteq BOOLEAN
  BY DEF ThreadInv, Reopening!TypeOK

\* The writer publishes.
LEMMA PublishInv == ASSUME ThreadInv, Reopening!Publish PROVE ThreadInv'
  <1>1. /\ published < MaxGen /\ published' = published + 1
        /\ UNCHANGED <<refreshed, start, searching, waiting, finish, signal, mu, rmClosed, wpc, target, step, closer>>
    BY DEF Reopening!Publish, Reopening!crt, Reopening!rm, Reopening!waits
  <1>2. Reopening!TypeOK'
    <2>1. published' \in Reopening!Gens
      BY <1>1, ThreadTypes DEF Reopening!Gens
    <2> QED BY <1>1, <2>1 DEF ThreadInv, Reopening!TypeOK
  <1>3. refreshed' <= published' /\ start' <= published'
    BY <1>1, ThreadTypes DEF ThreadInv
  <1> QED BY <1>1, <1>2, <1>3 DEF ThreadInv, Reopening!WaitTruthful

\* A goroutine asks for a generation, and is answered or enters the loop.
LEMMA WaitInv ==
  ASSUME ThreadInv, NEW w \in Waiters, NEW g \in Reopening!Gens, Reopening!WaitForGeneration(w, g)
  PROVE  ThreadInv'
  <1>0. /\ waiting \in Nat /\ waiting <= MaxGen /\ g \in Nat /\ g <= MaxGen /\ searching \in Nat /\ refreshed \in Nat
        /\ wpc \in [Waiters -> Waits] /\ target \in [Waiters -> Reopening!Gens]
        /\ \A v \in Waiters : target[v] \in Nat
        /\ \A v \in Waiters : wpc[v] \in {"check", "parked"} => target[v] <= waiting
    BY ThreadTypes DEF Reopening!Gens
  <1>1. /\ UNCHANGED <<published, refreshed, start, searching, finish, mu, rmClosed, step, closer>>
        /\ target' = [target EXCEPT ![w] = g]
        /\ \/ g <= searching /\ wpc' = [wpc EXCEPT ![w] = "true"] /\ UNCHANGED <<waiting, signal>>
           \/ g > searching /\ wpc' = [wpc EXCEPT ![w] = "check"] /\ waiting' = Reopening!Max({g, waiting}) /\ signal' = TRUE
    BY DEF Reopening!WaitForGeneration, Reopening!gens, Reopening!rm
  <1>2. target'[w] = g /\ target' \in [Waiters -> Reopening!Gens] /\ \A v \in Waiters : v # w => target'[v] = target[v]
    BY <1>0, <1>1
  <1>m. LET m == Reopening!Max({g, waiting}) IN m \in {g, waiting} /\ m >= g /\ m >= waiting
    <2>1. g \in Int /\ waiting \in Int
      BY <1>0
    <2> QED BY <2>1, MaxOfTwo, Zenon
  <1>3. /\ wpc' \in [Waiters -> Waits] /\ \A v \in Waiters : v # w => wpc'[v] = wpc[v]
        /\ wpc'[w] = "true" => g <= searching
        /\ wpc'[w] \in {"true", "check"} /\ (wpc'[w] = "check" => waiting' >= g)
    BY <1>0, <1>1, <1>m DEF Waits
  <1>4. waiting' \in Reopening!Gens /\ waiting' >= waiting
    <2>1. waiting' \in {g, waiting} /\ waiting' >= waiting
      BY <1>0, <1>1, <1>m
    <2> QED BY <1>0, <2>1 DEF Reopening!Gens
  <1>5. {finish', signal', rmClosed'} \subseteq BOOLEAN
    <2>1. signal' \in BOOLEAN
      BY <1>1, ThreadFlags, Zenon
    <2> QED BY <1>1, <2>1, ThreadFlags
  <1>6. \A v \in Waiters : wpc'[v] \in {"check", "parked"} => target'[v] <= waiting'
    BY <1>0, <1>2, <1>3, <1>4 DEF Reopening!Gens
  <1>7. Reopening!TypeOK'
    BY <1>1, <1>4, <1>5, <1>6 DEF ThreadInv, Reopening!TypeOK
  <1>8. finish \/ (\A v \in Waiters : wpc'[v] = "true" => target'[v] <= refreshed')
    BY <1>0, <1>1, <1>2, <1>3 DEF ThreadInv, Reopening!WaitTruthful
  <1> QED BY <1>1, <1>2, <1>3, <1>7, <1>8 DEF ThreadInv, Reopening!WaitTruthful

\* A step that changes the waiters' pc only, and lets one return true only for
\* a generation that is searchable.
LEMMA WaitersInv ==
  ASSUME ThreadInv,
         UNCHANGED <<published, refreshed, start, searching, waiting, finish, signal, mu, rmClosed, target, step>>,
         closer' \in {"max", "notify"} => finish,
         wpc' \in [Waiters -> Waits],
         \A w \in Waiters : wpc'[w] \in {"check", "parked"} => wpc[w] \in {"check", "parked"},
         \A w \in Waiters : wpc'[w] = "true" => wpc[w] = "true" \/ target[w] <= searching
  PROVE  ThreadInv'
  <1>1. Reopening!TypeOK'
    BY DEF ThreadInv, Reopening!TypeOK
  <1>2. finish \/ (\A w \in Waiters : wpc'[w] = "true" => target'[w] <= refreshed')
    BY ThreadTypes DEF ThreadInv, Reopening!WaitTruthful
  <1> QED BY <1>1, <1>2 DEF ThreadInv, Reopening!WaitTruthful

\* A goroutine looks whether its generation is searchable, and parks if not.
LEMMA CheckInv == ASSUME ThreadInv, NEW w \in Waiters, Reopening!Check(w) PROVE ThreadInv'
  <1>1. /\ UNCHANGED <<published, refreshed, start, searching, waiting, finish, signal, mu, rmClosed, target, step, closer>>
        /\ wpc[w] = "check" /\ wpc' = [wpc EXCEPT ![w] = IF target[w] <= searching THEN "true" ELSE "parked"]
    BY DEF Reopening!Check, Reopening!gens, Reopening!crt, Reopening!rm
  <1>2. /\ wpc' \in [Waiters -> Waits] /\ \A v \in Waiters : v # w => wpc'[v] = wpc[v]
        /\ wpc'[w] = "true" => target[w] <= searching
    BY <1>1, ThreadTypes DEF Waits
  <1> QED BY <1>1, <1>2, WaitersInv DEF ThreadInv

\* A parked goroutine gives up.
LEMMA TimesOutInv == ASSUME ThreadInv, NEW w \in Waiters, Reopening!TimesOut(w) PROVE ThreadInv'
  <1>1. /\ UNCHANGED <<published, refreshed, start, searching, waiting, finish, signal, mu, rmClosed, target, step, closer>>
        /\ wpc' = [wpc EXCEPT ![w] = "false"]
    BY DEF Reopening!TimesOut, Reopening!gens, Reopening!crt, Reopening!rm
  <1>2. wpc' \in [Waiters -> Waits] /\ wpc'[w] = "false" /\ \A v \in Waiters : v # w => wpc'[v] = wpc[v]
    BY <1>1, ThreadTypes DEF Waits
  <1> QED BY <1>1, <1>2, WaitersInv DEF ThreadInv

\* A broadcast sends the parked goroutines back to the check.
LEMMA BroadcastWakes ==
  ASSUME ThreadInv, Reopening!Broadcast
  PROVE  /\ wpc' \in [Waiters -> Waits]
         /\ \A w \in Waiters : wpc'[w] \in {"check", "parked"} => wpc[w] \in {"check", "parked"}
         /\ \A w \in Waiters : wpc'[w] = "true" => wpc[w] = "true"
  BY ThreadTypes DEF Reopening!Broadcast, Waits
\* A refresh takes mu, so it is alone, and notes what is published.
LEMMA BeforeRefreshInv ==
  ASSUME ThreadInv, NEW r \in Reopeners, Reopening!BeforeRefresh(r)
  PROVE  ThreadInv'
  <1>1. /\ UNCHANGED <<published, refreshed, searching, waiting, finish, signal, rmClosed, wpc, target, closer>>
        /\ step[r] = "idle" /\ mu = None /\ mu' = r /\ start' = published /\ step' = [step EXCEPT ![r] = "refresh"]
    BY DEF Reopening!BeforeRefresh, Reopening!crt, Reopening!waits
  <1>2. \A q \in Reopeners : step[q] = "idle"
    BY <1>1 DEF ThreadInv
  <1>3. /\ step' \in [Reopeners -> {"idle", "refresh", "after"}] /\ step'[r] = "refresh"
        /\ \A q \in Reopeners : q # r => step'[q] = "idle"
    BY <1>1, <1>2, ThreadTypes
  <1>4. Reopening!TypeOK'
    BY <1>1 DEF ThreadInv, Reopening!TypeOK
  <1>5. start' <= published'
    BY <1>1, ThreadTypes
  <1> QED BY <1>1, <1>3, <1>4, <1>5 DEF ThreadInv, Reopening!WaitTruthful

\* The refresh is counted with no less published than what was noted.
LEMMA RefreshInv ==
  ASSUME ThreadInv, NEW r \in Reopeners, Reopening!Refresh(r)
  PROVE  ThreadInv'
  <1>1. /\ UNCHANGED <<published, start, searching, waiting, finish, signal, mu, rmClosed, wpc, target, closer>>
        /\ step[r] = "refresh" /\ refreshed' = published /\ step' = [step EXCEPT ![r] = "after"]
    BY DEF Reopening!Refresh, Reopening!crt, Reopening!rm, Reopening!waits
  <1>2. mu = r
    BY <1>1 DEF ThreadInv
  <1>3. /\ step' \in [Reopeners -> {"idle", "refresh", "after"}] /\ step'[r] = "after"
        /\ \A q \in Reopeners : q # r => step'[q] = step[q]
    BY <1>1, ThreadTypes
  <1>4. Reopening!TypeOK'
    BY <1>1 DEF ThreadInv, Reopening!TypeOK
  <1>5. refreshed <= refreshed' /\ start' <= refreshed' /\ refreshed' <= published'
    BY <1>1, ThreadTypes DEF ThreadInv
  <1>6. finish' \/ searching' <= refreshed'
    BY <1>1, <1>5, ThreadTypes DEF ThreadInv
  <1>7. finish' \/ \A w \in Waiters : wpc'[w] = "true" => target'[w] <= refreshed'
    BY <1>1, <1>5, ThreadTypes DEF ThreadInv, Reopening!WaitTruthful
  <1>8. \A q \in Reopeners : step'[q] # "idle" => mu' = q
    BY <1>1, <1>2, <1>3 DEF ThreadInv
  <1> QED BY <1>1, <1>3, <1>4, <1>5, <1>6, <1>7, <1>8 DEF ThreadInv, Reopening!WaitTruthful

\* What was noted when the refresh began is announced.
LEMMA AfterRefreshInv ==
  ASSUME ThreadInv, NEW r \in Reopeners, Reopening!AfterRefresh(r)
  PROVE  ThreadInv'
  <1>1. /\ UNCHANGED <<published, refreshed, start, waiting, finish, signal, rmClosed, target, closer>>
        /\ step[r] = "after" /\ mu' = None /\ searching' = start /\ step' = [step EXCEPT ![r] = "idle"]
        /\ Reopening!Broadcast
    BY DEF Reopening!AfterRefresh, Reopening!gens
  <1>2. start <= refreshed /\ \A q \in Reopeners : q # r => step[q] = "idle"
    BY <1>1 DEF ThreadInv
  <1>3. /\ step' \in [Reopeners -> {"idle", "refresh", "after"}] /\ \A q \in Reopeners : step'[q] = "idle"
    BY <1>1, <1>2, ThreadTypes
  <1>4. /\ wpc' \in [Waiters -> Waits]
        /\ \A w \in Waiters : wpc'[w] \in {"check", "parked"} => wpc[w] \in {"check", "parked"}
        /\ \A w \in Waiters : wpc'[w] = "true" => wpc[w] = "true"
    BY <1>1, BroadcastWakes
  <1>5. Reopening!TypeOK'
    BY <1>1, <1>4 DEF ThreadInv, Reopening!TypeOK
  <1>6. finish' \/ \A w \in Waiters : wpc'[w] = "true" => target'[w] <= refreshed'
    BY <1>1, <1>4 DEF ThreadInv, Reopening!WaitTruthful
  <1> QED BY <1>1, <1>2, <1>3, <1>4, <1>5, <1>6 DEF ThreadInv, Reopening!WaitTruthful

\* The thread sleeps, wakes, reopens and ends.
LEMMA RunInv == ASSUME ThreadInv, Reopening!Run PROVE ThreadInv'
  <1> USE DEF Reopening!gens, Reopening!crt, Reopening!rm, Reopening!waits, gensAndWaits
  <1>1. CASE Reopening!Signalled
    <2>1. signal' \in BOOLEAN
      BY <1>1, Zenon DEF Reopening!Signalled
    <2>2. UNCHANGED <<gensAndWaits, rmClosed, closer>>
      BY <1>1 DEF Reopening!Signalled
    <2> QED BY <2>1, <2>2, ThreadFlags, ThreadQuiet DEF ThreadInv
  <1>2. CASE ~Reopening!Signalled
    <2>1. UNCHANGED <<gensAndWaits, signal, rmClosed, closer>>
      BY <1>2 DEF Reopening!Run, Reopening!Sleep, Reopening!Timer, Reopening!Due, Reopening!Finished, Reopening!MaybeRefresh
    <2> QED BY <2>1, ThreadFlags, ThreadQuiet DEF ThreadInv
  <1> QED BY <1>1, <1>2

\* Close lets everybody through.
LEMMA CloseThreadInv ==
  ASSUME ThreadInv, Reopening!Close \/ Reopening!Closing \/ Reopening!ManagerClose
  PROVE  ThreadInv'
  <1> USE DEF Reopening!gens, Reopening!crt, Reopening!rm, Reopening!waits
  <1>1. CASE Reopening!Close
    <2>1. /\ UNCHANGED <<published, refreshed, start, searching, waiting, mu, rmClosed, wpc, target, step>>
          /\ finish' = TRUE /\ signal' = TRUE
      BY <1>1 DEF Reopening!Close
    <2>2. {finish', signal', rmClosed'} \subseteq BOOLEAN
      BY <2>1, ThreadFlags, Zenon
    <2>3. Reopening!TypeOK'
      BY <2>1, <2>2 DEF ThreadInv, Reopening!TypeOK
    <2> QED BY <2>1, <2>3 DEF ThreadInv, Reopening!WaitTruthful
  <1>2. CASE Reopening!CloseMax
    <2>1. /\ UNCHANGED <<published, refreshed, start, waiting, finish, signal, mu, rmClosed, wpc, target, step>>
          /\ searching' = Reopening!Inf /\ finish
      BY <1>2 DEF Reopening!CloseMax, ThreadInv
    <2>2. Reopening!TypeOK'
      BY <2>1 DEF ThreadInv, Reopening!TypeOK
    <2> QED BY <2>1, <2>2 DEF ThreadInv, Reopening!WaitTruthful
  <1>3. CASE Reopening!CloseNotify
    <2>1. /\ UNCHANGED <<published, refreshed, start, searching, waiting, finish, signal, mu, rmClosed, target, step>>
          /\ closer' = "closed" /\ Reopening!Broadcast
      BY <1>3 DEF Reopening!CloseNotify
    <2> QED BY <2>1, BroadcastWakes, WaitersInv
  <1>4. CASE Reopening!ManagerClose
    <2>1. rmClosed' = TRUE /\ closer' = "done" /\ UNCHANGED <<gensAndWaits, signal>>
      BY <1>4 DEF Reopening!ManagerClose, gensAndWaits
    <2>2. rmClosed' \in BOOLEAN
      BY <2>1, Zenon
    <2> QED BY <2>1, <2>2, ThreadFlags, ThreadQuiet
  <1> QED BY <1>1, <1>2, <1>3, <1>4 DEF Reopening!Closing

\* WaitForGeneration returns true only for a generation published before a
\* refresh that was counted, or because the thread was closed: for any number of waiters and refreshes.
THEOREM WaitIsTruthful == Reopening!Spec => []WaitTruthful
  <1>1. ThreadInv /\ [Reopening!Next]_(Reopening!vars) => ThreadInv'
    <2> SUFFICES ASSUME ThreadInv, [Reopening!Next]_(Reopening!vars) PROVE ThreadInv'
      OBVIOUS
    <2>1. CASE UNCHANGED Reopening!vars
      <3>1. UNCHANGED <<gensAndWaits, signal, rmClosed, closer>>
        BY <2>1 DEF Reopening!vars, Reopening!gens, Reopening!crt, Reopening!rm, Reopening!waits, gensAndWaits
      <3> QED BY <3>1, ThreadFlags, ThreadQuiet DEF ThreadInv
    <2>2. CASE Reopening!Next
      BY <2>2, PublishInv, RunInv, CloseThreadInv, WaitInv, CheckInv, TimesOutInv, BeforeRefreshInv, RefreshInv,
         AfterRefreshInv DEF Reopening!Next, Reopening!Refreshing
    <2> QED BY <2>1, <2>2
  <1>2. ThreadInv => WaitTruthful
    BY DEF ThreadInv, WaitTruthful
  <1> QED BY <1>1, <1>2, ThreadInitInv, PTL DEF Reopening!Spec
=============================================================================
