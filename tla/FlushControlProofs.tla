------------------------- MODULE FlushControlProofs -------------------------
(***************************************************************************)
(* Proofs about the flush control, for any number of indexing goroutines,  *)
(* DWPTs, calls and full flushes, and any configuration of the policy.     *)
(***************************************************************************)
EXTENDS FlushControl, FiniteSetTheorems, TLAPS

-----------------------------------------------------------------------------
(* Folds: sums over finite sets, and Keep.                                 *)

\* The sum of f over the elements of S.
SumOf(f, S) == MapThenSumSet(LAMBDA d : f[d], S)

\* A set of subsets of a finite set has a minimal element: the induction principle below.
LEMMA MinSub ==
  ASSUME NEW S, IsFiniteSet(S), NEW T, T \subseteq SUBSET S, T # {}
  PROVE \E x \in T : \A y \in T : y \subseteq x => y = x
<1>1. IsWellFoundedOn(StrictSubsetOrdering(S), SUBSET S)
  BY FS_StrictSubsetOrderingWellFounded, FS_FiniteSubsetsOfFinite
<1>2. \E x \in T : \A y \in T : ~ (<<y, x>> \in StrictSubsetOrdering(S))
  BY <1>1, WFMin
<1> QED BY <1>2 DEF StrictSubsetOrdering

\* g folds H over the subsets of T, taking away the element pick[s] of s.
FoldsOver(g, T, pick, H, base) ==
  \A s \in SUBSET T : g[s] = IF s = {} THEN base ELSE H[pick[s]][g[s \ {pick[s]}]]

\* Two folds agree where both are defined.
LEMMA FoldUnique ==
  ASSUME NEW S, IsFiniteSet(S), NEW pick, \A s \in SUBSET S : s # {} => pick[s] \in s,
         NEW H, NEW base, NEW g, NEW h, NEW T \in SUBSET S, NEW U \in SUBSET S,
         FoldsOver(g, T, pick, H, base), FoldsOver(h, U, pick, H, base),
         NEW s \in SUBSET (T \cap U)
  PROVE  g[s] = h[s]
<1> DEFINE Bad == {r \in SUBSET (T \cap U) : g[r] # h[r]}
<1>1. SUFFICES ASSUME Bad # {} PROVE FALSE
  OBVIOUS
<1>2. PICK r \in Bad : \A q \in Bad : q \subseteq r => q = r
  <2>1. Bad \subseteq SUBSET S
    OBVIOUS
  <2> HIDE DEF Bad
  <2> QED BY <1>1, <2>1, MinSub
<1>3. r \in SUBSET T /\ r \in SUBSET U /\ r \in SUBSET S /\ g[r] # h[r]
  BY <1>2
<1>4. CASE r = {}
  BY <1>3, <1>4 DEF FoldsOver
<1>5. CASE r # {}
  <2>1. pick[r] \in r
    BY <1>3, <1>5
  <2>2. r \ {pick[r]} \notin Bad /\ r \ {pick[r]} \in SUBSET (T \cap U)
    BY <1>2, <2>1
  <2>3. g[r \ {pick[r]}] = h[r \ {pick[r]}]
    BY <2>2
  <2> QED BY <1>3, <1>5, <2>3 DEF FoldsOver
<1> QED BY <1>4, <1>5

\* There is a fold over a finite set.
LEMMA FoldExists ==
  ASSUME NEW S, IsFiniteSet(S), NEW pick, \A s \in SUBSET S : s # {} => pick[s] \in s,
         NEW V, NEW base \in V, NEW H \in [S -> [V -> V]]
  PROVE  \E g \in [SUBSET S -> V] : FoldsOver(g, S, pick, H, base)
<1> DEFINE Good(T) == \E g \in [SUBSET T -> V] : FoldsOver(g, T, pick, H, base)
           Bad == {T \in SUBSET S : ~Good(T)}
<1>1. SUFFICES ASSUME Bad # {} PROVE FALSE
  BY DEF Bad
<1>2. PICK T \in Bad : \A q \in Bad : q \subseteq T => q = T
  <2>1. Bad \subseteq SUBSET S
    OBVIOUS
  <2> HIDE DEF Bad
  <2> QED BY <1>1, <2>1, MinSub
<1>3. T \in SUBSET S /\ ~Good(T)
  BY <1>2
<1>4. \A s \in SUBSET T : s # T => Good(s)
  BY <1>2, <1>3
<1> DEFINE sol(s) == CHOOSE g \in [SUBSET s -> V] : FoldsOver(g, s, pick, H, base)
           rest(s) == s \ {pick[s]}
           val(s) == IF s = {} THEN base ELSE H[pick[s]][sol(rest(s))[rest(s)]]
           new == [s \in SUBSET T |-> val(s)]
<1> HIDE DEF Bad
<1>5. ASSUME NEW s \in SUBSET T, s # {}
      PROVE  /\ pick[s] \in s /\ rest(s) \in SUBSET T /\ rest(s) # T
             /\ sol(rest(s)) \in [SUBSET rest(s) -> V] /\ FoldsOver(sol(rest(s)), rest(s), pick, H, base)
  <2>1. pick[s] \in s
    BY <1>3, <1>5
  <2>2. rest(s) \in SUBSET T /\ rest(s) # T
    BY <2>1, <1>5
  <2>3. Good(rest(s))
    BY <2>2, <1>4
  <2> QED BY <2>1, <2>2, <2>3
<1>6. ASSUME NEW s \in SUBSET T PROVE val(s) \in V
  <2>1. CASE s = {}
    BY <2>1
  <2>2. CASE s # {}
    <3>1. pick[s] \in S
      BY <1>5, <2>2, <1>3
    <3>2. sol(rest(s))[rest(s)] \in V
      BY <1>5, <2>2, ZenonT(60)
    <3> QED BY <2>2, <3>1, <3>2
  <2> QED BY <2>1, <2>2
<1>7. new \in [SUBSET T -> V]
  BY <1>6
<1>8. ASSUME NEW s \in SUBSET T, s # {} PROVE new[rest(s)] = sol(rest(s))[rest(s)]
  <2> DEFINE q == rest(s)
  <2>1. q \in SUBSET T /\ q # T /\ FoldsOver(sol(q), q, pick, H, base) /\ new[q] = val(q)
    BY <1>5, <1>8
  <2>2. CASE q = {}
    BY <2>1, <2>2 DEF FoldsOver
  <2>3. CASE q # {}
    <3> DEFINE r == rest(q)
    <3>1. r \in SUBSET q /\ FoldsOver(sol(r), r, pick, H, base) /\ q \in SUBSET S /\ r \in SUBSET S
      BY <1>5, <2>1, <2>3, <1>3
    <3>2. sol(q)[r] = sol(r)[r]
      <4> HIDE DEF sol, rest, r, q
      <4> QED BY <3>1, <2>1, FoldUnique
    <3>3. sol(q)[q] = H[pick[q]][sol(q)[r]]
      <4> HIDE DEF sol
      <4> QED BY <2>1, <2>3 DEF FoldsOver
    <3>4. val(q) = H[pick[q]][sol(r)[r]]
      BY <2>3
    <3> QED BY <3>2, <3>3, <3>4, <2>1
  <2> QED BY <2>2, <2>3
<1>9. FoldsOver(new, T, pick, H, base)
  <2> SUFFICES ASSUME NEW s \in SUBSET T
               PROVE  new[s] = IF s = {} THEN base ELSE H[pick[s]][new[s \ {pick[s]}]]
    BY DEF FoldsOver
  <2>1. new[s] = val(s)
    OBVIOUS
  <2> HIDE DEF new, sol
  <2> QED BY <2>1, <1>8
<1>10. Good(T)
  <2> HIDE DEF new
  <2> QED BY <1>7, <1>9
<1> QED BY <1>3, <1>10

\* The element a sum takes first.
Pick(s) == CHOOSE x \in s : TRUE
\* g gives the sums of f over the subsets of S.
Sums(g, f, S) == g = [s \in SUBSET S |-> IF s = {} THEN 0 ELSE f[Pick(s)] + g[s \ {Pick(s)}]]

\* The sum, as MapThenSumSet defines it.
LEMMA SumUnfold ==
  ASSUME NEW f, NEW S
  PROVE SumOf(f, S) = (CHOOSE g : Sums(g, f, S))[S]
  BY DEF SumOf, MapThenSumSet, MapThenFoldSet, Sums, Pick

\* Two functions that sum f agree.
LEMMA SumsUnique ==
  ASSUME NEW S, IsFiniteSet(S), NEW f, NEW g, NEW h, NEW T \in SUBSET S, NEW U \in SUBSET S,
         Sums(g, f, T), Sums(h, f, U), NEW s \in SUBSET (T \cap U)
  PROVE  g[s] = h[s]
<1> DEFINE Bad == {r \in SUBSET (T \cap U) : g[r] # h[r]}
<1>1. SUFFICES ASSUME Bad # {} PROVE FALSE
  OBVIOUS
<1>2. PICK r \in Bad : \A q \in Bad : q \subseteq r => q = r
  <2>1. Bad \subseteq SUBSET S
    OBVIOUS
  <2> HIDE DEF Bad
  <2> QED BY <1>1, <2>1, MinSub
<1>3. r \in SUBSET T /\ r \in SUBSET U /\ r \in SUBSET S /\ g[r] # h[r]
  BY <1>2
<1>4. /\ g[r] = IF r = {} THEN 0 ELSE f[Pick(r)] + g[r \ {Pick(r)}]
      /\ h[r] = IF r = {} THEN 0 ELSE f[Pick(r)] + h[r \ {Pick(r)}]
  BY <1>3 DEF Sums
<1>5. CASE r = {}
  BY <1>3, <1>4, <1>5
<1>6. CASE r # {}
  <2>1. Pick(r) \in r
    BY <1>6 DEF Pick
  <2>2. r \ {Pick(r)} \notin Bad /\ r \ {Pick(r)} \in SUBSET (T \cap U)
    BY <1>2, <2>1
  <2>3. g[r \ {Pick(r)}] = h[r \ {Pick(r)}]
    BY <2>2
  <2> QED BY <1>3, <1>4, <1>6, <2>3
<1> QED BY <1>5, <1>6

\* g gives the sum of f over each subset of S.
GivesSums(g, f, S) ==
  /\ g \in [SUBSET S -> Nat]
  /\ \A r \in SUBSET S : SumOf(f, r) = g[r]
  /\ \A r \in SUBSET S : g[r] = IF r = {} THEN 0 ELSE f[Pick(r)] + g[r \ {Pick(r)}]

\* There is a function that sums f.
LEMMA SumsExist ==
  ASSUME NEW S, IsFiniteSet(S), NEW f \in [S -> Nat]
  PROVE  \E g : GivesSums(g, f, S)
<1> DEFINE pick == [s \in SUBSET S |-> Pick(s)]
           H == [x \in S |-> [v \in Nat |-> f[x] + v]]
<1>1. \A s \in SUBSET S : s # {} => pick[s] \in s
  BY DEF Pick
<1>2. H \in [S -> [Nat -> Nat]]
  OBVIOUS
<1>3. PICK g \in [SUBSET S -> Nat] : FoldsOver(g, S, pick, H, 0)
  <2> HIDE DEF pick, H
  <2> QED BY <1>1, <1>2, FoldExists
<1>4. ASSUME NEW s \in SUBSET S PROVE g[s] = IF s = {} THEN 0 ELSE f[Pick(s)] + g[s \ {Pick(s)}]
  <2>1. g[s] = IF s = {} THEN 0 ELSE H[pick[s]][g[s \ {pick[s]}]]
    BY <1>3 DEF FoldsOver
  <2>2. CASE s = {}
    BY <2>1, <2>2
  <2>3. CASE s # {}
    <3>1. Pick(s) \in S /\ pick[s] = Pick(s)
      BY <1>1, <2>3
    <3>2. g[s \ {Pick(s)}] \in Nat
      OBVIOUS
    <3> QED BY <2>1, <2>3, <3>1, <3>2
  <2> QED BY <2>2, <2>3
<1>5. ASSUME NEW r \in SUBSET S PROVE SumOf(f, r) = g[r]
  <2> DEFINE h == [s \in SUBSET r |-> g[s]]
             c == CHOOSE q : Sums(q, f, r)
  <2>1. Sums(h, f, r)
    <3> SUFFICES ASSUME NEW s \in SUBSET r
                 PROVE  h[s] = IF s = {} THEN 0 ELSE f[Pick(s)] + h[s \ {Pick(s)}]
      BY DEF Sums
    <3> QED BY <1>4
  <2>2. Sums(c, f, r)
    BY <2>1
  <2>3. c[r] = h[r]
    <3> HIDE DEF c, h
    <3> QED BY <2>1, <2>2, SumsUnique
  <2>4. SumOf(f, r) = c[r]
    BY SumUnfold
  <2> QED BY <2>3, <2>4
<1> QED BY <1>3, <1>4, <1>5 DEF GivesSums

\* A sum is a natural number, 0 for no summands.
LEMMA SumType ==
  ASSUME NEW S, IsFiniteSet(S), NEW f \in [S -> Nat], NEW r \in SUBSET S
  PROVE  SumOf(f, r) \in Nat /\ SumOf(f, {}) = 0
<1>1. PICK g : GivesSums(g, f, S)
  BY SumsExist
<1>2. g \in [SUBSET S -> Nat] /\ SumOf(f, r) = g[r]
  BY <1>1 DEF GivesSums
<1>3. {} \in SUBSET S
  OBVIOUS
<1>4. SumOf(f, {}) = g[{}] /\ g[{}] = 0
  BY <1>1, <1>3 DEF GivesSums
<1> QED BY <1>2, <1>4

\* A sum without one of its elements.
LEMMA SumRemove ==
  ASSUME NEW S, IsFiniteSet(S), NEW f \in [S -> Nat], NEW r \in SUBSET S, NEW x \in r
  PROVE  SumOf(f, r) = f[x] + SumOf(f, r \ {x})
<1>0. PICK g : GivesSums(g, f, S)
  BY SumsExist
<1>1. /\ g \in [SUBSET S -> Nat] /\ SumOf(f, r) = g[r] /\ SumOf(f, r \ {x}) = g[r \ {x}]
      /\ \A q \in SUBSET S : g[q] = IF q = {} THEN 0 ELSE f[Pick(q)] + g[q \ {Pick(q)}]
  BY <1>0 DEF GivesSums
<1> DEFINE Bad == {q \in SUBSET S : \E y \in q : g[q] # f[y] + g[q \ {y}]}
<1>2. SUFFICES ASSUME Bad # {} PROVE FALSE
  BY <1>1, ZenonT(60)
<1>3. PICK q \in Bad : \A p \in Bad : p \subseteq q => p = q
  <2>1. Bad \subseteq SUBSET S
    OBVIOUS
  <2> HIDE DEF Bad
  <2> QED BY <1>2, <2>1, MinSub
<1>4. PICK y \in q : g[q] # f[y] + g[q \ {y}]
  BY <1>3
<1> DEFINE z == Pick(q)
<1>5. z \in q /\ q \in SUBSET S
  BY <1>3, <1>4 DEF Pick
<1>6. g[q] = f[z] + g[q \ {z}]
  BY <1>1, <1>5
<1>7. y # z
  BY <1>4, <1>6
<1>8. q \ {z} \notin Bad /\ q \ {y} \notin Bad /\ q \ {z} \in SUBSET S /\ q \ {y} \in SUBSET S
  BY <1>3, <1>4, <1>5
<1>9. g[q \ {z}] = f[y] + g[(q \ {z}) \ {y}]
  BY <1>8, <1>7, <1>4
<1>10. g[q \ {y}] = f[z] + g[(q \ {y}) \ {z}]
  BY <1>8, <1>7, <1>5
<1>11. (q \ {z}) \ {y} = (q \ {y}) \ {z}
  OBVIOUS
<1>12. /\ f[y] \in Nat /\ f[z] \in Nat
       /\ g[q \ {z}] \in Nat /\ g[q \ {y}] \in Nat /\ g[(q \ {y}) \ {z}] \in Nat
  BY <1>1, <1>5, <1>8
<1> DEFINE a == f[y]
           b == f[z]
           m == g[(q \ {y}) \ {z}]
           n == g[q \ {y}]
           k == g[q \ {z}]
<1>13. g[q] # a + n /\ g[q] = b + k /\ k = a + m /\ n = b + m
  BY <1>4, <1>6, <1>9, <1>10, <1>11
<1>14. a \in Nat /\ b \in Nat /\ m \in Nat
  BY <1>12
<1> HIDE DEF a, b, m, n, k
<1> QED BY <1>13, <1>14

\* A sum with one more element.
LEMMA SumAdd ==
  ASSUME NEW S, IsFiniteSet(S), NEW f \in [S -> Nat], NEW r \in SUBSET S, NEW x \in S \ r
  PROVE  SumOf(f, r \cup {x}) = f[x] + SumOf(f, r)
<1>1. r \cup {x} \in SUBSET S /\ (r \cup {x}) \ {x} = r
  OBVIOUS
<1> QED BY <1>1, SumRemove

\* A sum depends on the values of its elements only.
LEMMA SumCongruent ==
  ASSUME NEW S, IsFiniteSet(S), NEW f \in [S -> Nat], NEW h \in [S -> Nat], NEW r \in SUBSET S,
         \A x \in r : f[x] = h[x]
  PROVE  SumOf(f, r) = SumOf(h, r)
<1> DEFINE Bad == {q \in SUBSET r : SumOf(f, q) # SumOf(h, q)}
<1>1. SUFFICES ASSUME Bad # {} PROVE FALSE
  OBVIOUS
<1>2. PICK q \in Bad : \A p \in Bad : p \subseteq q => p = q
  <2>1. Bad \subseteq SUBSET S
    OBVIOUS
  <2> HIDE DEF Bad
  <2> QED BY <1>1, <2>1, MinSub
<1>3. q \in SUBSET S /\ SumOf(f, q) # SumOf(h, q) /\ q \in SUBSET r
  BY <1>2
<1>4. q # {}
  BY <1>3, SumType
<1>5. PICK x \in q : TRUE
  BY <1>4
<1>6. q \ {x} \notin Bad
  BY <1>2
<1>7. SumOf(f, q \ {x}) = SumOf(h, q \ {x})
  BY <1>3, <1>6
<1>8. SumOf(f, q) = f[x] + SumOf(f, q \ {x}) /\ SumOf(h, q) = h[x] + SumOf(h, q \ {x})
  BY <1>3, SumRemove
<1>9. f[x] = h[x]
  BY <1>3
<1> QED BY <1>3, <1>7, <1>8, <1>9

\* The sum over two disjoint sets.
LEMMA SumUnion ==
  ASSUME NEW S, IsFiniteSet(S), NEW f \in [S -> Nat], NEW r \in SUBSET S, NEW p \in SUBSET S,
         r \cap p = {}
  PROVE  SumOf(f, r \cup p) = SumOf(f, r) + SumOf(f, p)
<1> DEFINE Bad == {q \in SUBSET p : SumOf(f, r \cup q) # SumOf(f, r) + SumOf(f, q)}
<1>1. SUFFICES ASSUME Bad # {} PROVE FALSE
  OBVIOUS
<1>2. PICK q \in Bad : \A t \in Bad : t \subseteq q => t = q
  <2>1. Bad \subseteq SUBSET S
    OBVIOUS
  <2> HIDE DEF Bad
  <2> QED BY <1>1, <2>1, MinSub
<1>3. q \in SUBSET S /\ SumOf(f, r \cup q) # SumOf(f, r) + SumOf(f, q) /\ q \in SUBSET p
  BY <1>2
<1>4. q # {}
  <2>1. SumOf(f, {}) = 0 /\ SumOf(f, r) \in Nat /\ r \cup {} = r
    BY SumType
  <2> QED BY <1>3, <2>1
<1>5. PICK x \in q : TRUE
  BY <1>4
<1> DEFINE t == q \ {x}
<1>6. t \notin Bad /\ t \in SUBSET p
  BY <1>2, <1>3
<1>7. SumOf(f, r \cup t) = SumOf(f, r) + SumOf(f, t)
  BY <1>6
<1>8. r \cup q \in SUBSET S /\ x \in r \cup q /\ (r \cup q) \ {x} = r \cup t /\ r \cup t \in SUBSET S
  BY <1>3
<1>9. SumOf(f, q) = f[x] + SumOf(f, t) /\ SumOf(f, r \cup q) = f[x] + SumOf(f, r \cup t)
  BY <1>3, <1>8, SumRemove
<1>10. f[x] \in Nat /\ SumOf(f, t) \in Nat /\ SumOf(f, r) \in Nat
  BY <1>3, SumType
<1> HIDE DEF t, Bad
<1> QED BY <1>3, <1>7, <1>9, <1>10

\* A finite set of integers has a largest element.
LEMMA MaxOfFinite ==
  ASSUME NEW S, IsFiniteSet(S), \A y \in S : y \in Int, NEW q \in SUBSET S, q # {}
  PROVE  Max(q) \in q
<1> DEFINE Bad == {r \in SUBSET S : r # {} /\ ~\E x \in r : \A y \in r : x >= y}
<1>1. Bad = {}
  <2>1. SUFFICES ASSUME Bad # {} PROVE FALSE
    OBVIOUS
  <2>2. PICK r \in Bad : \A p \in Bad : p \subseteq r => p = r
    <3>1. Bad \subseteq SUBSET S
      OBVIOUS
    <3> HIDE DEF Bad
    <3> QED BY <2>1, <3>1, MinSub
  <2>3. PICK x \in r : TRUE
    BY <2>2
  <2>4. r \ {x} \notin Bad /\ r \ {x} \in SUBSET S
    BY <2>2
  <2>5. CASE r \ {x} = {}
    BY <2>2, <2>3, <2>5
  <2>6. CASE r \ {x} # {}
    <3>1. PICK m \in r \ {x} : \A y \in r \ {x} : m >= y
      BY <2>4, <2>6
    <3>2. m \in Int /\ x \in Int /\ \A y \in r : y \in Int
      BY <2>2, <2>3
    <3>3. CASE m >= x
      BY <3>1, <3>2, <3>3, <2>2
    <3>4. CASE ~(m >= x)
      BY <3>1, <3>2, <3>4, <2>2
    <3> QED BY <3>3, <3>4
  <2> QED BY <2>5, <2>6
<1>2. \E x \in q : \A y \in q : x >= y
  BY <1>1
<1> QED BY <1>2 DEF Max

\* g keeps the elements of D, of the prefixes of s.
Keeps(g, s, D) ==
  g = [q \in SUBSET DOMAIN s |->
         IF q = {} THEN <<>>
         ELSE IF s[Max(q)] \in D THEN Append(g[q \ {Max(q)}], s[Max(q)]) ELSE g[q \ {Max(q)}]]

\* Keep, as FoldLeft defines it.
LEMMA KeepUnfold ==
  ASSUME NEW s, NEW D
  PROVE  Keep(s, D) = (CHOOSE g : Keeps(g, s, D))[DOMAIN s]
  BY DEF Keep, FoldLeft, MapThenFoldSet, Keeps

\* There is a function that keeps the elements of D.
LEMMA KeepsExist ==
  ASSUME NEW A, NEW s \in Seq(A), NEW D
  PROVE  \E g : Keeps(g, s, D)
<1> DEFINE S == DOMAIN s
           pick == [q \in SUBSET S |-> Max(q)]
           H == [i \in S |-> [v \in Seq(A) |-> IF s[i] \in D THEN Append(v, s[i]) ELSE v]]
<1>1. IsFiniteSet(S) /\ \A y \in S : y \in Int
  <2>1. S = 1..Len(s) /\ Len(s) \in Nat
    OBVIOUS
  <2> QED BY <2>1, FS_Interval
<1>2. \A q \in SUBSET S : q # {} => pick[q] \in q
  BY <1>1, MaxOfFinite
<1>3. H \in [S -> [Seq(A) -> Seq(A)]]
  OBVIOUS
<1>4. PICK g \in [SUBSET S -> Seq(A)] : FoldsOver(g, S, pick, H, <<>>)
  <2>1. <<>> \in Seq(A)
    OBVIOUS
  <2> HIDE DEF pick, H, S
  <2> QED BY <1>1, <1>2, <1>3, <2>1, FoldExists
<1>5. ASSUME NEW q \in SUBSET S
      PROVE  g[q] = IF q = {} THEN <<>>
                    ELSE IF s[Max(q)] \in D THEN Append(g[q \ {Max(q)}], s[Max(q)]) ELSE g[q \ {Max(q)}]
  <2>1. g[q] = IF q = {} THEN <<>> ELSE H[pick[q]][g[q \ {pick[q]}]]
    BY <1>4 DEF FoldsOver
  <2>2. CASE q = {}
    BY <2>1, <2>2
  <2>3. CASE q # {}
    <3>1. Max(q) \in S /\ pick[q] = Max(q)
      BY <1>2, <2>3
    <3>2. g[q \ {Max(q)}] \in Seq(A)
      OBVIOUS
    <3>3. g[q] = H[Max(q)][g[q \ {Max(q)}]]
      BY <2>1, <2>3, <3>1
    <3>4. ASSUME NEW i \in S, NEW v \in Seq(A)
          PROVE  H[i][v] = IF s[i] \in D THEN Append(v, s[i]) ELSE v
      OBVIOUS
    <3> HIDE DEF H
    <3>5. H[Max(q)][g[q \ {Max(q)}]] = IF s[Max(q)] \in D THEN Append(g[q \ {Max(q)}], s[Max(q)]) ELSE g[q \ {Max(q)}]
      BY <3>1, <3>2, <3>4
    <3> QED BY <2>3, <3>3, <3>5
  <2> QED BY <2>2, <2>3
<1>6. Keeps(g, s, D)
  BY <1>4, <1>5 DEF Keeps
<1> QED BY <1>6

\* Keep selects the elements of D and repeats none.
LEMMA KeepSelects ==
  ASSUME NEW A, NEW s \in Seq(A), NEW D
  PROVE  /\ Keep(s, D) \in Seq(A)
         /\ ToSet(Keep(s, D)) = ToSet(s) \cap D
         /\ IsInjective(s) => IsInjective(Keep(s, D))
<1> DEFINE S == DOMAIN s
           c == CHOOSE g : Keeps(g, s, D)
           Right(q) == /\ c[q] \in Seq(A)
                       /\ ToSet(c[q]) = {s[i] : i \in q} \cap D
                       /\ IsInjective(s) => IsInjective(c[q])
           Bad == {q \in SUBSET S : ~Right(q)}
<1>1. IsFiniteSet(S) /\ \A y \in S : y \in Int
  <2>1. S = 1..Len(s) /\ Len(s) \in Nat
    OBVIOUS
  <2> QED BY <2>1, FS_Interval
<1>2. Keeps(c, s, D)
  BY KeepsExist
<1>3. SUFFICES ASSUME Bad # {} PROVE FALSE
  <2>1. Right(S)
    BY <1>3
  <2>2. Keep(s, D) = c[S]
    BY KeepUnfold
  <2>3. ToSet(s) = {s[i] : i \in S}
    BY DEF ToSet
  <2> HIDE DEF c
  <2> QED BY <2>1, <2>2, <2>3
<1> HIDE DEF c
<1>4. PICK q \in Bad : \A p \in Bad : p \subseteq q => p = q
  <2>1. Bad \subseteq SUBSET S
    OBVIOUS
  <2> HIDE DEF Bad, S
  <2> QED BY <1>1, <1>3, <2>1, MinSub
<1>5. q \in SUBSET S /\ ~Right(q)
  BY <1>4
<1> DEFINE m == Max(q)
           p == q \ {m}
<1>6. c[q] = IF q = {} THEN <<>> ELSE IF s[m] \in D THEN Append(c[p], s[m]) ELSE c[p]
  BY <1>2, <1>5 DEF Keeps
<1>7. CASE q = {}
  <2>1. c[q] = <<>>
    BY <1>6, <1>7
  <2> QED BY <2>1, <1>5, <1>7 DEF ToSet, IsInjective
<1>8. CASE q # {}
  <2>1. m \in q
    BY <1>1, <1>5, <1>8, MaxOfFinite
  <2>2. p \notin Bad /\ p \in SUBSET S /\ m \in S /\ m \notin p
    BY <1>4, <1>5, <2>1
  <2>3. Right(p)
    BY <2>2
  <2> HIDE DEF m, Bad
  <2>4. {s[i] : i \in q} = {s[i] : i \in p} \cup {s[m]}
    BY <2>1
  <2>5. CASE s[m] \notin D
    <3>1. c[q] = c[p]
      BY <1>6, <1>8, <2>5
    <3>2. {s[i] : i \in q} \cap D = {s[i] : i \in p} \cap D
      BY <2>4, <2>5
    <3> QED BY <3>1, <3>2, <2>3, <1>5
  <2>6. CASE s[m] \in D
    <3> DEFINE e == c[p]
               x == s[m]
    <3>1. c[q] = Append(e, x)
      BY <1>6, <1>8, <2>6
    <3>2. x \in A /\ e \in Seq(A)
      BY <2>2, <2>3
    <3>3. ToSet(e) = {s[i] : i \in p} \cap D
      BY <2>3
    <3> HIDE DEF e, p
    <3>4. /\ Append(e, x) \in Seq(A) /\ DOMAIN Append(e, x) = 1..(Len(e) + 1)
          /\ \A i \in DOMAIN e : Append(e, x)[i] = e[i]
          /\ Append(e, x)[Len(e) + 1] = x /\ DOMAIN e = 1..Len(e) /\ Len(e) \in Nat
      BY <3>2
    <3>5. ToSet(Append(e, x)) = ToSet(e) \cup {x}
      BY <3>4 DEF ToSet
    <3>6. ToSet(c[q]) = {s[i] : i \in q} \cap D
      BY <3>1, <3>3, <3>5, <2>4, <2>6
    <3>7. ASSUME IsInjective(s) PROVE IsInjective(c[q])
      <4>1. x \notin {s[i] : i \in p}
        BY <3>7, <2>2 DEF IsInjective
      <4>2. \A i \in DOMAIN e : e[i] # x
        BY <4>1, <3>3 DEF ToSet
      <4>3. IsInjective(e)
        BY <2>3, <3>7 DEF e
      <4> QED BY <4>2, <4>3, <3>1, <3>4 DEF IsInjective
    <3> QED BY <3>1, <3>4, <3>6, <3>7, <1>5
  <2> QED BY <2>5, <2>6
<1> QED BY <1>7, <1>8
-----------------------------------------------------------------------------
(* Sequences without repetition, and the elements they have.               *)

\* The empty sequence and the type of the elements.
LEMMA SetOfSeq ==
  ASSUME NEW A, NEW s \in Seq(A)
  PROVE  /\ ToSet(s) \in SUBSET A
         /\ s = <<>> <=> ToSet(s) = {}
<1>1. DOMAIN s = 1..Len(s) /\ Len(s) \in Nat /\ \A i \in DOMAIN s : s[i] \in A
  OBVIOUS
<1>2. s # <<>> => 1 \in DOMAIN s
  OBVIOUS
<1>3. s = <<>> => DOMAIN s = {}
  OBVIOUS
<1> QED BY <1>1, <1>2, <1>3 DEF ToSet

\* The empty sequence has no elements.
LEMMA SetOfEmpty == ToSet(<<>>) = {} /\ IsInjective(<<>>)
  BY DEF ToSet, IsInjective

\* Append adds an element.
LEMMA SetOfAppend ==
  ASSUME NEW A, NEW s \in Seq(A), NEW x \in A
  PROVE  /\ Append(s, x) \in Seq(A)
         /\ ToSet(Append(s, x)) = ToSet(s) \cup {x}
         /\ IsInjective(s) /\ x \notin ToSet(s) => IsInjective(Append(s, x))
<1>1. /\ Append(s, x) \in Seq(A) /\ DOMAIN Append(s, x) = 1..(Len(s) + 1)
      /\ \A i \in DOMAIN s : Append(s, x)[i] = s[i]
      /\ Append(s, x)[Len(s) + 1] = x /\ DOMAIN s = 1..Len(s) /\ Len(s) \in Nat
  OBVIOUS
<1>2. ToSet(Append(s, x)) = ToSet(s) \cup {x}
  BY <1>1 DEF ToSet
<1>3. ASSUME IsInjective(s), x \notin ToSet(s) PROVE IsInjective(Append(s, x))
  <2>1. \A i \in DOMAIN s : s[i] # x
    BY <1>3 DEF ToSet
  <2> QED BY <1>1, <1>3, <2>1 DEF IsInjective
<1> QED BY <1>1, <1>2, <1>3

\* What is behind the head, also if there is nothing.
LEMMA SubSeqType ==
  ASSUME NEW A, NEW s \in Seq(A)
  PROVE  SubSeq(s, 2, Len(s)) \in Seq(A)
  OBVIOUS

\* Tail removes the head.
LEMMA SetOfTail ==
  ASSUME NEW A, NEW s \in Seq(A), s # <<>>, IsInjective(s)
  PROVE  /\ Tail(s) \in Seq(A) /\ IsInjective(Tail(s))
         /\ Head(s) \in ToSet(s) /\ ToSet(Tail(s)) = ToSet(s) \ {Head(s)}
         /\ SubSeq(s, 2, Len(s)) = Tail(s)
<1>1. /\ Tail(s) \in Seq(A) /\ Head(s) = s[1] /\ Len(s) \in Nat \ {0}
      /\ DOMAIN s = 1..Len(s) /\ Len(Tail(s)) = Len(s) - 1 /\ DOMAIN Tail(s) = 1..(Len(s) - 1)
      /\ \A i \in 1..(Len(s) - 1) : Tail(s)[i] = s[i + 1]
  OBVIOUS
<1>2. IsInjective(Tail(s))
  <2> SUFFICES ASSUME NEW i \in 1..(Len(s) - 1), NEW j \in 1..(Len(s) - 1), Tail(s)[i] = Tail(s)[j]
               PROVE  i = j
    BY <1>1 DEF IsInjective
  <2>1. s[i + 1] = s[j + 1] /\ i + 1 \in DOMAIN s /\ j + 1 \in DOMAIN s
    BY <1>1
  <2>2. i + 1 = j + 1
    BY <2>1 DEF IsInjective
  <2> QED BY <2>2, <1>1
<1>3. Head(s) \in ToSet(s)
  BY <1>1 DEF ToSet
<1>4. ASSUME NEW x \in ToSet(Tail(s)) PROVE x \in ToSet(s) /\ x # Head(s)
  <2>1. PICK i \in 1..(Len(s) - 1) : x = Tail(s)[i]
    BY <1>1 DEF ToSet
  <2>2. x = s[i + 1] /\ i + 1 \in DOMAIN s /\ i + 1 # 1 /\ 1 \in DOMAIN s
    BY <1>1, <2>1
  <2>3. x # s[1]
    BY <2>2 DEF IsInjective
  <2> QED BY <2>2, <2>3, <1>1 DEF ToSet
<1>5. ASSUME NEW x \in ToSet(s), x # Head(s) PROVE x \in ToSet(Tail(s))
  <2>1. PICK i \in 1..Len(s) : x = s[i]
    BY <1>1 DEF ToSet
  <2>2. i # 1
    BY <2>1, <1>1, <1>5
  <2>3. i - 1 \in 1..(Len(s) - 1) /\ (i - 1) + 1 = i
    BY <2>2, <1>1
  <2>4. Tail(s)[i - 1] = x
    BY <2>1, <2>3, <1>1
  <2> QED BY <2>3, <2>4, <1>1 DEF ToSet
<1>6. SubSeq(s, 2, Len(s)) = Tail(s)
  <2>1. /\ SubSeq(s, 2, Len(s)) \in Seq(A) /\ Len(SubSeq(s, 2, Len(s))) = Len(s) - 1
        /\ \A i \in 1..(Len(s) - 1) : SubSeq(s, 2, Len(s))[i] = s[i + 1]
    BY <1>1
  <2> QED BY <1>1, <2>1
<1>7. ToSet(Tail(s)) = ToSet(s) \ {Head(s)}
  BY <1>4, <1>5
<1> QED BY <1>1, <1>2, <1>3, <1>6, <1>7

\* Concatenation joins the elements.
LEMMA SetOfConcat ==
  ASSUME NEW A, NEW s \in Seq(A), NEW r \in Seq(A)
  PROVE  /\ s \o r \in Seq(A) /\ ToSet(s \o r) = ToSet(s) \cup ToSet(r)
         /\ IsInjective(s) /\ IsInjective(r) /\ ToSet(s) \cap ToSet(r) = {} => IsInjective(s \o r)
<1> DEFINE c == s \o r
           n == Len(s)
           k == Len(r)
<1>1. /\ c \in Seq(A) /\ n \in Nat /\ k \in Nat
      /\ DOMAIN s = 1..n /\ DOMAIN r = 1..k /\ DOMAIN c = 1..(n + k)
      /\ \A i \in 1..n : c[i] = s[i]
      /\ \A i \in (n + 1)..(n + k) : c[i] = r[i - n]
  OBVIOUS
<1> HIDE DEF c, n, k
<1>2. ASSUME NEW x \in ToSet(c) PROVE x \in ToSet(s) \cup ToSet(r)
  <2>1. PICK i \in 1..(n + k) : x = c[i]
    BY <1>1 DEF ToSet
  <2>2. CASE i <= n
    BY <1>1, <2>1, <2>2 DEF ToSet
  <2>3. CASE ~(i <= n)
    <3>1. i - n \in 1..k /\ x = r[i - n]
      BY <1>1, <2>1, <2>3
    <3> QED BY <1>1, <3>1 DEF ToSet
  <2> QED BY <2>2, <2>3
<1>3. ASSUME NEW x \in ToSet(s) PROVE x \in ToSet(c)
  <2>1. PICK i \in 1..n : x = s[i]
    BY <1>1 DEF ToSet
  <2>2. i \in 1..(n + k) /\ c[i] = x
    BY <1>1, <2>1
  <2> QED BY <1>1, <2>2 DEF ToSet
<1>4. ASSUME NEW x \in ToSet(r) PROVE x \in ToSet(c)
  <2>1. PICK i \in 1..k : x = r[i]
    BY <1>1 DEF ToSet
  <2>2. n + i \in (n + 1)..(n + k) /\ n + i \in 1..(n + k) /\ (n + i) - n = i
    BY <1>1
  <2>3. c[n + i] = x
    BY <1>1, <2>1, <2>2
  <2> QED BY <1>1, <2>2, <2>3 DEF ToSet
<1>5. ASSUME IsInjective(s), IsInjective(r), ToSet(s) \cap ToSet(r) = {} PROVE IsInjective(c)
  <2> SUFFICES ASSUME NEW i \in 1..(n + k), NEW j \in 1..(n + k), c[i] = c[j] PROVE i = j
    BY <1>1 DEF IsInjective
  <2>1. \A m \in 1..n, l \in 1..k : s[m] # r[l]
    <3> SUFFICES ASSUME NEW m \in 1..n, NEW l \in 1..k PROVE s[m] # r[l]
      OBVIOUS
    <3>1. s[m] \in ToSet(s) /\ r[l] \in ToSet(r)
      BY <1>1 DEF ToSet
    <3> QED BY <3>1, <1>5
  <2>2. CASE i <= n /\ j <= n
    <3>1. c[i] = s[i] /\ c[j] = s[j] /\ i \in DOMAIN s /\ j \in DOMAIN s
      BY <1>1, <2>2
    <3> QED BY <3>1, <1>5 DEF IsInjective
  <2>3. CASE i <= n /\ ~(j <= n)
    <3>1. c[i] = s[i] /\ c[j] = r[j - n] /\ j - n \in 1..k /\ i \in 1..n
      BY <1>1, <2>3
    <3> QED BY <3>1, <2>1
  <2>4. CASE ~(i <= n) /\ j <= n
    <3>1. c[j] = s[j] /\ c[i] = r[i - n] /\ i - n \in 1..k /\ j \in 1..n
      BY <1>1, <2>4
    <3>2. s[j] # r[i - n]
      BY <3>1, <2>1
    <3> QED BY <3>1, <3>2
  <2>5. CASE ~(i <= n) /\ ~(j <= n)
    <3>1. c[i] = r[i - n] /\ c[j] = r[j - n] /\ i - n \in 1..k /\ j - n \in 1..k
      BY <1>1, <2>5
    <3>2. i - n = j - n
      BY <3>1, <1>1, <1>5 DEF IsInjective
    <3> QED BY <3>2, <1>1
  <2> QED BY <2>2, <2>3, <2>4, <2>5
<1> QED BY <1>1, <1>2, <1>3, <1>4, <1>5 DEF c

-----------------------------------------------------------------------------
(* The inductive invariant.                                                *)

\* The assertions that the runs show to fail, and the error of a flush.
Panics == {"panicStale", "panicFree", "panicFinish", "panicError"}

\* The states of an indexing goroutine, and those of the holder of fullFlushLock.
Indexing == {"idle", "queued", "obtain", "get", "new", "check", "index", "after", "release", "failed",
             "free", "freeFailed", "post", "flush", "next", "iter", "scan"}
Flushing == {"idle", "filter", "lockAll", "next", "flush", "iter", "scan", "wait", "finish",
             "abort", "abortAll", "abortWait", "done"}

\* In these a goroutine holds the lock of its DWPT; in these it may carry one to flush.
Holding == {"check", "index", "after", "release", "failed", "free", "freeFailed"}
Carrying == {"release", "free", "post", "flush"}

\* The flush control has begun a full flush and still looks for DWPTs.
Marking == {"filter", "lockAll"}
Outside == {"idle", "abort", "abortAll", "abortWait", "done"}

\* TypeOK but for the counters, which Accounts is about.
DwptTypes ==
    /\ lock \in [DWPTs -> Actors \cup {None}]
    /\ gen \in [DWPTs -> Nat] /\ docs \in [DWPTs -> Nat] /\ committed \in [DWPTs -> Nat]

SetTypes ==
    /\ pending \in SUBSET DWPTs /\ registered \in SUBSET DWPTs /\ freeList \in SUBSET DWPTs
    /\ flushing \in SUBSET DWPTs /\ flushed \in SUBSET DWPTs /\ aborted \in SUBSET DWPTs

SeqTypes == flushQueue \in Seq(DWPTs) /\ blocked \in Seq(DWPTs) /\ buffer \in Seq(DWPTs)

FlagTypes ==
    /\ queueGen \in Nat /\ calls \in Nat
    /\ fullFlush \in BOOLEAN /\ markDone \in BOOLEAN /\ stalled \in BOOLEAN /\ closed \in BOOLEAN
    /\ dwLock \in Actors \cup {None}

GoTypes ==
    /\ pc \in [Actors -> States]
    /\ mine \in [Actors -> DWPTs \cup {None}] /\ out \in [Actors -> DWPTs \cup {None}]
    /\ seen \in [Actors -> [full : BOOLEAN, done : BOOLEAN]]
    /\ todo \in [Actors -> SUBSET DWPTs]

Types == DwptTypes /\ SetTypes /\ SeqTypes /\ FlagTypes /\ GoTypes

\* A panic is everybody's; nobody is where it does not belong.
Roles ==
    \/ \A t \in Actors : pc[t] \in Panics
    \/ (\A t \in Threads : pc[t] \in Indexing) /\ pc[Flusher] \in Flushing

\* Where a DWPT is: in the pool, flushing, blocked, flushed; a DWPT that does not
\* exist yet is nowhere; documents are somewhere.
Places ==
    /\ freeList \subseteq registered
    /\ registered \cap flushing = {} /\ registered \cap ToSet(blocked) = {}
    /\ flushing \cap ToSet(blocked) = {}
    /\ flushed \cap registered = {} /\ flushed \cap flushing = {} /\ flushed \cap ToSet(blocked) = {}
    /\ flushing \subseteq pending /\ ToSet(blocked) \subseteq pending
    /\ \A d \in DWPTs :
          gen[d] = 0 => /\ d \notin registered \cup pending \cup flushed
                        /\ docs[d] = 0
    /\ \A d \in DWPTs : docs[d] > 0 => d \in registered \cup InFlush \cup flushed \cup aborted
    /\ \A d \in DWPTs : committed[d] <= docs[d]

\* Who flushes: a DWPT that is flushing is queued, or in the buffer of the full flush,
\* or in the hands of a goroutine, and only there.
Hands ==
    /\ IsInjective(flushQueue) /\ IsInjective(buffer) /\ IsInjective(blocked)
    /\ ToSet(flushQueue) \subseteq flushing /\ ToSet(buffer) \subseteq flushing
    /\ ToSet(flushQueue) \cap ToSet(buffer) = {}
    /\ \A t \in Actors :
          out[t] # None => out[t] \in flushing /\ out[t] \notin ToSet(flushQueue) \cup ToSet(buffer)
    /\ \A t, u \in Actors : out[t] = out[u] /\ out[t] # None => t = u
    /\ \A d \in flushing : d \in ToSet(flushQueue) \cup ToSet(buffer) \/ \E t \in Actors : out[t] = d
    /\ blocked # <<>> => fullFlush

\* A goroutine that has obtained a DWPT holds its lock, and the DWPT is in the pool
\* until the goroutine itself takes it away.
Holders ==
    \A t \in Threads :
       pc[t] \in Holding =>
          /\ mine[t] \in DWPTs /\ lock[mine[t]] = t
          /\ mine[t] \in registered \/ (pc[t] = "release" /\ mine[t] \in pending)

\* A goroutine has a DWPT to flush when it says so, and only on its way there.
Carriers ==
    /\ \A t \in Actors : out[t] # None /\ pc[t] \notin Panics => pc[t] \in Carrying
    /\ \A t \in Actors : pc[t] = "flush" => out[t] # None

\* The full flush and the rollback hold locks of DWPTs of the pool only.
Collected ==
    pc[Flusher] \notin Panics =>
       \A d \in Locked : /\ d \in registered /\ pc[Flusher] \in {"lockAll", "abortAll"}
                         /\ pc[Flusher] = "lockAll" => gen[d] = queueGen - 1

\* Who holds what.
Locks == Holders /\ Carriers /\ Collected

\* The flags, by what the holder of fullFlushLock is doing.
Flags ==
    /\ pc[Flusher] \in Outside => ~fullFlush /\ ~markDone
    /\ pc[Flusher] \in Outside \ {"idle"} => closed

\* A DWPT that is not flushing yet is bound to the current delete queue, or to the
\* one before it while a full flush is still looking for such DWPTs.
Generations ==
    /\ \A d \in DWPTs : gen[d] <= queueGen
    /\ queueGen >= 1 /\ (pc[Flusher] \in Marking => queueGen >= 2)
    /\ pc[Flusher] \notin Panics =>
          \A d \in registered \cup ToSet(blocked) :
             gen[d] = queueGen \/ (gen[d] = queueGen - 1 /\ pc[Flusher] \in Marking)

\* The full flush overlooks no DWPT of the pool, and has waited for the others.
Searched ==
    /\ pc[Flusher] = "lockAll" =>
          /\ \A d \in todo[Flusher] : gen[d] = queueGen - 1
          /\ \A d \in registered : gen[d] = queueGen - 1 => d \in todo[Flusher] \/ d \in Locked
    /\ pc[Flusher] = "finish" => \A d \in flushing : gen[d] = queueGen

\* Nor does the rollback.
Drained ==
    /\ pc[Flusher] = "abortAll" => registered \subseteq todo[Flusher] \cup Locked
    /\ pc[Flusher] \in {"abortWait", "done"} => registered = {}
    /\ pc[Flusher] = "done" => flushing = {}

\* What the full flush and the rollback have seen to.
Phases == Flags /\ Generations /\ Searched /\ Drained

\* The counters.
Accounts ==
    /\ BytesAccounted
    /\ numPending \in Int /\ PendingCounted

\* The inductive invariant.
FlushInv == Types /\ Roles /\ Places /\ Hands /\ Locks /\ Phases /\ Accounts
-----------------------------------------------------------------------------
(* What DoAfterDocument does: nothing, or it commits the bytes and marks   *)
(* the DWPTs of M; then its DWPT stays, is blocked, or is to be flushed.   *)

Skips ==
    UNCHANGED <<registered, freeList, committed, pending, activeBytes, flushBytes, numPending,
                stalled,
                flushQueue, blocked, flushing, out>>

Commits(d, M) ==
    /\ committed' = [committed EXCEPT ![d] = docs[d]]
    /\ pending' = pending \cup M
    /\ activeBytes' = activeBytes - (Bytes(M) + (IF d \in M THEN docs[d] - committed[d] ELSE 0))
                        + (IF d \in pending THEN 0 ELSE docs[d] - committed[d])
    /\ flushBytes' = flushBytes + (Bytes(M) + (IF d \in M THEN docs[d] - committed[d] ELSE 0))
                        + (IF d \in pending THEN docs[d] - committed[d] ELSE 0)
    /\ stalled' = Stall(activeBytes', flushBytes')

Stays(d, M) ==
    /\ d \notin pending \cup M
    /\ numPending' = numPending + Cardinality(M)
    /\ UNCHANGED <<registered, freeList, flushQueue, blocked, flushing, out>>

Leaves(d, M) ==
    /\ d \in pending \cup M
    /\ numPending' = numPending + Cardinality(M) - 1
    /\ registered' = registered \ {d} /\ freeList' = freeList \ {d}

IsBlocked(t, d) ==
    /\ fullFlush
    /\ blocked' = Append(blocked, d)
    /\ out' = [out EXCEPT ![t] = First(flushQueue)]
    /\ flushQueue' = SubSeq(flushQueue, 2, Len(flushQueue))
    /\ UNCHANGED flushing

IsTaken(t, d) ==
    /\ ~fullFlush
    /\ flushing' = flushing \cup {d}
    /\ out' = [out EXCEPT ![t] = d]
    /\ UNCHANGED <<flushQueue, blocked>>

-----------------------------------------------------------------------------
(* Types.                                                                  *)

USE FlushControlAssumption DEF Actors

\* The stall state is a Boolean.
LEMMA StallType == \A a, b : Stall(a, b) \in BOOLEAN
  BY Zenon DEF Stall

\* The DWPTs that DoAfterDocument marks are in the pool and not marked yet.
LEMMA MarksInPool ==
  ASSUME NEW d \in registered, NEW M \in Marks(d)
  PROVE  M \in SUBSET (registered \ pending)
<1>1. CASE d \in pending
  BY <1>1 DEF Marks
<1>2. CASE d \notin pending
  <2>0. PICK r \in 0..RamBuffer :
           \E N \in OnChange(d, activeBytes + docs[d] - committed[d], r) : M = HardLimit(d, N)
    BY <1>2 DEF Marks
  <2>1. PICK N \in OnChange(d, activeBytes + docs[d] - committed[d], r) : M = HardLimit(d, N)
    BY <2>0
  <2>2. N = {d} \/ N = {} \/ \E e \in Largest(d) : N = {e}
    BY <2>1 DEF OnChange
  <2>3. Largest(d) \subseteq registered \ pending
    BY DEF Largest
  <2>4. N \subseteq registered \ pending
    BY <1>2, <2>2, <2>3
  <2> QED BY <1>2, <2>1, <2>4 DEF HardLimit
<1> QED BY <1>1, <1>2

\* The cases of DoAfterDocument.
LEMMA AfterDocument ==
  ASSUME Types, Locks, NEW t \in Threads, DoAfterDocument(t)
  PROVE  /\ mine[t] \in registered /\ mine[t] \in DWPTs /\ lock[mine[t]] = t
         /\ pc[t] = "after" /\ pc' = [pc EXCEPT ![t] = "release"]
         /\ UNCHANGED <<lock, gen, docs, queueGen, fullFlush, markDone, closed, buffer,
                        flushed, aborted,
                        mine, seen, todo, calls, dwLock>>
         /\ \/ Skips
            \/ \E M \in SUBSET (registered \ pending) :
                  /\ Commits(mine[t], M)
                  /\ \/ Stays(mine[t], M)
                     \/ Leaves(mine[t], M) /\ (IsBlocked(t, mine[t]) \/ IsTaken(t, mine[t]))
<1>1. /\ pc[t] = "after" /\ pc' = [pc EXCEPT ![t] = "release"]
      /\ UNCHANGED <<lock, gen, docs, queueGen, fullFlush, markDone, closed, buffer, mine,
                     seen, todo, calls, dwLock>>
  BY DEF DoAfterDocument, Goto, dwptVars, fullVars
<1>2. mine[t] \in registered /\ mine[t] \in DWPTs /\ lock[mine[t]] = t
  BY <1>1 DEF Locks, Holders, Holding
<1> DEFINE d == mine[t]
           delta == docs[d] - committed[d]
<1>3. CASE MaxBufferedDocs = 0 /\ delta < Granularity
  BY <1>1, <1>2, <1>3 DEF DoAfterDocument, Skips, poolVars, byteVars, listVars, historyVars
<1>4. CASE ~(MaxBufferedDocs = 0 /\ delta < Granularity)
  <2>1. PICK M \in Marks(d) :
              /\ Account(d, delta, M)
              /\ UNCHANGED <<flushed, aborted>>
              /\ IF d \notin pending \cup M
                 THEN /\ numPending' = numPending + Cardinality(M)
                      /\ UNCHANGED <<poolVars, flushQueue, blocked, flushing, out>>
                 ELSE /\ numPending' = numPending + Cardinality(M) - 1
                      /\ Checkout(d)
                      /\ IF fullFlush
                         THEN /\ blocked' = Append(blocked, d)
                              /\ out' = [out EXCEPT ![t] = First(flushQueue)]
                              /\ flushQueue' = SubSeq(flushQueue, 2, Len(flushQueue))
                              /\ UNCHANGED flushing
                         ELSE /\ flushing' = flushing \cup {d}
                              /\ out' = [out EXCEPT ![t] = d]
                              /\ UNCHANGED <<flushQueue, blocked>>
    BY <1>4 DEF DoAfterDocument, historyVars
  <2>2. M \in SUBSET (registered \ pending)
    BY <1>2, <2>1, MarksInPool
  <2>3. docs[d] \in Nat /\ committed[d] \in Nat
    BY <1>2 DEF Types, DwptTypes
  <2>4. committed[d] + delta = docs[d]
    BY <2>3
  <2>5. Commits(d, M)
    BY <2>1, <2>4 DEF Account, Commits
  <2>6. CASE d \notin pending \cup M
    BY <1>1, <1>2, <2>1, <2>2, <2>5, <2>6 DEF Stays, poolVars
  <2>7. CASE d \in pending \cup M
    <3>1. Leaves(d, M)
      BY <2>1, <2>7 DEF Leaves, Checkout
    <3>2. IsBlocked(t, d) \/ IsTaken(t, d)
      BY <2>1, <2>7 DEF IsBlocked, IsTaken
    <3> QED BY <1>1, <1>2, <2>1, <2>2, <2>5, <3>1, <3>2
  <2> QED BY <2>6, <2>7
<1> QED BY <1>3, <1>4

\* The types of a DWPT's state.
LEMMA DwptTypesKept ==
  ASSUME Types, Locks, [Next]_vars
  PROVE  DwptTypes'
<1>1. ASSUME UNCHANGED <<lock, gen, docs, committed>> PROVE DwptTypes'
  BY <1>1 DEF DwptTypes, Types
<1>2. ASSUME NEW t \in Threads, PreUpdate(t) \/ PreUpdateQueued(t) \/ PreUpdateStalled(t) \/
  ObtainAndLock(t) \/ IndexClosed(t) \/ PostUpdate(t)
      PROVE  UNCHANGED <<lock, gen, docs, committed>>
  BY <1>2 DEF PreUpdate, Goto, dwptVars, poolVars, byteVars, fullVars, listVars, historyVars,
    PreUpdateQueued, PreUpdateStalled, ObtainAndLock, IndexClosed, PostUpdate
<1>3. ASSUME NEW t \in Actors, DoAfterFlush(t) \/ NextPendingFlush(t) \/ Iter(t) \/
  ScanPool(t) \/ ScanDone(t)
      PROVE  UNCHANGED <<lock, gen, docs, committed>>
  BY <1>3 DEF DoAfterFlush, Goto, PanicWith, dwptVars, poolVars, fullVars, byteVars, listVars,
    historyVars, NextPendingFlush, AfterFlush, Iter, ScanPool, CheckOutForFlush, Checkout,
    ScanDone
<1>4. ASSUME StartFullFlush \/ Filter \/ FullFlushMarkDone \/ WaitForFlush \/ FinishFullFlush \/
  AbortFullFlushes \/ Close \/ Abort \/ AbortPendingFlushes \/ AbortDone \/ UNCHANGED vars
      PROVE  UNCHANGED <<lock, gen, docs, committed>>
  BY <1>4 DEF StartFullFlush, Goto, PanicWith, dwptVars, poolVars, byteVars, listVars,
    historyVars, fullVars, Filter, FullFlushMarkDone, Locked, WaitForFlush, FinishFullFlush,
    AbortFullFlushes, AbortPending, Close, Abort, AbortPendingFlushes, AbortDone, vars, goVars
<1>5. ASSUME NEW t \in Threads, LockAndPoll(t) PROVE DwptTypes'
  BY <1>5 DEF LockAndPoll, Goto, Pollable, byteVars, fullVars, listVars, historyVars, DwptTypes,
    GoTypes, FlagTypes, Types
<1>6. ASSUME NEW t \in Threads, NewWriter(t) PROVE DwptTypes'
  BY <1>6 DEF NewWriter, Goto, byteVars, fullVars, listVars, historyVars, DwptTypes, GoTypes,
    FlagTypes, Types
<1>7. ASSUME NEW t \in Threads, CheckQueue(t) PROVE DwptTypes'
  BY <1>7 DEF CheckQueue, Goto, poolVars, byteVars, fullVars, listVars, historyVars, DwptTypes,
    GoTypes, FlagTypes, Types
<1>8. ASSUME NEW t \in Threads, IndexDocument(t) PROVE DwptTypes'
  <2>1. mine[t] \in DWPTs
    BY <1>8 DEF IndexDocument, Locks, Holders, Holding
  <2>2. docs' = [docs EXCEPT ![mine[t]] = docs[mine[t]] + 1] /\ UNCHANGED <<lock, gen, committed>>
    BY <1>8 DEF IndexDocument, byteVars
  <2>3. docs[mine[t]] + 1 \in Nat
    BY <2>1 DEF Types, DwptTypes
  <2> QED BY <2>1, <2>2, <2>3 DEF Types, DwptTypes
<1>9. ASSUME NEW t \in Threads, DoAfterDocument(t) PROVE DwptTypes'
  <2>1. mine[t] \in DWPTs /\ UNCHANGED <<lock, gen, docs>>
    BY <1>9, AfterDocument
  <2>2. committed' = committed \/ committed' = [committed EXCEPT ![mine[t]] = docs[mine[t]]]
    BY <1>9, AfterDocument DEF Skips, Commits
  <2> QED BY <2>1, <2>2 DEF Types, DwptTypes
<1>10. ASSUME NEW t \in Threads, Release(t) PROVE DwptTypes'
  BY <1>10 DEF Release, Goto, Stale, poolVars, byteVars, fullVars, listVars, historyVars,
    DwptTypes, GoTypes, FlagTypes, Types
<1>11. ASSUME NEW t \in Threads, MarksAsFreeAndUnlock(t) PROVE DwptTypes'
  BY <1>11 DEF MarksAsFreeAndUnlock, Goto, PanicWith, byteVars, fullVars, listVars, historyVars,
    dwptVars, poolVars, DwptTypes, GoTypes, FlagTypes, Types
<1>12. ASSUME NEW d \in DWPTs, FilterAndLock(d) PROVE DwptTypes'
  BY <1>12 DEF FilterAndLock, poolVars, byteVars, fullVars, listVars, historyVars, DwptTypes,
    GoTypes, FlagTypes, Types
<1>13. ASSUME NEW d \in DWPTs, MarkOne(d) PROVE DwptTypes'
  BY <1>13 DEF MarkOne, Checkout, CheckOutForFlush, Locked, historyVars, goVars, DwptTypes,
    GoTypes, FlagTypes, Types
<1>14. ASSUME NEW d \in DWPTs, DoOnAbort(d) PROVE DwptTypes'
  BY <1>14 DEF DoOnAbort, Checkout, Locked, fullVars, goVars, DwptTypes, GoTypes, FlagTypes,
    Types
<1> QED
  BY <1>1, <1>2, <1>3, <1>4, <1>5, <1>6, <1>7, <1>8, <1>9, <1>10, <1>11, <1>12, <1>13, <1>14
    DEF Next, Obtain, Update, DoFlush, FullFlush, Rollback

\* The types of the sets of DWPTs.
LEMMA SetTypesKept ==
  ASSUME Types, Locks, [Next]_vars
  PROVE  SetTypes'
<1>1. ASSUME UNCHANGED <<pending, registered, freeList, flushing, flushed, aborted>> PROVE SetTypes'
  BY <1>1 DEF SetTypes, Types
<1>2. ASSUME NEW t \in Threads, PreUpdate(t) \/ PreUpdateQueued(t) \/ PreUpdateStalled(t) \/
  ObtainAndLock(t) \/ CheckQueue(t) \/ IndexDocument(t) \/ IndexClosed(t) \/ Release(t) \/
  PostUpdate(t)
      PROVE  UNCHANGED <<pending, registered, freeList, flushing, flushed, aborted>>
  BY <1>2 DEF PreUpdate, Goto, dwptVars, poolVars, byteVars, fullVars, listVars, historyVars,
    PreUpdateQueued, PreUpdateStalled, ObtainAndLock, CheckQueue, IndexDocument, IndexClosed,
    Release, Stale, PostUpdate
<1>3. ASSUME NEW t \in Actors, NextPendingFlush(t) \/ Iter(t) \/ ScanDone(t)
      PROVE  UNCHANGED <<pending, registered, freeList, flushing, flushed, aborted>>
  BY <1>3 DEF NextPendingFlush, Goto, AfterFlush, dwptVars, poolVars, fullVars, historyVars,
    Iter, byteVars, listVars, ScanDone
<1>4. ASSUME NEW d \in DWPTs, FilterAndLock(d)
      PROVE  UNCHANGED <<pending, registered, freeList, flushing, flushed, aborted>>
  BY <1>4 DEF FilterAndLock, poolVars, byteVars, fullVars, listVars, historyVars
<1>5. ASSUME StartFullFlush \/ Filter \/ WaitForFlush \/ Close \/ Abort \/ AbortDone \/
  UNCHANGED vars
      PROVE  UNCHANGED <<pending, registered, freeList, flushing, flushed, aborted>>
  BY <1>5 DEF StartFullFlush, Goto, PanicWith, dwptVars, poolVars, byteVars, listVars,
    historyVars, fullVars, Filter, WaitForFlush, Close, Abort, AbortDone, vars, goVars
<1>6. ASSUME NEW t \in Threads, LockAndPoll(t) PROVE SetTypes'
  BY <1>6 DEF LockAndPoll, Goto, Pollable, byteVars, fullVars, listVars, historyVars, SetTypes,
    GoTypes, SeqTypes, Types
<1>7. ASSUME NEW t \in Threads, NewWriter(t) PROVE SetTypes'
  BY <1>7 DEF NewWriter, Goto, byteVars, fullVars, listVars, historyVars, SetTypes, GoTypes,
    SeqTypes, Types
<1>8. ASSUME NEW t \in Threads, DoAfterDocument(t) PROVE SetTypes'
  <2>1. mine[t] \in DWPTs /\ UNCHANGED <<flushed, aborted>>
    BY <1>8, AfterDocument
  <2>2. CASE Skips
    BY <2>1, <2>2 DEF Skips, Types, SetTypes
  <2>3. CASE ~Skips
    <3>1. PICK M \in SUBSET (registered \ pending) :
              Commits(mine[t], M) /\ (Stays(mine[t], M) \/
                (Leaves(mine[t], M) /\ (IsBlocked(t, mine[t]) \/ IsTaken(t, mine[t]))))
      BY <1>8, <2>3, AfterDocument
    <3>2. pending' = pending \cup M
      BY <3>1 DEF Commits
    <3>3. registered' \subseteq registered /\ freeList' \subseteq freeList
      BY <3>1 DEF Stays, Leaves
    <3>4. flushing' \subseteq flushing \cup {mine[t]}
      BY <3>1 DEF Stays, IsBlocked, IsTaken
    <3> QED BY <2>1, <3>2, <3>3, <3>4 DEF Types, SetTypes
  <2> QED BY <2>2, <2>3
<1>9. ASSUME NEW t \in Threads, MarksAsFreeAndUnlock(t) PROVE SetTypes'
  BY <1>9 DEF MarksAsFreeAndUnlock, Goto, PanicWith, byteVars, fullVars, listVars, historyVars,
    dwptVars, poolVars, SetTypes, GoTypes, SeqTypes, Types
<1>10. ASSUME NEW t \in Actors, DoAfterFlush(t) PROVE SetTypes'
  BY <1>10 DEF DoAfterFlush, Goto, PanicWith, dwptVars, poolVars, fullVars, byteVars, listVars,
    historyVars, SetTypes, GoTypes, SeqTypes, Types
<1>11. ASSUME NEW t \in Actors, ScanPool(t) PROVE SetTypes'
  BY <1>11 DEF ScanPool, Goto, CheckOutForFlush, dwptVars, poolVars, fullVars, historyVars,
    Checkout, SetTypes, GoTypes, SeqTypes, Types
<1>12. ASSUME NEW d \in DWPTs, MarkOne(d) PROVE SetTypes'
  BY <1>12 DEF MarkOne, Checkout, CheckOutForFlush, Locked, historyVars, goVars, SetTypes,
    GoTypes, SeqTypes, Types
<1>13. ASSUME FullFlushMarkDone PROVE SetTypes'
  <2>1. ToSet(Pruned(queueGen - 1)) \in SUBSET DWPTs
    BY KeepSelects, SetOfSeq DEF Pruned, Types, SeqTypes
  <2>2. flushing' \in {flushing, flushing \cup ToSet(Pruned(queueGen - 1))}
    BY <1>13 DEF FullFlushMarkDone, PanicWith, listVars
  <2>3. UNCHANGED <<pending, registered, freeList, flushed, aborted>>
    BY <1>13 DEF FullFlushMarkDone, PanicWith, listVars, historyVars, poolVars, byteVars
  <2> QED BY <2>1, <2>2, <2>3 DEF Types, SetTypes
<1>14. ASSUME FinishFullFlush PROVE SetTypes'
  <2>1. ToSet(blocked) \in SUBSET DWPTs
    BY SetOfSeq DEF Types, SeqTypes
  <2>2. flushing' \in {flushing, ToSet(blocked)}
    BY <1>14 DEF FinishFullFlush, PanicWith, listVars
  <2>3. UNCHANGED <<pending, registered, freeList, flushed, aborted>>
    BY <1>14 DEF FinishFullFlush, PanicWith, listVars, historyVars, poolVars, byteVars
  <2> QED BY <2>1, <2>2, <2>3 DEF Types, SetTypes
<1>15. ASSUME AbortFullFlushes PROVE SetTypes'
  <2>1. ToSet(blocked) \in SUBSET DWPTs /\ ToSet(flushQueue) \in SUBSET DWPTs
    BY SetOfSeq DEF Types, SeqTypes
  <2>2. flushing' \subseteq flushing /\ aborted' = aborted \cup ToSet(flushQueue) \cup ToSet(blocked)
    BY <1>15 DEF AbortFullFlushes, AbortPending
  <2>3. UNCHANGED <<pending, registered, freeList, flushed>>
    BY <1>15 DEF AbortFullFlushes, poolVars
  <2> QED BY <2>1, <2>2, <2>3 DEF Types, SetTypes
<1>16. ASSUME NEW d \in DWPTs, DoOnAbort(d) PROVE SetTypes'
  BY <1>16 DEF DoOnAbort, Checkout, Locked, fullVars, goVars, SetTypes, GoTypes, SeqTypes, Types
<1>17. ASSUME AbortPendingFlushes PROVE SetTypes'
  <2>1. ToSet(blocked) \in SUBSET DWPTs /\ ToSet(flushQueue) \in SUBSET DWPTs
    BY SetOfSeq DEF Types, SeqTypes
  <2>2. flushing' \subseteq flushing /\ aborted' = aborted \cup ToSet(flushQueue) \cup ToSet(blocked)
    BY <1>17 DEF AbortPendingFlushes, AbortPending
  <2>3. UNCHANGED <<pending, registered, freeList, flushed>>
    BY <1>17 DEF AbortPendingFlushes, poolVars
  <2> QED BY <2>1, <2>2, <2>3 DEF Types, SetTypes
<1> QED
  BY <1>1, <1>2, <1>3, <1>4, <1>5, <1>6, <1>7, <1>8, <1>9, <1>10, <1>11, <1>12, <1>13, <1>14,
    <1>15, <1>16, <1>17 DEF Next, Obtain, Update, DoFlush, FullFlush, Rollback

\* The types of the queues of DWPTs.
LEMMA SeqTypesKept ==
  ASSUME Types, Locks, [Next]_vars
  PROVE  SeqTypes'
<1>1. ASSUME UNCHANGED <<flushQueue, blocked, buffer>> PROVE SeqTypes'
  BY <1>1 DEF SeqTypes, Types
<1>2. ASSUME NEW t \in Threads, PreUpdate(t) \/ PreUpdateQueued(t) \/ PreUpdateStalled(t) \/
  ObtainAndLock(t) \/ LockAndPoll(t) \/ NewWriter(t) \/ CheckQueue(t) \/ IndexDocument(t) \/
  IndexClosed(t) \/ Release(t) \/ MarksAsFreeAndUnlock(t) \/ PostUpdate(t)
      PROVE  UNCHANGED <<flushQueue, blocked, buffer>>
  BY <1>2 DEF PreUpdate, Goto, dwptVars, poolVars, byteVars, fullVars, listVars, historyVars,
    PreUpdateQueued, PreUpdateStalled, ObtainAndLock, LockAndPoll, Pollable, NewWriter,
    CheckQueue, IndexDocument, IndexClosed, Release, Stale, MarksAsFreeAndUnlock, PanicWith,
    PostUpdate
<1>3. ASSUME NEW t \in Actors, DoAfterFlush(t) \/ Iter(t) \/ ScanPool(t) \/ ScanDone(t)
      PROVE  UNCHANGED <<flushQueue, blocked, buffer>>
  BY <1>3 DEF DoAfterFlush, Goto, PanicWith, dwptVars, poolVars, fullVars, byteVars, listVars,
    historyVars, Iter, ScanPool, CheckOutForFlush, Checkout, ScanDone, AfterFlush
<1>4. ASSUME NEW d \in DWPTs, FilterAndLock(d) \/ DoOnAbort(d)
      PROVE  UNCHANGED <<flushQueue, blocked, buffer>>
  BY <1>4 DEF FilterAndLock, poolVars, byteVars, fullVars, listVars, historyVars, DoOnAbort,
    Checkout, Locked, goVars
<1>5. ASSUME StartFullFlush \/ Filter \/ WaitForFlush \/ Close \/ Abort \/ AbortDone \/
  UNCHANGED vars
      PROVE  UNCHANGED <<flushQueue, blocked, buffer>>
  BY <1>5 DEF StartFullFlush, Goto, PanicWith, dwptVars, poolVars, byteVars, listVars,
    historyVars, fullVars, Filter, WaitForFlush, Close, Abort, AbortDone, vars, goVars
<1>6. ASSUME NEW t \in Threads, DoAfterDocument(t) PROVE SeqTypes'
  <2>1. mine[t] \in DWPTs /\ UNCHANGED buffer
    BY <1>6, AfterDocument
  <2>2. \/ UNCHANGED <<flushQueue, blocked>>
        \/ blocked' = Append(blocked, mine[t]) /\ flushQueue' = SubSeq(flushQueue, 2, Len(flushQueue))
    BY <1>6, AfterDocument DEF Skips, Stays, IsBlocked, IsTaken
  <2>3. SubSeq(flushQueue, 2, Len(flushQueue)) \in Seq(DWPTs)
    BY SubSeqType DEF Types, SeqTypes
  <2>4. Append(blocked, mine[t]) \in Seq(DWPTs)
    BY <2>1, SetOfAppend DEF Types, SeqTypes
  <2> QED BY <2>1, <2>2, <2>3, <2>4 DEF Types, SeqTypes
<1>7. ASSUME NEW t \in Actors, NextPendingFlush(t) PROVE SeqTypes'
  <2>1. UNCHANGED <<blocked, buffer>>
    BY <1>7 DEF NextPendingFlush, fullVars
  <2>2. flushQueue' = flushQueue \/ (flushQueue # <<>> /\ flushQueue' = Tail(flushQueue))
    BY <1>7 DEF NextPendingFlush
  <2>3. flushQueue # <<>> => Tail(flushQueue) \in Seq(DWPTs)
    BY DEF Types, SeqTypes
  <2>4. flushQueue \in Seq(DWPTs) /\ blocked \in Seq(DWPTs) /\ buffer \in Seq(DWPTs)
    BY DEF Types, SeqTypes
  <2> QED BY <2>1, <2>2, <2>3, <2>4 DEF SeqTypes
<1>8. ASSUME NEW d \in DWPTs, MarkOne(d) PROVE SeqTypes'
  <2>1. UNCHANGED <<flushQueue, blocked>>
    BY <1>8 DEF MarkOne
  <2>2. buffer' = buffer \/ buffer' = Append(buffer, d)
    BY <1>8 DEF MarkOne
  <2> QED BY <2>1, <2>2, SetOfAppend DEF Types, SeqTypes
<1>9. ASSUME FullFlushMarkDone PROVE SeqTypes'
  <2> DEFINE rest == Keep(blocked, {d \in DWPTs : gen[d] # queueGen - 1})
  <2>1. rest \in Seq(DWPTs) /\ Pruned(queueGen - 1) \in Seq(DWPTs)
    BY KeepSelects DEF Pruned, Types, SeqTypes
  <2>2. \/ UNCHANGED <<flushQueue, blocked, buffer>>
        \/ blocked' = rest /\ flushQueue' = flushQueue \o Pruned(queueGen - 1) \o buffer /\ buffer' = <<>>
    BY <1>9 DEF FullFlushMarkDone, PanicWith, listVars, fullVars
  <2> HIDE DEF rest
  <2>3. flushQueue \o Pruned(queueGen - 1) \o buffer \in Seq(DWPTs)
    BY <2>1, SetOfConcat DEF Types, SeqTypes
  <2>4. flushQueue \in Seq(DWPTs) /\ blocked \in Seq(DWPTs) /\ buffer \in Seq(DWPTs)
    BY DEF Types, SeqTypes
  <2>5. <<>> \in Seq(DWPTs)
    OBVIOUS
  <2> QED BY <2>1, <2>2, <2>3, <2>4, <2>5, Zenon DEF SeqTypes
<1>10. ASSUME FinishFullFlush PROVE SeqTypes'
  BY <1>10 DEF FinishFullFlush, Goto, PanicWith, dwptVars, poolVars, historyVars, byteVars,
    fullVars, listVars, SeqTypes, GoTypes, Types
<1>11. ASSUME AbortFullFlushes PROVE SeqTypes'
  BY <1>11 DEF AbortFullFlushes, Goto, AbortPending, dwptVars, poolVars, SeqTypes, GoTypes,
    Types
<1>12. ASSUME AbortPendingFlushes PROVE SeqTypes'
  BY <1>12 DEF AbortPendingFlushes, Goto, AbortPending, Locked, dwptVars, poolVars, fullVars,
    SeqTypes, GoTypes, Types
<1> QED
  BY <1>1, <1>2, <1>3, <1>4, <1>5, <1>6, <1>7, <1>8, <1>9, <1>10, <1>11, <1>12
    DEF Next, Obtain, Update, DoFlush, FullFlush, Rollback

\* The types of the flags.
LEMMA FlagTypesKept ==
  ASSUME Types, [Next]_vars
  PROVE  FlagTypes'
<1>1. ASSUME UNCHANGED <<queueGen, calls, fullFlush, markDone, stalled, closed,
                         dwLock>>
      PROVE  FlagTypes'
  BY <1>1 DEF FlagTypes, Types
<1>2. ASSUME NEW t \in Threads, PreUpdate(t) \/ PreUpdateStalled(t) \/ ObtainAndLock(t) \/
  LockAndPoll(t) \/ NewWriter(t) \/ CheckQueue(t) \/ IndexDocument(t) \/ IndexClosed(t) \/
  PostUpdate(t)
      PROVE  UNCHANGED <<queueGen, calls, fullFlush, markDone, stalled, closed, dwLock>>
  BY <1>2 DEF PreUpdate, Goto, dwptVars, poolVars, byteVars, fullVars, listVars, historyVars,
    PreUpdateStalled, ObtainAndLock, LockAndPoll, Pollable, NewWriter, CheckQueue,
    IndexDocument, IndexClosed, PostUpdate
<1>3. ASSUME NEW t \in Actors, Iter(t) \/ ScanDone(t)
      PROVE  UNCHANGED <<queueGen, calls, fullFlush, markDone, stalled, closed, dwLock>>
  BY <1>3 DEF Iter, Goto, dwptVars, poolVars, byteVars, fullVars, listVars, historyVars,
    ScanDone, AfterFlush
<1>4. ASSUME NEW d \in DWPTs, FilterAndLock(d)
      PROVE  UNCHANGED <<queueGen, calls, fullFlush, markDone, stalled, closed, dwLock>>
  BY <1>4 DEF FilterAndLock, poolVars, byteVars, fullVars, listVars, historyVars
<1>5. ASSUME Filter \/ WaitForFlush \/ UNCHANGED vars
      PROVE  UNCHANGED <<queueGen, calls, fullFlush, markDone, stalled, closed, dwLock>>
  BY <1>5 DEF Filter, Goto, dwptVars, poolVars, byteVars, fullVars, listVars, historyVars,
    WaitForFlush, vars, goVars
<1>6. ASSUME NEW t \in Threads, PreUpdateQueued(t) PROVE FlagTypes'
  BY <1>6, StallType DEF PreUpdateQueued, Goto, dwptVars, poolVars, byteVars, fullVars,
    listVars, historyVars, FlagTypes, Types
<1>7. ASSUME NEW t \in Threads, DoAfterDocument(t) PROVE FlagTypes'
  BY <1>7, StallType DEF DoAfterDocument, Goto, Checkout, Account, First, dwptVars, poolVars,
    byteVars, fullVars, historyVars, listVars, FlagTypes, Types
<1>8. ASSUME NEW t \in Threads, Release(t) PROVE FlagTypes'
  BY <1>8, StallType DEF Release, Goto, Stale, poolVars, byteVars, fullVars, listVars,
    historyVars, FlagTypes, Types
<1>9. ASSUME NEW t \in Threads, MarksAsFreeAndUnlock(t) PROVE FlagTypes'
  BY <1>9, StallType DEF MarksAsFreeAndUnlock, Goto, PanicWith, byteVars, fullVars, listVars,
    historyVars, dwptVars, poolVars, FlagTypes, Types
<1>10. ASSUME NEW t \in Actors, DoAfterFlush(t) PROVE FlagTypes'
  BY <1>10, StallType DEF DoAfterFlush, Goto, PanicWith, dwptVars, poolVars, fullVars, byteVars,
    listVars, historyVars, FlagTypes, Types
<1>11. ASSUME NEW t \in Actors, NextPendingFlush(t) PROVE FlagTypes'
  BY <1>11, StallType DEF NextPendingFlush, Goto, AfterFlush, dwptVars, poolVars, fullVars,
    historyVars, FlagTypes, Types
<1>12. ASSUME NEW t \in Actors, ScanPool(t) PROVE FlagTypes'
  BY <1>12, StallType DEF ScanPool, Goto, CheckOutForFlush, dwptVars, poolVars, fullVars,
    historyVars, Checkout, FlagTypes, Types
<1>13. ASSUME StartFullFlush PROVE FlagTypes'
  <2>1. \/ UNCHANGED <<queueGen, fullFlush, dwLock>>
        \/ queueGen' = queueGen + 1 /\ fullFlush' = TRUE /\ dwLock' = Flusher
    BY <1>13 DEF StartFullFlush, PanicWith, fullVars
  <2>2. UNCHANGED <<markDone, closed, stalled, calls>>
    BY <1>13 DEF StartFullFlush, PanicWith, fullVars, byteVars
  <2>3. queueGen' \in Nat
    BY <2>1 DEF Types, FlagTypes
  <2>4. fullFlush' \in BOOLEAN /\ dwLock' \in Actors \cup {None}
    BY <2>1, Zenon DEF Types, FlagTypes
  <2> QED BY <2>2, <2>3, <2>4 DEF Types, FlagTypes
<1>14. ASSUME NEW d \in DWPTs, MarkOne(d) PROVE FlagTypes'
  BY <1>14, StallType DEF MarkOne, Checkout, CheckOutForFlush, Locked, historyVars, goVars,
    FlagTypes, Types
<1>15. ASSUME FullFlushMarkDone PROVE FlagTypes'
  BY <1>15, StallType DEF FullFlushMarkDone, Goto, PanicWith, Locked, dwptVars, poolVars,
    historyVars, byteVars, fullVars, listVars, FlagTypes, Types
<1>16. ASSUME FinishFullFlush PROVE FlagTypes'
  BY <1>16, StallType DEF FinishFullFlush, Goto, PanicWith, dwptVars, poolVars, historyVars,
    byteVars, fullVars, listVars, FlagTypes, Types
<1>17. ASSUME AbortFullFlushes PROVE FlagTypes'
  BY <1>17, StallType DEF AbortFullFlushes, Goto, AbortPending, dwptVars, poolVars, FlagTypes,
    Types
<1>18. ASSUME Close PROVE FlagTypes'
  BY <1>18, StallType DEF Close, Goto, dwptVars, poolVars, listVars, historyVars, FlagTypes,
    Types
<1>19. ASSUME Abort PROVE FlagTypes'
  BY <1>19, StallType DEF Abort, Goto, dwptVars, poolVars, byteVars, fullVars, listVars,
    historyVars, FlagTypes, Types
<1>20. ASSUME NEW d \in DWPTs, DoOnAbort(d) PROVE FlagTypes'
  BY <1>20, StallType DEF DoOnAbort, Checkout, Locked, fullVars, goVars, FlagTypes, Types
<1>21. ASSUME AbortPendingFlushes PROVE FlagTypes'
  BY <1>21, StallType DEF AbortPendingFlushes, Goto, AbortPending, Locked, dwptVars, poolVars,
    fullVars, FlagTypes, Types
<1>22. ASSUME AbortDone PROVE FlagTypes'
  BY <1>22, StallType DEF AbortDone, Goto, dwptVars, poolVars, byteVars, fullVars, listVars,
    historyVars, FlagTypes, Types
<1> QED
  BY <1>1, <1>2, <1>3, <1>4, <1>5, <1>6, <1>7, <1>8, <1>9, <1>10, <1>11, <1>12, <1>13, <1>14,
    <1>15, <1>16, <1>17, <1>18, <1>19, <1>20, <1>21, <1>22
    DEF Next, Obtain, Update, DoFlush, FullFlush, Rollback

\* The types of the state of goroutines.
LEMMA GoTypesKept ==
  ASSUME Types, Locks, [Next]_vars
  PROVE  GoTypes'
<1>1. ASSUME UNCHANGED <<pc, mine, out, seen, todo>> PROVE GoTypes'
  BY <1>1 DEF GoTypes, Types
<1>2. ASSUME NEW d \in DWPTs, MarkOne(d) \/ DoOnAbort(d)
      PROVE  UNCHANGED <<pc, mine, out, seen, todo>>
  BY <1>2 DEF MarkOne, Checkout, CheckOutForFlush, Locked, historyVars, goVars, DoOnAbort,
    fullVars
<1>3. ASSUME UNCHANGED vars PROVE UNCHANGED <<pc, mine, out, seen, todo>>
  BY <1>3 DEF vars, dwptVars, poolVars, byteVars, fullVars, historyVars, listVars, goVars
<1>4. ASSUME NEW t \in Threads, PreUpdate(t) PROVE GoTypes'
  BY <1>4 DEF PreUpdate, Goto, dwptVars, poolVars, byteVars, fullVars, listVars, historyVars,
    GoTypes, SeqTypes, SetTypes, FlagTypes, Types, States
<1>5. ASSUME NEW t \in Threads, PreUpdateQueued(t) PROVE GoTypes'
  BY <1>5 DEF PreUpdateQueued, Goto, dwptVars, poolVars, byteVars, fullVars, listVars,
    historyVars, GoTypes, SeqTypes, SetTypes, FlagTypes, Types, States
<1>6. ASSUME NEW t \in Threads, PreUpdateStalled(t) PROVE GoTypes'
  BY <1>6 DEF PreUpdateStalled, Goto, dwptVars, poolVars, byteVars, fullVars, listVars,
    historyVars, GoTypes, SeqTypes, SetTypes, FlagTypes, Types, States
<1>7. ASSUME NEW t \in Threads, ObtainAndLock(t) PROVE GoTypes'
  BY <1>7 DEF ObtainAndLock, Goto, dwptVars, poolVars, byteVars, fullVars, listVars,
    historyVars, GoTypes, SeqTypes, SetTypes, FlagTypes, Types, States
<1>8. ASSUME NEW t \in Threads, LockAndPoll(t) PROVE GoTypes'
  <2>1. UNCHANGED <<out, seen, todo>>
    BY <1>8 DEF LockAndPoll
  <2>2. \E s \in {"idle", "new", "check"} : pc' = [pc EXCEPT ![t] = s]
    BY <1>8 DEF LockAndPoll, Goto
  <2>3. mine' = mine \/ \E d \in freeList : mine' = [mine EXCEPT ![t] = d]
    BY <1>8 DEF LockAndPoll, Pollable
  <2> QED BY <2>1, <2>2, <2>3 DEF Types, GoTypes, SetTypes, States
<1>9. ASSUME NEW t \in Threads, NewWriter(t) PROVE GoTypes'
  <2>1. UNCHANGED <<out, seen, todo>>
    BY <1>9 DEF NewWriter
  <2>2. \E s \in {"idle", "check"} : pc' = [pc EXCEPT ![t] = s]
    BY <1>9 DEF NewWriter, Goto
  <2>3. mine' = mine \/ \E d \in DWPTs : mine' = [mine EXCEPT ![t] = d]
    BY <1>9 DEF NewWriter
  <2> QED BY <2>1, <2>2, <2>3 DEF Types, GoTypes, States
<1>10. ASSUME NEW t \in Threads, CheckQueue(t) PROVE GoTypes'
  <2>1. UNCHANGED <<out, todo>> /\ seen' = [seen EXCEPT ![t] = Unread]
    BY <1>10 DEF CheckQueue
  <2>2. \/ \E s \in {"index", "obtain"} : pc' = [pc EXCEPT ![t] = s]
        \/ pc' = [u \in Actors |-> "panicStale"]
    BY <1>10 DEF CheckQueue, Goto
  <2>3. mine' = mine \/ mine' = [mine EXCEPT ![t] = None]
    BY <1>10 DEF CheckQueue
  <2>4. pc' \in [Actors -> States]
    BY <2>2 DEF Types, GoTypes, States
  <2>5. seen' \in [Actors -> [full : BOOLEAN, done : BOOLEAN]]
    BY <2>1 DEF Types, GoTypes, Unread
  <2> QED BY <2>1, <2>3, <2>4, <2>5 DEF Types, GoTypes
<1>11. ASSUME NEW t \in Threads, IndexDocument(t) PROVE GoTypes'
  BY <1>11 DEF IndexDocument, Goto, poolVars, byteVars, fullVars, listVars, historyVars,
    GoTypes, SeqTypes, SetTypes, FlagTypes, Types, States
<1>12. ASSUME NEW t \in Threads, IndexClosed(t) PROVE GoTypes'
  BY <1>12 DEF IndexClosed, Goto, dwptVars, poolVars, byteVars, fullVars, listVars, historyVars,
    GoTypes, SeqTypes, SetTypes, FlagTypes, Types, States
<1>13. ASSUME NEW t \in Threads, DoAfterDocument(t) PROVE GoTypes'
  <2>1. mine[t] \in DWPTs /\ UNCHANGED <<mine, seen, todo>> /\ pc' = [pc EXCEPT ![t] = "release"]
    BY <1>13, AfterDocument
  <2>2. \/ out' = out \/ out' = [out EXCEPT ![t] = First(flushQueue)] \/ out' = [out EXCEPT ![t] = mine[t]]
    BY <1>13, AfterDocument DEF Skips, Stays, IsBlocked, IsTaken
  <2>3. First(flushQueue) \in DWPTs \cup {None}
    BY DEF First, Types, SeqTypes
  <2> QED BY <2>1, <2>2, <2>3 DEF Types, GoTypes, States
<1>14. ASSUME NEW t \in Threads, Release(t) PROVE GoTypes'
  BY <1>14, ZenonT(60) DEF Release, Goto, Stale, poolVars, byteVars, fullVars, listVars, historyVars,
    GoTypes, SeqTypes, SetTypes, FlagTypes, Types, States
<1>15. ASSUME NEW t \in Threads, MarksAsFreeAndUnlock(t) PROVE GoTypes'
  BY <1>15, ZenonT(60) DEF MarksAsFreeAndUnlock, Goto, PanicWith, byteVars, fullVars, listVars, historyVars,
    dwptVars, poolVars, GoTypes, SeqTypes, SetTypes, FlagTypes, Types, States
<1>16. ASSUME NEW t \in Threads, PostUpdate(t) PROVE GoTypes'
  BY <1>16 DEF PostUpdate, Goto, dwptVars, poolVars, byteVars, fullVars, listVars, historyVars,
    GoTypes, SeqTypes, SetTypes, FlagTypes, Types, States
<1>17. ASSUME NEW t \in Actors, DoAfterFlush(t) PROVE GoTypes'
  <2>1. UNCHANGED <<mine, seen, todo>>
    BY <1>17 DEF DoAfterFlush, PanicWith
  <2>2. \/ \E s \in {"next", "idle"} : pc' = [pc EXCEPT ![t] = s]
        \/ \E s \in {"panic", "panicError"} : pc' = [u \in Actors |-> s]
    BY <1>17 DEF DoAfterFlush, PanicWith, Goto
  <2>3. out' = out \/ out' = [out EXCEPT ![t] = None]
    BY <1>17 DEF DoAfterFlush, PanicWith
  <2> QED BY <2>1, <2>2, <2>3 DEF Types, GoTypes, States
<1>18. ASSUME NEW t \in Actors, NextPendingFlush(t) PROVE GoTypes'
  BY <1>18 DEF NextPendingFlush, Goto, AfterFlush, dwptVars, poolVars, fullVars, historyVars,
    GoTypes, SeqTypes, SetTypes, FlagTypes, Types, States
<1>19. ASSUME NEW t \in Actors, Iter(t) PROVE GoTypes'
  BY <1>19 DEF Iter, Goto, dwptVars, poolVars, byteVars, fullVars, listVars, historyVars,
    GoTypes, SeqTypes, SetTypes, FlagTypes, Types, States
<1>20. ASSUME NEW t \in Actors, ScanPool(t) PROVE GoTypes'
  <2>1. UNCHANGED <<mine, seen>>
    BY <1>20 DEF ScanPool
  <2>2. PICK d \in todo[t] :
          \/ out' = [out EXCEPT ![t] = d] /\ todo' = [todo EXCEPT ![t] = {}] /\ pc' = [pc EXCEPT ![t] = "flush"]
          \/ out' = out /\ todo' = [todo EXCEPT ![t] = todo[t] \ {d}] /\ pc' = pc
    BY <1>20 DEF ScanPool, Goto
  <2>3. d \in DWPTs /\ todo[t] \in SUBSET DWPTs
    BY <2>2 DEF Types, GoTypes
  <2> QED BY <2>1, <2>2, <2>3 DEF Types, GoTypes, States
<1>21. ASSUME NEW t \in Actors, ScanDone(t) PROVE GoTypes'
  BY <1>21 DEF ScanDone, Goto, AfterFlush, dwptVars, poolVars, byteVars, fullVars, listVars,
    historyVars, GoTypes, SeqTypes, SetTypes, FlagTypes, Types, States
<1>22. ASSUME StartFullFlush PROVE GoTypes'
  BY <1>22 DEF StartFullFlush, Goto, PanicWith, dwptVars, poolVars, byteVars, listVars,
    historyVars, fullVars, GoTypes, SeqTypes, SetTypes, FlagTypes, Types, States
<1>23. ASSUME Filter PROVE GoTypes'
  BY <1>23 DEF Filter, Goto, dwptVars, poolVars, byteVars, fullVars, listVars, historyVars,
    GoTypes, SeqTypes, SetTypes, FlagTypes, Types, States
<1>24. ASSUME NEW d \in DWPTs, FilterAndLock(d) PROVE GoTypes'
  BY <1>24 DEF FilterAndLock, poolVars, byteVars, fullVars, listVars, historyVars, GoTypes,
    SeqTypes, SetTypes, FlagTypes, Types, States
<1>25. ASSUME FullFlushMarkDone PROVE GoTypes'
  BY <1>25, ZenonT(60) DEF FullFlushMarkDone, Goto, PanicWith, Locked, dwptVars, poolVars, historyVars,
    byteVars, fullVars, listVars, GoTypes, SeqTypes, SetTypes, FlagTypes, Types, States
<1>26. ASSUME WaitForFlush PROVE GoTypes'
  BY <1>26 DEF WaitForFlush, Goto, dwptVars, poolVars, byteVars, fullVars, listVars,
    historyVars, GoTypes, SeqTypes, SetTypes, FlagTypes, Types, States
<1>27. ASSUME FinishFullFlush PROVE GoTypes'
  BY <1>27 DEF FinishFullFlush, Goto, PanicWith, dwptVars, poolVars, historyVars, byteVars,
    fullVars, listVars, GoTypes, SeqTypes, SetTypes, FlagTypes, Types, States
<1>28. ASSUME AbortFullFlushes PROVE GoTypes'
  BY <1>28 DEF AbortFullFlushes, Goto, AbortPending, dwptVars, poolVars, GoTypes, SeqTypes,
    SetTypes, FlagTypes, Types, States
<1>29. ASSUME Close PROVE GoTypes'
  BY <1>29 DEF Close, Goto, dwptVars, poolVars, listVars, historyVars, GoTypes, SeqTypes,
    SetTypes, FlagTypes, Types, States
<1>30. ASSUME Abort PROVE GoTypes'
  BY <1>30 DEF Abort, Goto, dwptVars, poolVars, byteVars, fullVars, listVars, historyVars,
    GoTypes, SeqTypes, SetTypes, FlagTypes, Types, States
<1>31. ASSUME AbortPendingFlushes PROVE GoTypes'
  BY <1>31 DEF AbortPendingFlushes, Goto, AbortPending, Locked, dwptVars, poolVars, fullVars,
    GoTypes, SeqTypes, SetTypes, FlagTypes, Types, States
<1>32. ASSUME AbortDone PROVE GoTypes'
  BY <1>32 DEF AbortDone, Goto, dwptVars, poolVars, byteVars, fullVars, listVars, historyVars,
    GoTypes, SeqTypes, SetTypes, FlagTypes, Types, States
<1> QED
  BY <1>1, <1>2, <1>3, <1>4, <1>5, <1>6, <1>7, <1>8, <1>9, <1>10, <1>11, <1>12, <1>13, <1>14,
    <1>15, <1>16, <1>17, <1>18, <1>19, <1>20, <1>21, <1>22, <1>23, <1>24, <1>25, <1>26, <1>27,
    <1>28, <1>29, <1>30, <1>31, <1>32 DEF Next, Obtain, Update, DoFlush, FullFlush, Rollback

\* The types, together.
LEMMA TypesKept ==
  ASSUME Types, Locks, [Next]_vars
  PROVE  Types'
  BY DwptTypesKept, SetTypesKept, SeqTypesKept, FlagTypesKept, GoTypesKept DEF Types

-----------------------------------------------------------------------------
(* Roles: no assertion fails but those the runs show to fail.               *)

\* Whoever takes a step has not panicked, so nobody has.
LEMMA Alive ==
  ASSUME Roles, NEW t \in Actors, pc[t] \notin Panics
  PROVE  (\A u \in Threads : pc[u] \in Indexing) /\ pc[Flusher] \in Flushing
  BY DEF Roles

\* Nobody panics with another assertion, or gets where it does not belong.
LEMMA RolesKept ==
  ASSUME FlushInv, [Next]_vars
  PROVE  Roles'
<1>1. ASSUME UNCHANGED <<pc>> PROVE Roles'
  BY <1>1 DEF Roles, FlushInv
<1>2. ASSUME NEW d \in DWPTs, FilterAndLock(d) \/ MarkOne(d) \/ DoOnAbort(d)
      PROVE  UNCHANGED <<pc>>
  BY <1>2 DEF FilterAndLock, poolVars, byteVars, fullVars, listVars, historyVars, MarkOne,
    Checkout, CheckOutForFlush, Locked, goVars, DoOnAbort
<1>3. ASSUME UNCHANGED vars PROVE UNCHANGED <<pc>>
  BY <1>3 DEF vars, dwptVars, poolVars, byteVars, fullVars, historyVars, listVars, goVars
<1>4. ASSUME NEW t \in Threads, PreUpdate(t) PROVE Roles'
  BY <1>4, Alive DEF PreUpdate, Goto, dwptVars, poolVars, byteVars, fullVars, listVars,
    historyVars, Types, GoTypes, FlushInv, Roles, Indexing, Flushing, Panics
<1>5. ASSUME NEW t \in Threads, PreUpdateQueued(t) PROVE Roles'
  BY <1>5, Alive DEF PreUpdateQueued, Goto, dwptVars, poolVars, byteVars, fullVars, listVars,
    historyVars, Types, GoTypes, FlushInv, Roles, Indexing, Flushing, Panics
<1>6. ASSUME NEW t \in Threads, PreUpdateStalled(t) PROVE Roles'
  BY <1>6, Alive DEF PreUpdateStalled, Goto, dwptVars, poolVars, byteVars, fullVars, listVars,
    historyVars, Types, GoTypes, FlushInv, Roles, Indexing, Flushing, Panics
<1>7. ASSUME NEW t \in Threads, ObtainAndLock(t) PROVE Roles'
  BY <1>7, Alive DEF ObtainAndLock, Goto, dwptVars, poolVars, byteVars, fullVars, listVars,
    historyVars, Types, GoTypes, FlushInv, Roles, Indexing, Flushing, Panics
<1>8. ASSUME NEW t \in Threads, LockAndPoll(t) PROVE Roles'
  BY <1>8, Alive DEF LockAndPoll, Goto, Pollable, byteVars, fullVars, listVars, historyVars,
    Types, GoTypes, FlushInv, Roles, Indexing, Flushing, Panics
<1>9. ASSUME NEW t \in Threads, NewWriter(t) PROVE Roles'
  BY <1>9, Alive DEF NewWriter, Goto, byteVars, fullVars, listVars, historyVars, Types, GoTypes,
    FlushInv, Roles, Indexing, Flushing, Panics
<1>10. ASSUME NEW t \in Threads, CheckQueue(t) PROVE Roles'
  BY <1>10, Alive DEF CheckQueue, Goto, poolVars, byteVars, fullVars, listVars, historyVars,
    Types, GoTypes, FlushInv, Roles, Indexing, Flushing, Panics
<1>11. ASSUME NEW t \in Threads, IndexDocument(t) PROVE Roles'
  BY <1>11, Alive DEF IndexDocument, Goto, poolVars, byteVars, fullVars, listVars, historyVars,
    Types, GoTypes, FlushInv, Roles, Indexing, Flushing, Panics
<1>12. ASSUME NEW t \in Threads, IndexClosed(t) PROVE Roles'
  BY <1>12, Alive DEF IndexClosed, Goto, dwptVars, poolVars, byteVars, fullVars, listVars,
    historyVars, Types, GoTypes, FlushInv, Roles, Indexing, Flushing, Panics
<1>13. ASSUME NEW t \in Threads, DoAfterDocument(t) PROVE Roles'
  BY <1>13, Alive DEF DoAfterDocument, Goto, Checkout, Account, First, dwptVars, poolVars,
    byteVars, fullVars, historyVars, listVars, Types, GoTypes, FlushInv, Roles, Indexing,
    Flushing, Panics
<1>14. ASSUME NEW t \in Threads, Release(t) PROVE Roles'
  BY <1>14, Alive DEF Release, Goto, Stale, poolVars, byteVars, fullVars, listVars, historyVars,
    Types, GoTypes, FlushInv, Roles, Indexing, Flushing, Panics
<1>15. ASSUME NEW t \in Threads, MarksAsFreeAndUnlock(t) PROVE Roles'
  <2>1. pc[t] \in {"free", "freeFailed"}
    BY <1>15 DEF MarksAsFreeAndUnlock
  <2>2. mine[t] \in registered
    BY <2>1 DEF FlushInv, Locks, Holders, Holding
  <2>3. \/ pc' = [u \in Actors |-> "panicFree"]
        \/ \E s \in {"post", "idle"} : pc' = [pc EXCEPT ![t] = s]
    BY <1>15, <2>2 DEF MarksAsFreeAndUnlock, Goto, PanicWith
  <2>4. (\A u \in Threads : pc[u] \in Indexing) /\ pc[Flusher] \in Flushing
    BY <2>1, Alive DEF FlushInv, Panics
  <2> QED BY <2>3, <2>4 DEF FlushInv, Types, GoTypes, Roles, Indexing, Flushing, Panics
<1>16. ASSUME NEW t \in Threads, PostUpdate(t) PROVE Roles'
  BY <1>16, Alive DEF PostUpdate, Goto, dwptVars, poolVars, byteVars, fullVars, listVars,
    historyVars, Types, GoTypes, FlushInv, Roles, Indexing, Flushing, Panics
<1>17. ASSUME NEW t \in Actors, DoAfterFlush(t) PROVE Roles'
  <2>1. pc[t] = "flush"
    BY <1>17 DEF DoAfterFlush
  <2>2. out[t] \in flushing
    BY <2>1 DEF FlushInv, Locks, Carriers, Hands
  <2>3. \/ pc' = [u \in Actors |-> "panicError"]
        \/ pc' = [pc EXCEPT ![t] = "next"]
        \/ t \in Threads /\ pc' = [pc EXCEPT ![t] = "idle"]
    BY <1>17, <2>2 DEF DoAfterFlush, Goto, PanicWith
  <2>4. (\A u \in Threads : pc[u] \in Indexing) /\ pc[Flusher] \in Flushing
    BY <2>1, Alive DEF FlushInv, Panics
  <2> QED BY <2>3, <2>4 DEF FlushInv, Types, GoTypes, Roles, Indexing, Flushing, Panics
<1>18. ASSUME NEW t \in Actors, NextPendingFlush(t) PROVE Roles'
  BY <1>18, Alive DEF NextPendingFlush, Goto, AfterFlush, dwptVars, poolVars, fullVars,
    historyVars, Types, GoTypes, FlushInv, Roles, Indexing, Flushing, Panics
<1>19. ASSUME NEW t \in Actors, Iter(t) PROVE Roles'
  BY <1>19, Alive DEF Iter, Goto, dwptVars, poolVars, byteVars, fullVars, listVars, historyVars,
    Types, GoTypes, FlushInv, Roles, Indexing, Flushing, Panics
<1>20. ASSUME NEW t \in Actors, ScanPool(t) PROVE Roles'
  BY <1>20, Alive DEF ScanPool, Goto, CheckOutForFlush, dwptVars, poolVars, fullVars,
    historyVars, Checkout, Types, GoTypes, FlushInv, Roles, Indexing, Flushing, Panics
<1>21. ASSUME NEW t \in Actors, ScanDone(t) PROVE Roles'
  BY <1>21, Alive DEF ScanDone, Goto, AfterFlush, dwptVars, poolVars, byteVars, fullVars,
    listVars, historyVars, Types, GoTypes, FlushInv, Roles, Indexing, Flushing, Panics
<1>22. ASSUME StartFullFlush PROVE Roles'
  <2>1. pc[Flusher] = "idle"
    BY <1>22 DEF StartFullFlush
  <2>2. ~fullFlush /\ ~markDone
    BY <2>1 DEF FlushInv, Phases, Flags, Outside
  <2>3. pc' = [pc EXCEPT ![Flusher] = "filter"]
    BY <1>22, <2>2 DEF StartFullFlush, Goto
  <2>4. (\A u \in Threads : pc[u] \in Indexing) /\ pc[Flusher] \in Flushing
    BY <2>1, Alive DEF FlushInv, Panics
  <2> QED BY <2>3, <2>4 DEF FlushInv, Types, GoTypes, Roles, Indexing, Flushing, Panics
<1>23. ASSUME Filter PROVE Roles'
  BY <1>23, Alive DEF Filter, Goto, dwptVars, poolVars, byteVars, fullVars, listVars,
    historyVars, Types, GoTypes, FlushInv, Roles, Indexing, Flushing, Panics
<1>24. ASSUME FullFlushMarkDone PROVE Roles'
  <2> DEFINE rest == Keep(blocked, {d \in DWPTs : gen[d] # queueGen - 1})
  <2>1. pc[Flusher] = "lockAll"
    BY <1>24 DEF FullFlushMarkDone
  <2>2. \A d \in ToSet(rest) : gen[d] = queueGen
    <3>1. ToSet(rest) = ToSet(blocked) \cap {d \in DWPTs : gen[d] # queueGen - 1}
      BY KeepSelects DEF FlushInv, Types, SeqTypes
    <3>2. \A d \in ToSet(blocked) : gen[d] = queueGen \/ gen[d] = queueGen - 1
      BY <2>1 DEF FlushInv, Phases, Generations, Panics
    <3> QED BY <3>1, <3>2
  <2>3. pc' = [pc EXCEPT ![Flusher] = "next"]
    BY <1>24, <2>2 DEF FullFlushMarkDone, Goto
  <2>4. (\A u \in Threads : pc[u] \in Indexing) /\ pc[Flusher] \in Flushing
    BY <2>1, Alive DEF FlushInv, Panics
  <2> HIDE DEF rest
  <2> QED BY <2>3, <2>4 DEF FlushInv, Types, GoTypes, Roles, Indexing, Flushing, Panics
<1>25. ASSUME WaitForFlush PROVE Roles'
  BY <1>25, Alive DEF WaitForFlush, Goto, dwptVars, poolVars, byteVars, fullVars, listVars,
    historyVars, Types, GoTypes, FlushInv, Roles, Indexing, Flushing, Panics
<1>26. ASSUME FinishFullFlush PROVE Roles'
  <2>1. pc[Flusher] = "finish"
    BY <1>26 DEF FinishFullFlush
  <2>2. \A d \in ToSet(blocked) : gen[d] = queueGen
    BY <2>1 DEF FlushInv, Phases, Generations, Panics, Marking
  <2>3. \/ pc' = [u \in Actors |-> "panicFinish"]
        \/ pc' = [pc EXCEPT ![Flusher] = "idle"]
    BY <1>26, <2>2 DEF FinishFullFlush, PanicWith, Goto
  <2>4. (\A u \in Threads : pc[u] \in Indexing) /\ pc[Flusher] \in Flushing
    BY <2>1, Alive DEF FlushInv, Panics
  <2> QED BY <2>3, <2>4 DEF FlushInv, Types, GoTypes, Roles, Indexing, Flushing, Panics
<1>27. ASSUME AbortFullFlushes PROVE Roles'
  BY <1>27, Alive DEF AbortFullFlushes, Goto, AbortPending, dwptVars, poolVars, Types, GoTypes,
    FlushInv, Roles, Indexing, Flushing, Panics
<1>28. ASSUME Close PROVE Roles'
  BY <1>28, Alive DEF Close, Goto, dwptVars, poolVars, listVars, historyVars, Types, GoTypes,
    FlushInv, Roles, Indexing, Flushing, Panics
<1>29. ASSUME Abort PROVE Roles'
  BY <1>29, Alive DEF Abort, Goto, dwptVars, poolVars, byteVars, fullVars, listVars,
    historyVars, Types, GoTypes, FlushInv, Roles, Indexing, Flushing, Panics
<1>30. ASSUME AbortPendingFlushes PROVE Roles'
  BY <1>30, Alive DEF AbortPendingFlushes, Goto, AbortPending, Locked, dwptVars, poolVars,
    fullVars, Types, GoTypes, FlushInv, Roles, Indexing, Flushing, Panics
<1>31. ASSUME AbortDone PROVE Roles'
  BY <1>31, Alive DEF AbortDone, Goto, dwptVars, poolVars, byteVars, fullVars, listVars,
    historyVars, Types, GoTypes, FlushInv, Roles, Indexing, Flushing, Panics
<1> QED
  BY <1>1, <1>2, <1>3, <1>4, <1>5, <1>6, <1>7, <1>8, <1>9, <1>10, <1>11, <1>12, <1>13, <1>14,
    <1>15, <1>16, <1>17, <1>18, <1>19, <1>20, <1>21, <1>22, <1>23, <1>24, <1>25, <1>26, <1>27,
    <1>28, <1>29, <1>30, <1>31 DEF Next, Obtain, Update, DoFlush, FullFlush, Rollback

\* None of the other assertions fails.
LEMMA NoAssertion ==
  ASSUME FlushInv, [Next]_vars
  PROVE  pc'[Flusher] # "panic"
  BY RolesKept DEF Roles, Panics, Flushing

-----------------------------------------------------------------------------
(* Places.                                                                  *)

\* Every DWPT stays in one place.
LEMMA PlacesKept ==
  ASSUME FlushInv, [Next]_vars
  PROVE  Places'
<1>1. ASSUME UNCHANGED <<registered, freeList, flushing, blocked, flushed, aborted, pending,
                         gen, docs, committed>>
      PROVE  Places'
  BY <1>1 DEF Places, InFlush, FlushInv
<1>2. ASSUME NEW t \in Threads, PreUpdate(t) \/ PreUpdateQueued(t) \/ PreUpdateStalled(t) \/
  ObtainAndLock(t) \/ CheckQueue(t) \/ IndexClosed(t) \/ Release(t) \/ PostUpdate(t)
      PROVE  UNCHANGED <<registered, freeList, flushing, blocked, flushed, aborted, pending,
                         gen, docs, committed>>
  BY <1>2 DEF PreUpdate, Goto, dwptVars, poolVars, byteVars, fullVars, listVars, historyVars,
    PreUpdateQueued, PreUpdateStalled, ObtainAndLock, CheckQueue, IndexClosed, Release, Stale,
    PostUpdate
<1>3. ASSUME NEW t \in Actors, NextPendingFlush(t) \/ Iter(t) \/ ScanDone(t)
      PROVE  UNCHANGED <<registered, freeList, flushing, blocked, flushed, aborted, pending,
                         gen, docs, committed>>
  BY <1>3 DEF NextPendingFlush, Goto, AfterFlush, dwptVars, poolVars, fullVars, historyVars,
    Iter, byteVars, listVars, ScanDone
<1>4. ASSUME NEW d \in DWPTs, FilterAndLock(d)
      PROVE  UNCHANGED <<registered, freeList, flushing, blocked, flushed, aborted, pending,
                         gen, docs, committed>>
  BY <1>4 DEF FilterAndLock, poolVars, byteVars, fullVars, listVars, historyVars
<1>5. ASSUME StartFullFlush \/ Filter \/ WaitForFlush \/ Close \/ Abort \/ AbortDone \/
  UNCHANGED vars
      PROVE  UNCHANGED <<registered, freeList, flushing, blocked, flushed, aborted, pending,
                         gen, docs, committed>>
  BY <1>5 DEF StartFullFlush, Goto, PanicWith, dwptVars, poolVars, byteVars, listVars,
    historyVars, fullVars, Filter, WaitForFlush, Close, Abort, AbortDone, vars, goVars
<1>6. ASSUME NEW t \in Threads, LockAndPoll(t) PROVE Places'
  BY <1>6 DEF LockAndPoll, Goto, Pollable, byteVars, fullVars, listVars, historyVars, FlushInv,
    Places, InFlush
<1>7. ASSUME NEW t \in Threads, NewWriter(t) PROVE Places'
  <2>1. UNCHANGED <<freeList, flushing, blocked, flushed, aborted, pending, docs, committed>>
    BY <1>7 DEF NewWriter, byteVars, listVars, historyVars
  <2>2. CASE UNCHANGED <<gen, registered>>
    BY <2>1, <2>2 DEF FlushInv, Places, InFlush
  <2>3. CASE ~UNCHANGED <<gen, registered>>
    <3>1. PICK d \in DWPTs : /\ {e \in DWPTs : gen[e] = 0} = d..MaxDWPTs
                             /\ gen' = [gen EXCEPT ![d] = queueGen] /\ registered' = registered \cup {d}
      BY <1>7, <2>3 DEF NewWriter
    <3>2. gen[d] = 0
      BY <3>1 DEF DWPTs
    <3>3. \A e \in DWPTs : gen'[e] = IF e = d THEN queueGen ELSE gen[e]
      BY <3>1 DEF FlushInv, Types, DwptTypes
    <3>4. queueGen # 0
      BY DEF FlushInv, Phases, Generations, Types, FlagTypes
    <3>5. registered' = registered \cup {d}
      BY <3>1
    <3> QED BY <2>1, <3>2, <3>3, <3>4, <3>5 DEF FlushInv, Places, InFlush
  <2> QED BY <2>2, <2>3
<1>8. ASSUME NEW t \in Threads, IndexDocument(t) PROVE Places'
  <2>1. mine[t] \in DWPTs /\ mine[t] \in registered
    BY <1>8 DEF IndexDocument, FlushInv, Locks, Holders, Holding
  <2>2. docs' = [docs EXCEPT ![mine[t]] = docs[mine[t]] + 1]
    BY <1>8 DEF IndexDocument
  <2>3. UNCHANGED <<registered, freeList, flushing, blocked, flushed, aborted, pending, gen,
                    committed>>
    BY <1>8 DEF IndexDocument, poolVars, byteVars, listVars, historyVars
  <2>4. gen[mine[t]] # 0
    BY <2>1 DEF FlushInv, Places
  <2>5. \A d \in DWPTs : docs[d] \in Nat /\ committed[d] \in Nat /\ gen[d] \in Nat
    BY DEF FlushInv, Types, DwptTypes
  <2>6. docs \in [DWPTs -> Nat]
    BY DEF FlushInv, Types, DwptTypes
  <2> QED BY <2>1, <2>2, <2>3, <2>4, <2>5, <2>6 DEF FlushInv, Places, InFlush
<1>9. ASSUME NEW t \in Threads, DoAfterDocument(t) PROVE Places'
  <2> DEFINE d == mine[t]
  <2>1. /\ d \in registered /\ d \in DWPTs
        /\ UNCHANGED <<gen, docs, flushed, aborted>>
    BY <1>9, AfterDocument DEF FlushInv
  <2>2. CASE Skips
    BY <2>1, <2>2 DEF Skips, FlushInv, Places, InFlush
  <2>3. CASE ~Skips
    <3>1. PICK M \in SUBSET (registered \ pending) :
              Commits(d, M) /\ (Stays(d, M) \/ (Leaves(d, M) /\ (IsBlocked(t, d) \/ IsTaken(t, d))))
      BY <1>9, <2>3, AfterDocument DEF FlushInv
    <3>2. committed' = [committed EXCEPT ![d] = docs[d]] /\ pending' = pending \cup M
      BY <3>1 DEF Commits
    <3>3. \A e \in DWPTs : committed'[e] <= docs[e]
      BY <2>1, <3>2 DEF FlushInv, Places, Types, DwptTypes
    <3>4. \/ UNCHANGED <<registered, freeList, flushing, blocked>>
          \/ /\ registered' = registered \ {d} /\ freeList' = freeList \ {d} /\ d \in pending'
             /\ \/ ToSet(blocked') = ToSet(blocked) \cup {d} /\ flushing' = flushing
                \/ ToSet(blocked') = ToSet(blocked) /\ flushing' = flushing \cup {d}
      <4>1. ToSet(Append(blocked, d)) = ToSet(blocked) \cup {d}
        BY <2>1, SetOfAppend DEF FlushInv, Types, SeqTypes
      <4> HIDE DEF d
      <4> QED BY <3>1, <3>2, <4>1 DEF Stays, Leaves, IsBlocked, IsTaken
    <3>5. \A e \in DWPTs : gen[e] = 0 => e \notin registered
      BY DEF FlushInv, Places
    <3> HIDE DEF d
    <3>6. CASE UNCHANGED <<registered, freeList, flushing, blocked>>
      BY <2>1, <3>2, <3>3, <3>5, <3>6 DEF FlushInv, Places, InFlush
    <3>7. CASE ~ UNCHANGED <<registered, freeList, flushing, blocked>>
      BY <2>1, <3>2, <3>3, <3>4, <3>5, <3>7 DEF FlushInv, Places, InFlush
    <3> QED BY <3>6, <3>7
  <2> QED BY <2>2, <2>3
<1>10. ASSUME NEW t \in Threads, MarksAsFreeAndUnlock(t) PROVE Places'
  BY <1>10 DEF MarksAsFreeAndUnlock, Goto, PanicWith, byteVars, fullVars, listVars, historyVars,
    dwptVars, poolVars, FlushInv, Places, InFlush
<1>11. ASSUME NEW t \in Actors, DoAfterFlush(t) PROVE Places'
  BY <1>11 DEF DoAfterFlush, Goto, PanicWith, dwptVars, poolVars, fullVars, byteVars, listVars,
    historyVars, FlushInv, Places, InFlush
<1>12. ASSUME NEW t \in Actors, ScanPool(t) PROVE Places'
  BY <1>12 DEF ScanPool, Goto, CheckOutForFlush, dwptVars, poolVars, fullVars, historyVars,
    Checkout, FlushInv, Places, InFlush
<1>13. ASSUME NEW d \in DWPTs, MarkOne(d) PROVE Places'
  <2>1. UNCHANGED <<blocked, flushed, aborted, gen, docs, committed>>
    BY <1>13 DEF MarkOne, historyVars
  <2>2. d \in registered
    BY <1>13 DEF MarkOne, FlushInv, Locks, Collected, Panics
  <2>3. registered' = registered \ {d} /\ freeList' = freeList \ {d}
    BY <1>13 DEF MarkOne, CheckOutForFlush, Checkout
  <2>4. \/ ~(docs[d] > 0) /\ UNCHANGED <<pending, flushing>>
        \/ pending' = pending \cup {d} /\ flushing' = flushing \cup {d}
    BY <1>13 DEF MarkOne, CheckOutForFlush
  <2> QED BY <2>1, <2>2, <2>3, <2>4 DEF FlushInv, Places, InFlush
<1>14. ASSUME FullFlushMarkDone PROVE Places'
  <2> DEFINE old == {d \in DWPTs : gen[d] = queueGen - 1}
  <2>1. UNCHANGED <<registered, freeList, flushed, aborted, pending, gen, docs, committed>>
    BY <1>14 DEF FullFlushMarkDone, PanicWith, dwptVars, poolVars, byteVars, listVars, historyVars
  <2>2. \/ UNCHANGED <<flushing, blocked>>
        \/ /\ flushing' = flushing \cup (ToSet(blocked) \cap old)
           /\ ToSet(blocked') = ToSet(blocked) \ old
    <3>1. ToSet(Pruned(queueGen - 1)) = ToSet(blocked) \cap old
      BY KeepSelects DEF Pruned, FlushInv, Types, SeqTypes
    <3>2. ToSet(Keep(blocked, {d \in DWPTs : gen[d] # queueGen - 1})) = ToSet(blocked) \ old
      BY KeepSelects, SetOfSeq DEF FlushInv, Types, SeqTypes
    <3> HIDE DEF old
    <3> QED BY <1>14, <3>1, <3>2 DEF FullFlushMarkDone, PanicWith, listVars
  <2> HIDE DEF old
  <2> QED BY <2>1, <2>2 DEF FlushInv, Places, InFlush
<1>15. ASSUME FinishFullFlush PROVE Places'
  <2>1. UNCHANGED <<registered, freeList, flushed, aborted, pending, gen, docs, committed>>
    BY <1>15 DEF FinishFullFlush, PanicWith, dwptVars, poolVars, byteVars, listVars, historyVars
  <2>2. \/ UNCHANGED <<flushing, blocked>>
        \/ flushing = {} /\ flushing' = ToSet(blocked) /\ ToSet(blocked') = {}
    BY <1>15, SetOfEmpty DEF FinishFullFlush, PanicWith, listVars
  <2> QED BY <2>1, <2>2 DEF FlushInv, Places, InFlush
<1>16. ASSUME AbortFullFlushes PROVE Places'
  <2>1. UNCHANGED <<registered, freeList, flushed, pending, gen, docs, committed>>
    BY <1>16 DEF AbortFullFlushes, dwptVars, poolVars
  <2>2. /\ flushing' = flushing \ ToSet(flushQueue) /\ ToSet(blocked') = {}
        /\ aborted' = aborted \cup ToSet(flushQueue) \cup ToSet(blocked)
    BY <1>16, SetOfEmpty DEF AbortFullFlushes, AbortPending
  <2> QED BY <2>1, <2>2 DEF FlushInv, Places, InFlush
<1>17. ASSUME NEW d \in DWPTs, DoOnAbort(d) PROVE Places'
  BY <1>17 DEF DoOnAbort, Checkout, Locked, fullVars, goVars, FlushInv, Places, InFlush
<1>18. ASSUME AbortPendingFlushes PROVE Places'
  <2>1. UNCHANGED <<registered, freeList, flushed, pending, gen, docs, committed>>
    BY <1>18 DEF AbortPendingFlushes, dwptVars, poolVars
  <2>2. /\ flushing' = flushing \ ToSet(flushQueue) /\ ToSet(blocked') = {}
        /\ aborted' = aborted \cup ToSet(flushQueue) \cup ToSet(blocked)
    BY <1>18, SetOfEmpty DEF AbortPendingFlushes, AbortPending
  <2> QED BY <2>1, <2>2 DEF FlushInv, Places, InFlush
<1> QED
  BY <1>1, <1>2, <1>3, <1>4, <1>5, <1>6, <1>7, <1>8, <1>9, <1>10, <1>11, <1>12, <1>13, <1>14,
    <1>15, <1>16, <1>17, <1>18 DEF Next, Obtain, Update, DoFlush, FullFlush, Rollback

-----------------------------------------------------------------------------
(* Hands.                                                                   *)

\* A goroutine takes a DWPT: one that is not flushing yet, or one of the queue.
LEMMA HandedOver ==
  ASSUME FlushInv, NEW t \in Actors, out[t] = None, NEW x \in DWPTs, out' = [out EXCEPT ![t] = x],
         UNCHANGED buffer, IsInjective(flushQueue'), IsInjective(blocked'), blocked' # <<>> => fullFlush',
         \/ x \notin flushing /\ flushing' = flushing \cup {x} /\ ToSet(flushQueue') = ToSet(flushQueue)
         \/ /\ x \in ToSet(flushQueue) /\ flushing' = flushing
            /\ ToSet(flushQueue') = ToSet(flushQueue) \ {x}
  PROVE  Hands'
<1>1. \A u \in Actors : out'[u] = IF u = t THEN x ELSE out[u]
  BY DEF FlushInv, Types, GoTypes
<1>2. /\ ToSet(flushQueue) \subseteq flushing /\ ToSet(buffer) \subseteq flushing
      /\ ToSet(flushQueue) \cap ToSet(buffer) = {} /\ IsInjective(buffer)
  BY DEF FlushInv, Hands
<1>3. /\ x \in flushing' /\ x \notin ToSet(flushQueue') \cup ToSet(buffer) /\ \A u \in Actors : out[u] # x
  BY <1>2 DEF FlushInv, Hands
<1>4. \A u \in Actors : out'[u] # None =>
          out'[u] \in flushing' /\ out'[u] \notin ToSet(flushQueue') \cup ToSet(buffer)
  <2>1. ASSUME NEW u \in Actors, out'[u] # None
        PROVE  out'[u] \in flushing' /\ out'[u] \notin ToSet(flushQueue') \cup ToSet(buffer)
    <3>1. CASE u = t
      BY <1>1, <1>3, <3>1
    <3>2. CASE u # t
      <4>1. out'[u] = out[u] /\ out[u] \in flushing /\ out[u] \notin ToSet(flushQueue) \cup ToSet(buffer)
        BY <1>1, <2>1, <3>2 DEF FlushInv, Hands
      <4> QED BY <1>3, <4>1
    <3> QED BY <3>1, <3>2
  <2> QED BY <2>1
<1>5. \A u, v \in Actors : out'[u] = out'[v] /\ out'[u] # None => u = v
  BY <1>1, <1>3 DEF FlushInv, Hands
<1>6. \A d \in flushing' : d \in ToSet(flushQueue') \cup ToSet(buffer) \/ \E u \in Actors : out'[u] = d
  <2>1. ASSUME NEW d \in flushing', d \notin ToSet(flushQueue') \cup ToSet(buffer)
        PROVE  \E u \in Actors : out'[u] = d
    <3>1. CASE d = x
      BY <1>1, <3>1
    <3>2. CASE d # x
      <4>1. d \in flushing /\ d \notin ToSet(flushQueue) \cup ToSet(buffer)
        BY <2>1, <3>2
      <4>2. PICK u \in Actors : out[u] = d
        BY <4>1 DEF FlushInv, Hands
      <4>3. u # t
        BY <4>1, <4>2, FlushControlAssumption DEF FlushInv, Types, SetTypes
      <4> QED BY <1>1, <4>2, <4>3
    <3> QED BY <3>1, <3>2
  <2> QED BY <2>1
<1>7. ToSet(flushQueue') \subseteq flushing' /\ ToSet(buffer) \subseteq flushing' /\ ToSet(flushQueue') \cap ToSet(buffer) = {}
  BY <1>2
<1> QED BY <1>2, <1>4, <1>5, <1>6, <1>7 DEF Hands

\* A DWPT that leaves the pool gets into the hands of one goroutine.
LEMMA HandsKept ==
  ASSUME FlushInv, [Next]_vars
  PROVE  Hands'
<1>1. ASSUME UNCHANGED <<flushQueue, buffer, blocked, flushing, out, fullFlush>> PROVE Hands'
  BY <1>1 DEF Hands, FlushInv
<1>2. ASSUME NEW t \in Threads, PreUpdate(t) \/ PreUpdateQueued(t) \/ PreUpdateStalled(t) \/
  ObtainAndLock(t) \/ LockAndPoll(t) \/ NewWriter(t) \/ CheckQueue(t) \/ IndexDocument(t) \/
  IndexClosed(t) \/ Release(t) \/ MarksAsFreeAndUnlock(t) \/ PostUpdate(t)
      PROVE  UNCHANGED <<flushQueue, buffer, blocked, flushing, out, fullFlush>>
  BY <1>2 DEF PreUpdate, Goto, dwptVars, poolVars, byteVars, fullVars, listVars, historyVars,
    PreUpdateQueued, PreUpdateStalled, ObtainAndLock, LockAndPoll, Pollable, NewWriter,
    CheckQueue, IndexDocument, IndexClosed, Release, Stale, MarksAsFreeAndUnlock, PanicWith,
    PostUpdate
<1>3. ASSUME NEW t \in Actors, Iter(t) \/ ScanDone(t)
      PROVE  UNCHANGED <<flushQueue, buffer, blocked, flushing, out, fullFlush>>
  BY <1>3 DEF Iter, Goto, dwptVars, poolVars, byteVars, fullVars, listVars, historyVars,
    ScanDone, AfterFlush
<1>4. ASSUME NEW d \in DWPTs, FilterAndLock(d) \/ DoOnAbort(d)
      PROVE  UNCHANGED <<flushQueue, buffer, blocked, flushing, out, fullFlush>>
  BY <1>4 DEF FilterAndLock, poolVars, byteVars, fullVars, listVars, historyVars, DoOnAbort,
    Checkout, Locked, goVars
<1>5. ASSUME Filter \/ WaitForFlush \/ Close \/ Abort \/ AbortDone \/ UNCHANGED vars
      PROVE  UNCHANGED <<flushQueue, buffer, blocked, flushing, out, fullFlush>>
  BY <1>5 DEF Filter, Goto, dwptVars, poolVars, byteVars, fullVars, listVars, historyVars,
    WaitForFlush, Close, Abort, AbortDone, vars, goVars
<1>6. ASSUME NEW t \in Threads, DoAfterDocument(t) PROVE Hands'
  <2> DEFINE d == mine[t]
  <2>1. /\ d \in registered /\ d \in DWPTs /\ pc[t] = "after" /\ UNCHANGED <<buffer, fullFlush>>
    BY <1>6, AfterDocument DEF FlushInv
  <2>2. out[t] = None /\ None \notin DWPTs
    BY <2>1 DEF FlushInv, Locks, Carriers, Panics, Carrying
  <2>3. d \notin flushing /\ d \notin ToSet(blocked)
    BY <2>1 DEF FlushInv, Places
  <2>4. /\ flushQueue \in Seq(DWPTs) /\ blocked \in Seq(DWPTs)
        /\ IsInjective(flushQueue) /\ IsInjective(blocked) /\ out \in [Actors -> DWPTs \cup {None}]
    BY DEF FlushInv, Types, SeqTypes, GoTypes, Hands
  <2>5. CASE UNCHANGED <<flushQueue, blocked, flushing, out>>
    BY <2>1, <2>5 DEF FlushInv, Hands
  <2>6. CASE IsTaken(t, d)
    <3>1. flushing' = flushing \cup {d} /\ out' = [out EXCEPT ![t] = d] /\ UNCHANGED <<flushQueue, blocked>>
      BY <2>6 DEF IsTaken
    <3>2. IsInjective(flushQueue') /\ IsInjective(blocked') /\ (blocked' # <<>> => fullFlush')
      BY <2>1, <2>4, <3>1 DEF FlushInv, Hands
    <3>3. flushing' = flushing \cup {d} /\ ToSet(flushQueue') = ToSet(flushQueue)
      BY <3>1
    <3> HIDE DEF d
    <3> QED BY <2>1, <2>2, <2>3, <3>1, <3>2, <3>3, HandedOver
  <2>7. CASE IsBlocked(t, d)
    <3>1. /\ fullFlush /\ blocked' = Append(blocked, d) /\ UNCHANGED flushing
          /\ out' = [out EXCEPT ![t] = First(flushQueue)]
          /\ flushQueue' = SubSeq(flushQueue, 2, Len(flushQueue))
      BY <2>7 DEF IsBlocked
    <3>2. IsInjective(blocked')
      BY <2>1, <2>3, <2>4, <3>1, SetOfAppend
    <3> HIDE DEF d
    <3>3. CASE flushQueue = <<>>
      <4>1. flushQueue' = flushQueue /\ First(flushQueue) = None
        BY <2>4, <3>1, <3>3 DEF First
      <4>2. out' = out
        BY <2>2, <2>4, <3>1, <4>1
      <4> QED BY <2>1, <3>1, <3>2, <4>1, <4>2 DEF FlushInv, Hands
    <3>4. CASE flushQueue # <<>>
      <4>1. flushQueue' = Tail(flushQueue) /\ First(flushQueue) = Head(flushQueue)
        BY <2>4, <3>1, <3>4, SetOfTail DEF First
      <4>2. /\ IsInjective(flushQueue') /\ Head(flushQueue) \in ToSet(flushQueue)
            /\ ToSet(flushQueue') = ToSet(flushQueue) \ {Head(flushQueue)}
        BY <2>4, <3>4, <4>1, SetOfTail
      <4>3. out' = [out EXCEPT ![t] = Head(flushQueue)]
        BY <3>1, <4>1
      <4>4. Head(flushQueue) \in DWPTs
        BY <2>4, <4>2, SetOfSeq
      <4> QED BY <2>1, <2>2, <3>1, <3>2, <4>2, <4>3, <4>4, HandedOver
    <3> QED BY <3>3, <3>4
  <2>8. UNCHANGED <<flushQueue, blocked, flushing, out>> \/ IsTaken(t, d) \/ IsBlocked(t, d)
    BY <1>6, AfterDocument DEF FlushInv, Skips, Stays
  <2> QED BY <2>5, <2>6, <2>7, <2>8
<1>7. ASSUME NEW t \in Actors, DoAfterFlush(t) PROVE Hands'
  <2>1. out[t] \in flushing /\ out[t] # None
    BY <1>7 DEF DoAfterFlush, FlushInv, Locks, Carriers, Hands
  <2>2. /\ flushing' = flushing \ {out[t]} /\ out' = [out EXCEPT ![t] = None]
        /\ UNCHANGED <<flushQueue, buffer, blocked, fullFlush>>
    BY <1>7, <2>1 DEF DoAfterFlush, fullVars
  <2>3. out \in [Actors -> DWPTs \cup {None}]
    BY DEF FlushInv, Types, GoTypes
  <2> QED BY <2>1, <2>2, <2>3 DEF FlushInv, Hands
<1>8. ASSUME NEW t \in Actors, NextPendingFlush(t) PROVE Hands'
  <2>1. out[t] = None /\ None \notin DWPTs
    BY <1>8 DEF NextPendingFlush, FlushInv, Locks, Carriers, Panics, Carrying
  <2>2. /\ UNCHANGED <<buffer, blocked, flushing, fullFlush>>
        /\ \/ UNCHANGED <<out, flushQueue>>
           \/ /\ flushQueue # <<>> /\ flushQueue' = Tail(flushQueue)
              /\ out' = [out EXCEPT ![t] = Head(flushQueue)]
    BY <1>8 DEF NextPendingFlush, fullVars
  <2>3. CASE UNCHANGED <<out, flushQueue>>
    BY <2>2, <2>3 DEF FlushInv, Hands
  <2>4. CASE ~UNCHANGED <<out, flushQueue>>
    <3>1. /\ IsInjective(flushQueue') /\ Head(flushQueue) \in ToSet(flushQueue)
          /\ ToSet(flushQueue') = ToSet(flushQueue) \ {Head(flushQueue)}
      BY <2>2, <2>4, SetOfTail DEF FlushInv, Types, SeqTypes, Hands
    <3>3. out' = [out EXCEPT ![t] = Head(flushQueue)]
      BY <2>2, <2>4
    <3>4. Head(flushQueue) \in DWPTs
      BY <3>1, SetOfSeq DEF FlushInv, Types, SeqTypes
    <3>5. IsInjective(blocked') /\ (blocked' # <<>> => fullFlush')
      BY <2>2 DEF FlushInv, Hands
    <3> QED BY <2>1, <2>2, <3>1, <3>3, <3>4, <3>5, HandedOver
  <2> QED BY <2>3, <2>4
<1>9. ASSUME NEW t \in Actors, ScanPool(t) PROVE Hands'
  <2>1. out[t] = None /\ None \notin DWPTs
    BY <1>9 DEF ScanPool, FlushInv, Locks, Carriers, Panics, Carrying
  <2>2. /\ UNCHANGED <<flushQueue, buffer, blocked, fullFlush>>
        /\ \/ UNCHANGED <<out, flushing>>
           \/ \E d \in registered : flushing' = flushing \cup {d} /\ out' = [out EXCEPT ![t] = d]
    BY <1>9 DEF ScanPool, CheckOutForFlush, fullVars
  <2>3. CASE UNCHANGED <<out, flushing>>
    BY <2>2, <2>3 DEF FlushInv, Hands
  <2>4. CASE ~UNCHANGED <<out, flushing>>
    <3>1. PICK d \in registered : flushing' = flushing \cup {d} /\ out' = [out EXCEPT ![t] = d]
      BY <2>2, <2>4
    <3>2. d \in DWPTs /\ d \notin flushing
      BY DEF FlushInv, Types, SetTypes, Places
    <3>3. IsInjective(flushQueue') /\ IsInjective(blocked') /\ (blocked' # <<>> => fullFlush')
      BY <2>2 DEF FlushInv, Hands
    <3>4. ToSet(flushQueue') = ToSet(flushQueue) /\ UNCHANGED buffer
      BY <2>2
    <3> QED BY <2>1, <3>1, <3>2, <3>3, <3>4, HandedOver
  <2> QED BY <2>3, <2>4
<1>10. ASSUME StartFullFlush PROVE Hands'
  BY <1>10 DEF StartFullFlush, Goto, PanicWith, dwptVars, poolVars, byteVars, listVars,
    historyVars, fullVars, FlushInv, Hands
<1>11. ASSUME NEW d \in DWPTs, MarkOne(d) PROVE Hands'
  <2>1. d \in registered
    BY <1>11 DEF MarkOne, FlushInv, Locks, Collected, Panics
  <2>2. d \notin flushing
    BY <2>1 DEF FlushInv, Places
  <2>3. /\ UNCHANGED <<flushQueue, blocked, out, fullFlush>>
        /\ UNCHANGED <<flushing,
                       buffer>> \/ (flushing' = flushing \cup {d} /\ buffer' = Append(buffer, d))
    BY <1>11 DEF MarkOne, CheckOutForFlush, goVars
  <2>4. CASE UNCHANGED <<flushing, buffer>>
    BY <2>3, <2>4 DEF FlushInv, Hands
  <2>5. CASE ~UNCHANGED <<flushing, buffer>>
    <3>1. d \notin ToSet(buffer)
      BY <2>2 DEF FlushInv, Hands
    <3>2. IsInjective(buffer') /\ ToSet(buffer') = ToSet(buffer) \cup {d}
      <4>1. buffer \in Seq(DWPTs) /\ IsInjective(buffer) /\ buffer' = Append(buffer, d)
        BY <2>3, <2>5 DEF FlushInv, Types, SeqTypes, Hands
      <4> QED BY <3>1, <4>1, SetOfAppend
    <3>3. flushing' = flushing \cup {d}
      BY <2>3, <2>5
    <3> QED BY <2>2, <2>3, <3>2, <3>3 DEF FlushInv, Hands
  <2> QED BY <2>4, <2>5
<1>12. ASSUME FullFlushMarkDone PROVE Hands'
  <2> DEFINE old == Pruned(queueGen - 1)
             rest == Keep(blocked, {d \in DWPTs : gen[d] # queueGen - 1})
  <2>1. /\ flushQueue \in Seq(DWPTs) /\ buffer \in Seq(DWPTs) /\ blocked \in Seq(DWPTs)
        /\ IsInjective(flushQueue) /\ IsInjective(buffer) /\ IsInjective(blocked)
    BY DEF FlushInv, Types, SeqTypes, Hands
  <2>2. /\ old \in Seq(DWPTs) /\ ToSet(old) \subseteq ToSet(blocked) /\ IsInjective(old)
        /\ rest \in Seq(DWPTs) /\ IsInjective(rest) /\ (rest # <<>> => blocked # <<>>)
    <3>1. old \in Seq(DWPTs) /\ ToSet(old) \subseteq ToSet(blocked) /\ IsInjective(old)
      BY <2>1, KeepSelects DEF Pruned
    <3>2. rest \in Seq(DWPTs) /\ ToSet(rest) \subseteq ToSet(blocked) /\ IsInjective(rest)
      BY <2>1, KeepSelects
    <3> HIDE DEF old, rest
    <3>3. rest # <<>> => ToSet(rest) # {}
      BY <3>2, SetOfSeq
    <3>4. blocked = <<>> => ToSet(blocked) = {}
      BY <2>1, SetOfSeq
    <3> QED BY <3>1, <3>2, <3>3, <3>4
  <2>3. /\ UNCHANGED <<out, fullFlush>>
        /\ \/ UNCHANGED <<flushQueue, buffer, blocked, flushing>>
           \/ /\ flushing' = flushing \cup ToSet(old) /\ blocked' = rest /\ buffer' = <<>>
              /\ flushQueue' = flushQueue \o old \o buffer
    BY <1>12 DEF FullFlushMarkDone, PanicWith, listVars, fullVars
  <2> HIDE DEF old, rest
  <2>4. ToSet(old) \cap flushing = {}
    BY <2>2 DEF FlushInv, Places
  <2>5. /\ ToSet(flushQueue) \cap ToSet(old) = {} /\ ToSet(buffer) \cap ToSet(old) = {}
        /\ ToSet(flushQueue) \cap ToSet(buffer) = {}
    BY <2>4 DEF FlushInv, Hands
  <2>6. /\ flushQueue \o old \in Seq(DWPTs) /\ IsInjective(flushQueue \o old)
        /\ ToSet(flushQueue \o old) = ToSet(flushQueue) \cup ToSet(old)
    BY <2>1, <2>2, <2>5, SetOfConcat
  <2>7. /\ IsInjective((flushQueue \o old) \o buffer)
        /\ ToSet((flushQueue \o old) \o buffer) = ToSet(flushQueue) \cup ToSet(old) \cup ToSet(buffer)
    <3>1. ToSet(flushQueue \o old) \cap ToSet(buffer) = {}
      BY <2>5, <2>6
    <3> DEFINE front == flushQueue \o old
    <3>2. front \in Seq(DWPTs) /\ IsInjective(front) /\ ToSet(front) \cap ToSet(buffer) = {}
      BY <2>6, <3>1
    <3>3. ToSet(front) = ToSet(flushQueue) \cup ToSet(old)
      BY <2>6
    <3> HIDE DEF front
    <3>4. IsInjective(front \o buffer) /\ ToSet(front \o buffer) = ToSet(front) \cup ToSet(buffer)
      BY <2>1, <3>2, SetOfConcat
    <3> USE DEF front
    <3> QED BY <3>3, <3>4
  <2>8. CASE UNCHANGED <<flushQueue, buffer, blocked, flushing>>
    BY <2>3, <2>8 DEF FlushInv, Hands
  <2>9. CASE ~UNCHANGED <<flushQueue, buffer, blocked, flushing>>
    <3>1. /\ IsInjective(flushQueue') /\ ToSet(flushQueue') = ToSet(flushQueue) \cup ToSet(old) \cup ToSet(buffer)
          /\ flushing' = flushing \cup ToSet(old)
      BY <2>3, <2>7, <2>9
    <3>2. ToSet(buffer') = {} /\ IsInjective(buffer')
      BY <2>3, <2>9, SetOfEmpty
    <3>3. IsInjective(blocked') /\ (blocked' # <<>> => blocked # <<>>)
      BY <2>2, <2>3, <2>9
    <3>4. UNCHANGED <<out, fullFlush>>
      BY <2>3
    <3> QED BY <2>4, <3>1, <3>2, <3>3, <3>4 DEF FlushInv, Hands
  <2> QED BY <2>8, <2>9
<1>13. ASSUME FinishFullFlush PROVE Hands'
  <2>1. /\ UNCHANGED <<out, buffer>>
        /\ \/ UNCHANGED <<flushQueue, blocked, flushing, fullFlush>>
           \/ /\ flushing = {} /\ flushQueue' = blocked /\ flushing' = ToSet(blocked) /\ blocked' = <<>>
    BY <1>13 DEF FinishFullFlush, PanicWith, listVars, fullVars
  <2>2. CASE UNCHANGED <<flushQueue, blocked, flushing, fullFlush>>
    BY <2>1, <2>2 DEF FlushInv, Hands
  <2>3. CASE ~UNCHANGED <<flushQueue, blocked, flushing, fullFlush>>
    <3>1. ToSet(buffer) = {} /\ \A t \in Actors : out[t] = None
      BY <2>1, <2>3 DEF FlushInv, Hands
    <3>2. IsInjective(blocked') /\ blocked' = <<>>
      BY <2>1, <2>3, SetOfEmpty
    <3>3. flushQueue' = blocked /\ flushing' = ToSet(blocked)
      BY <2>1, <2>3
    <3> QED BY <2>1, <3>1, <3>2, <3>3 DEF FlushInv, Hands
  <2> QED BY <2>2, <2>3
<1>14. ASSUME AbortFullFlushes PROVE Hands'
  <2>1. /\ flushing' = flushing \ ToSet(flushQueue) /\ flushQueue' = <<>> /\ blocked' = <<>>
        /\ UNCHANGED <<out, buffer>>
    BY <1>14 DEF AbortFullFlushes, AbortPending, fullVars
  <2>2. IsInjective(flushQueue') /\ IsInjective(blocked') /\ ToSet(flushQueue') = {}
    BY <2>1, SetOfEmpty
  <2> QED BY <2>1, <2>2 DEF FlushInv, Hands
<1>15. ASSUME AbortPendingFlushes PROVE Hands'
  <2>1. /\ flushing' = flushing \ ToSet(flushQueue) /\ flushQueue' = <<>> /\ blocked' = <<>>
        /\ UNCHANGED <<out, buffer>>
    BY <1>15 DEF AbortPendingFlushes, AbortPending, fullVars
  <2>2. IsInjective(flushQueue') /\ IsInjective(blocked') /\ ToSet(flushQueue') = {}
    BY <2>1, SetOfEmpty
  <2> QED BY <2>1, <2>2 DEF FlushInv, Hands
<1> QED
  BY <1>1, <1>2, <1>3, <1>4, <1>5, <1>6, <1>7, <1>8, <1>9, <1>10, <1>11, <1>12, <1>13, <1>14,
    <1>15 DEF Next, Obtain, Update, DoFlush, FullFlush, Rollback

-----------------------------------------------------------------------------
(* Locks.                                                                   *)

\* A goroutine that has a DWPT to flush is on its way to flush it.
LEMMA CarriersKept ==
  ASSUME FlushInv, [Next]_vars
  PROVE  Carriers'
<1>1. ASSUME UNCHANGED <<pc, out>> PROVE Carriers'
  BY <1>1 DEF Carriers, Locks, FlushInv
<1>2. ASSUME NEW d \in DWPTs, FilterAndLock(d) \/ MarkOne(d) \/ DoOnAbort(d)
      PROVE  UNCHANGED <<pc, out>>
  BY <1>2 DEF FilterAndLock, poolVars, byteVars, fullVars, listVars, historyVars, MarkOne,
    Checkout, CheckOutForFlush, Locked, goVars, DoOnAbort
<1>3. ASSUME UNCHANGED vars PROVE UNCHANGED <<pc, out>>
  BY <1>3 DEF vars, dwptVars, poolVars, byteVars, fullVars, historyVars, listVars, goVars
<1>4. ASSUME NEW t \in Threads, PreUpdate(t) PROVE Carriers'
  BY <1>4 DEF PreUpdate, Goto, dwptVars, poolVars, byteVars, fullVars, listVars, historyVars,
    FlushInv, Types, GoTypes, Locks, Carriers, Panics, Carrying
<1>5. ASSUME NEW t \in Threads, PreUpdateQueued(t) PROVE Carriers'
  BY <1>5 DEF PreUpdateQueued, Goto, dwptVars, poolVars, byteVars, fullVars, listVars,
    historyVars, FlushInv, Types, GoTypes, Locks, Carriers, Panics, Carrying
<1>6. ASSUME NEW t \in Threads, PreUpdateStalled(t) PROVE Carriers'
  BY <1>6 DEF PreUpdateStalled, Goto, dwptVars, poolVars, byteVars, fullVars, listVars,
    historyVars, FlushInv, Types, GoTypes, Locks, Carriers, Panics, Carrying
<1>7. ASSUME NEW t \in Threads, ObtainAndLock(t) PROVE Carriers'
  BY <1>7 DEF ObtainAndLock, Goto, dwptVars, poolVars, byteVars, fullVars, listVars,
    historyVars, FlushInv, Types, GoTypes, Locks, Carriers, Panics, Carrying
<1>8. ASSUME NEW t \in Threads, LockAndPoll(t) PROVE Carriers'
  BY <1>8 DEF LockAndPoll, Goto, Pollable, byteVars, fullVars, listVars, historyVars, FlushInv,
    Types, GoTypes, Locks, Carriers, Panics, Carrying
<1>9. ASSUME NEW t \in Threads, NewWriter(t) PROVE Carriers'
  BY <1>9 DEF NewWriter, Goto, byteVars, fullVars, listVars, historyVars, FlushInv, Types,
    GoTypes, Locks, Carriers, Panics, Carrying
<1>10. ASSUME NEW t \in Threads, CheckQueue(t) PROVE Carriers'
  BY <1>10 DEF CheckQueue, Goto, poolVars, byteVars, fullVars, listVars, historyVars, FlushInv,
    Types, GoTypes, Locks, Carriers, Panics, Carrying
<1>11. ASSUME NEW t \in Threads, IndexDocument(t) PROVE Carriers'
  BY <1>11 DEF IndexDocument, Goto, poolVars, byteVars, fullVars, listVars, historyVars,
    FlushInv, Types, GoTypes, Locks, Carriers, Panics, Carrying
<1>12. ASSUME NEW t \in Threads, IndexClosed(t) PROVE Carriers'
  BY <1>12 DEF IndexClosed, Goto, dwptVars, poolVars, byteVars, fullVars, listVars, historyVars,
    FlushInv, Types, GoTypes, Locks, Carriers, Panics, Carrying
<1>13. ASSUME NEW t \in Threads, DoAfterDocument(t) PROVE Carriers'
  BY <1>13 DEF DoAfterDocument, Goto, Checkout, Account, First, dwptVars, poolVars, byteVars,
    fullVars, historyVars, listVars, FlushInv, Types, GoTypes, Locks, Carriers, Panics, Carrying
<1>14. ASSUME NEW t \in Threads, Release(t) PROVE Carriers'
  BY <1>14 DEF Release, Goto, Stale, poolVars, byteVars, fullVars, listVars, historyVars,
    FlushInv, Types, GoTypes, Locks, Carriers, Panics, Carrying
<1>15. ASSUME NEW t \in Threads, MarksAsFreeAndUnlock(t) PROVE Carriers'
  <2>1. out' = out /\ \/ pc' = [u \in Actors |-> "panicFree"]
                      \/ pc[t] = "free" /\ pc' = [pc EXCEPT ![t] = "post"]
                      \/ pc[t] = "freeFailed" /\ pc' = [pc EXCEPT ![t] = "idle"]
    BY <1>15, NoAssertion DEF MarksAsFreeAndUnlock, PanicWith, Goto, listVars
  <2> QED BY <2>1 DEF FlushInv, Types, GoTypes, Locks, Carriers, Panics, Carrying
<1>16. ASSUME NEW t \in Threads, PostUpdate(t) PROVE Carriers'
  BY <1>16 DEF PostUpdate, Goto, dwptVars, poolVars, byteVars, fullVars, listVars, historyVars,
    FlushInv, Types, GoTypes, Locks, Carriers, Panics, Carrying
<1>17. ASSUME NEW t \in Actors, DoAfterFlush(t) PROVE Carriers'
  <2>1. \/ pc' = [u \in Actors |-> "panicError"]
        \/ out' = [out EXCEPT ![t] = None] /\ \E s \in {"next", "idle"} : pc' = [pc EXCEPT ![t] = s]
    BY <1>17, NoAssertion DEF DoAfterFlush, PanicWith, Goto
  <2> QED BY <2>1 DEF FlushInv, Types, GoTypes, Locks, Carriers, Panics
<1>18. ASSUME NEW t \in Actors, NextPendingFlush(t) PROVE Carriers'
  <2>1. pc[t] = "next"
    BY <1>18 DEF NextPendingFlush
  <2>2. \/ /\ flushQueue # <<>> /\ out' = [out EXCEPT ![t] = Head(flushQueue)]
           /\ pc' = [pc EXCEPT ![t] = "flush"]
        \/ out' = out /\ \E s \in {"iter", "wait", "idle"} : pc' = [pc EXCEPT ![t] = s]
    BY <1>18 DEF NextPendingFlush, Goto, AfterFlush
  <2>3. flushQueue # <<>> => Head(flushQueue) \in DWPTs
    BY DEF FlushInv, Types, SeqTypes
  <2>4. None \notin DWPTs
    BY FlushControlAssumption
  <2>5. pc \in [Actors -> States] /\ out \in [Actors -> DWPTs \cup {None}]
    BY DEF FlushInv, Types, GoTypes
  <2> QED BY <2>1, <2>2, <2>3, <2>4, <2>5 DEF FlushInv, Locks, Carriers, Panics, Carrying
<1>19. ASSUME NEW t \in Actors, Iter(t) PROVE Carriers'
  BY <1>19 DEF Iter, Goto, dwptVars, poolVars, byteVars, fullVars, listVars, historyVars,
    FlushInv, Types, GoTypes, Locks, Carriers, Panics, Carrying
<1>20. ASSUME NEW t \in Actors, ScanPool(t) PROVE Carriers'
  BY <1>20 DEF ScanPool, Goto, CheckOutForFlush, dwptVars, poolVars, fullVars, historyVars,
    Checkout, FlushInv, Types, GoTypes, Locks, Carriers, Panics, Carrying
<1>21. ASSUME NEW t \in Actors, ScanDone(t) PROVE Carriers'
  BY <1>21 DEF ScanDone, Goto, AfterFlush, dwptVars, poolVars, byteVars, fullVars, listVars,
    historyVars, FlushInv, Types, GoTypes, Locks, Carriers, Panics, Carrying
<1>22. ASSUME StartFullFlush PROVE Carriers'
  <2>1. out' = out /\ pc[Flusher] = "idle" /\ pc' = [pc EXCEPT ![Flusher] = "filter"]
    BY <1>22, NoAssertion DEF StartFullFlush, PanicWith, Goto
  <2> QED BY <2>1 DEF FlushInv, Types, GoTypes, Locks, Carriers, Panics, Carrying
<1>23. ASSUME Filter PROVE Carriers'
  BY <1>23 DEF Filter, Goto, dwptVars, poolVars, byteVars, fullVars, listVars, historyVars,
    FlushInv, Types, GoTypes, Locks, Carriers, Panics, Carrying
<1>24. ASSUME FullFlushMarkDone PROVE Carriers'
  <2>1. out' = out /\ pc[Flusher] = "lockAll" /\ pc' = [pc EXCEPT ![Flusher] = "next"]
    BY <1>24, NoAssertion DEF FullFlushMarkDone, PanicWith, Goto
  <2> QED BY <2>1 DEF FlushInv, Types, GoTypes, Locks, Carriers, Panics, Carrying
<1>25. ASSUME WaitForFlush PROVE Carriers'
  BY <1>25 DEF WaitForFlush, Goto, dwptVars, poolVars, byteVars, fullVars, listVars,
    historyVars, FlushInv, Types, GoTypes, Locks, Carriers, Panics, Carrying
<1>26. ASSUME FinishFullFlush PROVE Carriers'
  <2>1. out' = out /\ \/ pc' = [u \in Actors |-> "panicFinish"]
                      \/ pc[Flusher] = "finish" /\ pc' = [pc EXCEPT ![Flusher] = "idle"]
    BY <1>26, NoAssertion DEF FinishFullFlush, PanicWith, Goto
  <2> QED BY <2>1 DEF FlushInv, Types, GoTypes, Locks, Carriers, Panics, Carrying
<1>27. ASSUME AbortFullFlushes PROVE Carriers'
  BY <1>27 DEF AbortFullFlushes, Goto, AbortPending, dwptVars, poolVars, FlushInv, Types,
    GoTypes, Locks, Carriers, Panics, Carrying
<1>28. ASSUME Close PROVE Carriers'
  BY <1>28 DEF Close, Goto, dwptVars, poolVars, listVars, historyVars, FlushInv, Types, GoTypes,
    Locks, Carriers, Panics, Carrying
<1>29. ASSUME Abort PROVE Carriers'
  BY <1>29 DEF Abort, Goto, dwptVars, poolVars, byteVars, fullVars, listVars, historyVars,
    FlushInv, Types, GoTypes, Locks, Carriers, Panics, Carrying
<1>30. ASSUME AbortPendingFlushes PROVE Carriers'
  BY <1>30 DEF AbortPendingFlushes, Goto, AbortPending, Locked, dwptVars, poolVars, fullVars,
    FlushInv, Types, GoTypes, Locks, Carriers, Panics, Carrying
<1>31. ASSUME AbortDone PROVE Carriers'
  BY <1>31 DEF AbortDone, Goto, dwptVars, poolVars, byteVars, fullVars, listVars, historyVars,
    FlushInv, Types, GoTypes, Locks, Carriers, Panics, Carrying
<1> QED
  BY <1>1, <1>2, <1>3, <1>4, <1>5, <1>6, <1>7, <1>8, <1>9, <1>10, <1>11, <1>12, <1>13, <1>14,
    <1>15, <1>16, <1>17, <1>18, <1>19, <1>20, <1>21, <1>22, <1>23, <1>24, <1>25, <1>26, <1>27,
    <1>28, <1>29, <1>30, <1>31 DEF Next, Obtain, Update, DoFlush, FullFlush, Rollback

\* A goroutine that has obtained a DWPT holds its lock.
LEMMA HoldersKept ==
  ASSUME FlushInv, [Next]_vars
  PROVE  Holders'
<1>1. ASSUME UNCHANGED <<pc, mine, lock, registered, pending>> PROVE Holders'
  BY <1>1 DEF Holders, Locks, FlushInv
<1>2. ASSUME UNCHANGED vars PROVE UNCHANGED <<pc, mine, lock, registered, pending>>
  BY <1>2 DEF vars, dwptVars, poolVars, byteVars, fullVars, historyVars, listVars, goVars
<1>3. ASSUME NEW t \in Threads, PreUpdate(t) PROVE Holders'
  BY <1>3 DEF PreUpdate, Goto, dwptVars, poolVars, byteVars, fullVars, listVars, historyVars,
    FlushInv, Types, GoTypes, DwptTypes, Locks, Holders, Holding
<1>4. ASSUME NEW t \in Threads, PreUpdateQueued(t) PROVE Holders'
  BY <1>4 DEF PreUpdateQueued, Goto, dwptVars, poolVars, byteVars, fullVars, listVars,
    historyVars, FlushInv, Types, GoTypes, DwptTypes, Locks, Holders, Holding
<1>5. ASSUME NEW t \in Threads, PreUpdateStalled(t) PROVE Holders'
  BY <1>5 DEF PreUpdateStalled, Goto, dwptVars, poolVars, byteVars, fullVars, listVars,
    historyVars, FlushInv, Types, GoTypes, DwptTypes, Locks, Holders, Holding
<1>6. ASSUME NEW t \in Threads, ObtainAndLock(t) PROVE Holders'
  BY <1>6 DEF ObtainAndLock, Goto, dwptVars, poolVars, byteVars, fullVars, listVars,
    historyVars, FlushInv, Types, GoTypes, DwptTypes, Locks, Holders, Holding
<1>7. ASSUME NEW t \in Threads, LockAndPoll(t) PROVE Holders'
  <2>1. UNCHANGED <<registered, pending>>
    BY <1>7 DEF LockAndPoll, byteVars
  <2>2. CASE UNCHANGED <<lock, mine>>
    <3>1. \E s \in {"idle", "new"} : pc' = [pc EXCEPT ![t] = s]
      <4>1. \A d \in Pollable : lock[d] # t
        BY FlushControlAssumption DEF Pollable
      <4> QED BY <1>7, <2>2, <4>1 DEF LockAndPoll, Goto, Pollable, FlushInv, Types, SetTypes, DwptTypes
    <3> QED BY <2>1, <2>2, <3>1 DEF FlushInv, Types, GoTypes, Locks, Holders, Holding
  <2>3. CASE ~UNCHANGED <<lock, mine>>
    <3>1. PICK d \in freeList : /\ lock[d] = None /\ lock' = [lock EXCEPT ![d] = t]
                                /\ mine' = [mine EXCEPT ![t] = d] /\ pc' = [pc EXCEPT ![t] = "check"]
      BY <1>7, <2>3 DEF LockAndPoll, Pollable, Goto
    <3>2. d \in registered /\ d \in DWPTs
      BY DEF FlushInv, Places, Types, SetTypes
    <3>3. /\ \A u \in Threads : u # None
          /\ lock \in [DWPTs -> Actors \cup {None}] /\ pc \in [Actors -> States]
          /\ mine \in [Actors -> DWPTs \cup {None}]
      BY FlushControlAssumption DEF FlushInv, Types, DwptTypes, GoTypes
    <3>4. d = mine'[t] /\ lock'[mine'[t]] = t /\ \A e \in DWPTs \ {d} : lock'[e] = lock[e]
      BY <3>1, <3>2, <3>3
    <3>5. \A u \in Threads \ {t} : pc'[u] = pc[u] /\ mine'[u] = mine[u]
      BY <3>1, <3>3
    <3> QED BY <2>1, <3>1, <3>2, <3>3, <3>4, <3>5 DEF FlushInv, Locks, Holders, Holding
  <2> QED BY <2>2, <2>3
<1>8. ASSUME NEW t \in Threads, NewWriter(t) PROVE Holders'
  <2>1. pending' = pending
    BY <1>8 DEF NewWriter, byteVars
  <2>2. /\ lock \in [DWPTs -> Actors \cup {None}] /\ pc \in [Actors -> States]
        /\ mine \in [Actors -> DWPTs \cup {None}]
    BY DEF FlushInv, Types, DwptTypes, GoTypes
  <2>3. CASE closed
    <3>1. UNCHANGED <<lock, mine, registered>> /\ pc' = [pc EXCEPT ![t] = "idle"]
      BY <1>8, <2>3 DEF NewWriter, Goto
    <3> QED BY <2>1, <2>2, <3>1 DEF FlushInv, Locks, Holders, Holding
  <2>4. CASE ~closed
    <3>1. PICK d \in DWPTs : /\ {e \in DWPTs : gen[e] = 0} = d..MaxDWPTs
                             /\ lock' = [lock EXCEPT ![d] = t] /\ registered' = registered \cup {d}
                             /\ mine' = [mine EXCEPT ![t] = d] /\ pc' = [pc EXCEPT ![t] = "check"]
      BY <1>8, <2>4 DEF NewWriter, Goto
    <3>2. gen[d] = 0
      BY <3>1 DEF DWPTs
    <3>3. d \notin registered /\ d \notin pending
      BY <3>2 DEF FlushInv, Places
    <3>4. d = mine'[t] /\ lock'[mine'[t]] = t /\ \A e \in DWPTs \ {d} : lock'[e] = lock[e]
      BY <2>2, <3>1
    <3>5. \A u \in Threads \ {t} : pc'[u] = pc[u] /\ mine'[u] = mine[u]
      BY <2>2, <3>1
    <3>6. registered' = registered \cup {d}
      BY <3>1
    <3> QED BY <2>1, <3>3, <3>4, <3>5, <3>6 DEF FlushInv, Locks, Holders, Holding
  <2> QED BY <2>3, <2>4
<1>9. ASSUME NEW t \in Threads, CheckQueue(t) PROVE Holders'
  BY <1>9 DEF CheckQueue, Goto, poolVars, byteVars, fullVars, listVars, historyVars, FlushInv,
    Types, GoTypes, DwptTypes, Locks, Holders, Holding
<1>10. ASSUME NEW t \in Threads, IndexDocument(t) PROVE Holders'
  BY <1>10 DEF IndexDocument, Goto, poolVars, byteVars, fullVars, listVars, historyVars,
    FlushInv, Types, GoTypes, DwptTypes, Locks, Holders, Holding
<1>11. ASSUME NEW t \in Threads, IndexClosed(t) PROVE Holders'
  BY <1>11 DEF IndexClosed, Goto, dwptVars, poolVars, byteVars, fullVars, listVars, historyVars,
    FlushInv, Types, GoTypes, DwptTypes, Locks, Holders, Holding
<1>12. ASSUME NEW t \in Threads, DoAfterDocument(t) PROVE Holders'
  BY <1>12 DEF DoAfterDocument, Goto, Checkout, Account, First, dwptVars, poolVars, byteVars,
    fullVars, historyVars, listVars, FlushInv, Types, GoTypes, DwptTypes, Locks, Holders,
    Holding
<1>13. ASSUME NEW t \in Threads, Release(t) PROVE Holders'
  BY <1>13 DEF Release, Goto, Stale, poolVars, byteVars, fullVars, listVars, historyVars,
    FlushInv, Types, GoTypes, DwptTypes, Locks, Holders, Holding
<1>14. ASSUME NEW t \in Threads, MarksAsFreeAndUnlock(t) PROVE Holders'
  BY <1>14 DEF MarksAsFreeAndUnlock, Goto, PanicWith, byteVars, fullVars, listVars, historyVars,
    dwptVars, poolVars, FlushInv, Types, GoTypes, DwptTypes, Locks, Holders, Holding
<1>15. ASSUME NEW t \in Threads, PostUpdate(t) PROVE Holders'
  BY <1>15 DEF PostUpdate, Goto, dwptVars, poolVars, byteVars, fullVars, listVars, historyVars,
    FlushInv, Types, GoTypes, DwptTypes, Locks, Holders, Holding
<1>16. ASSUME NEW t \in Actors, DoAfterFlush(t) PROVE Holders'
  BY <1>16 DEF DoAfterFlush, Goto, PanicWith, dwptVars, poolVars, fullVars, byteVars, listVars,
    historyVars, FlushInv, Types, GoTypes, DwptTypes, Locks, Holders, Holding
<1>17. ASSUME NEW t \in Actors, NextPendingFlush(t) PROVE Holders'
  BY <1>17 DEF NextPendingFlush, Goto, AfterFlush, dwptVars, poolVars, fullVars, historyVars,
    FlushInv, Types, GoTypes, DwptTypes, Locks, Holders, Holding
<1>18. ASSUME NEW t \in Actors, Iter(t) PROVE Holders'
  BY <1>18 DEF Iter, Goto, dwptVars, poolVars, byteVars, fullVars, listVars, historyVars,
    FlushInv, Types, GoTypes, DwptTypes, Locks, Holders, Holding
<1>19. ASSUME NEW t \in Actors, ScanPool(t) PROVE Holders'
  BY <1>19 DEF ScanPool, Goto, CheckOutForFlush, dwptVars, poolVars, fullVars, historyVars,
    Checkout, FlushInv, Types, GoTypes, DwptTypes, Locks, Holders, Holding
<1>20. ASSUME NEW t \in Actors, ScanDone(t) PROVE Holders'
  BY <1>20 DEF ScanDone, Goto, AfterFlush, dwptVars, poolVars, byteVars, fullVars, listVars,
    historyVars, FlushInv, Types, GoTypes, DwptTypes, Locks, Holders, Holding
<1>21. ASSUME StartFullFlush PROVE Holders'
  BY <1>21 DEF StartFullFlush, Goto, PanicWith, dwptVars, poolVars, byteVars, listVars,
    historyVars, fullVars, FlushInv, Types, GoTypes, DwptTypes, Locks, Holders, Holding
<1>22. ASSUME Filter PROVE Holders'
  BY <1>22 DEF Filter, Goto, dwptVars, poolVars, byteVars, fullVars, listVars, historyVars,
    FlushInv, Types, GoTypes, DwptTypes, Locks, Holders, Holding
<1>23. ASSUME NEW d \in DWPTs, FilterAndLock(d) PROVE Holders'
  BY <1>23 DEF FilterAndLock, poolVars, byteVars, fullVars, listVars, historyVars, FlushInv,
    Types, GoTypes, DwptTypes, Locks, Holders, Holding
<1>24. ASSUME NEW d \in DWPTs, MarkOne(d) PROVE Holders'
  BY <1>24 DEF MarkOne, Checkout, CheckOutForFlush, Locked, historyVars, goVars, FlushInv,
    Types, GoTypes, DwptTypes, Locks, Holders, Holding
<1>25. ASSUME FullFlushMarkDone PROVE Holders'
  <2>1. UNCHANGED <<mine, lock, registered, pending>> /\ pc' = [pc EXCEPT ![Flusher] = "next"]
    BY <1>25, NoAssertion DEF FullFlushMarkDone, PanicWith, Goto, dwptVars, poolVars
  <2> QED BY <2>1 DEF FlushInv, Types, GoTypes, Locks, Holders, Holding
<1>26. ASSUME WaitForFlush PROVE Holders'
  BY <1>26 DEF WaitForFlush, Goto, dwptVars, poolVars, byteVars, fullVars, listVars,
    historyVars, FlushInv, Types, GoTypes, DwptTypes, Locks, Holders, Holding
<1>27. ASSUME FinishFullFlush PROVE Holders'
  BY <1>27 DEF FinishFullFlush, Goto, PanicWith, dwptVars, poolVars, historyVars, byteVars,
    fullVars, listVars, FlushInv, Types, GoTypes, DwptTypes, Locks, Holders, Holding
<1>28. ASSUME AbortFullFlushes PROVE Holders'
  BY <1>28 DEF AbortFullFlushes, Goto, AbortPending, dwptVars, poolVars, FlushInv, Types,
    GoTypes, DwptTypes, Locks, Holders, Holding
<1>29. ASSUME Close PROVE Holders'
  BY <1>29 DEF Close, Goto, dwptVars, poolVars, listVars, historyVars, FlushInv, Types, GoTypes,
    DwptTypes, Locks, Holders, Holding
<1>30. ASSUME Abort PROVE Holders'
  BY <1>30 DEF Abort, Goto, dwptVars, poolVars, byteVars, fullVars, listVars, historyVars,
    FlushInv, Types, GoTypes, DwptTypes, Locks, Holders, Holding
<1>31. ASSUME NEW d \in DWPTs, DoOnAbort(d) PROVE Holders'
  BY <1>31 DEF DoOnAbort, Checkout, Locked, fullVars, goVars, FlushInv, Types, GoTypes,
    DwptTypes, Locks, Holders, Holding
<1>32. ASSUME AbortPendingFlushes PROVE Holders'
  BY <1>32 DEF AbortPendingFlushes, Goto, AbortPending, Locked, dwptVars, poolVars, fullVars,
    FlushInv, Types, GoTypes, DwptTypes, Locks, Holders, Holding
<1>33. ASSUME AbortDone PROVE Holders'
  BY <1>33 DEF AbortDone, Goto, dwptVars, poolVars, byteVars, fullVars, listVars, historyVars,
    FlushInv, Types, GoTypes, DwptTypes, Locks, Holders, Holding
<1> QED
  BY <1>1, <1>2, <1>3, <1>4, <1>5, <1>6, <1>7, <1>8, <1>9, <1>10, <1>11, <1>12, <1>13, <1>14,
    <1>15, <1>16, <1>17, <1>18, <1>19, <1>20, <1>21, <1>22, <1>23, <1>24, <1>25, <1>26, <1>27,
    <1>28, <1>29, <1>30, <1>31, <1>32, <1>33 DEF Next, Obtain, Update, DoFlush, FullFlush, Rollback

\* The full flush and the rollback hold the locks of DWPTs of the pool.
LEMMA CollectedKept ==
  ASSUME FlushInv, [Next]_vars
  PROVE  Collected'
<1>1. ASSUME UNCHANGED <<pc, lock, registered, gen, queueGen>> PROVE Collected'
  BY <1>1 DEF Collected, Locked, Locks, FlushInv
<1>2. ASSUME UNCHANGED vars PROVE UNCHANGED <<pc, lock, registered, gen, queueGen>>
  BY <1>2 DEF vars, dwptVars, poolVars, byteVars, fullVars, historyVars, listVars, goVars
<1>3. ASSUME NEW t \in Threads, PreUpdate(t) PROVE Collected'
  BY <1>3 DEF PreUpdate, Goto, dwptVars, poolVars, byteVars, fullVars, listVars, historyVars,
    FlushInv, Types, GoTypes, DwptTypes, Locks, Collected, Locked, Panics
<1>4. ASSUME NEW t \in Threads, PreUpdateQueued(t) PROVE Collected'
  BY <1>4 DEF PreUpdateQueued, Goto, dwptVars, poolVars, byteVars, fullVars, listVars,
    historyVars, FlushInv, Types, GoTypes, DwptTypes, Locks, Collected, Locked, Panics
<1>5. ASSUME NEW t \in Threads, PreUpdateStalled(t) PROVE Collected'
  BY <1>5 DEF PreUpdateStalled, Goto, dwptVars, poolVars, byteVars, fullVars, listVars,
    historyVars, FlushInv, Types, GoTypes, DwptTypes, Locks, Collected, Locked, Panics
<1>6. ASSUME NEW t \in Threads, ObtainAndLock(t) PROVE Collected'
  BY <1>6 DEF ObtainAndLock, Goto, dwptVars, poolVars, byteVars, fullVars, listVars,
    historyVars, FlushInv, Types, GoTypes, DwptTypes, Locks, Collected, Locked, Panics
<1>7. ASSUME NEW t \in Threads, LockAndPoll(t) PROVE Collected'
  BY <1>7 DEF LockAndPoll, Goto, Pollable, byteVars, fullVars, listVars, historyVars, FlushInv,
    Types, GoTypes, DwptTypes, Locks, Collected, Locked, Panics
<1>8. ASSUME NEW t \in Threads, NewWriter(t) PROVE Collected'
  BY <1>8 DEF NewWriter, Goto, byteVars, fullVars, listVars, historyVars, FlushInv, Types,
    GoTypes, DwptTypes, Locks, Collected, Locked, Panics
<1>9. ASSUME NEW t \in Threads, CheckQueue(t) PROVE Collected'
  BY <1>9 DEF CheckQueue, Goto, poolVars, byteVars, fullVars, listVars, historyVars, FlushInv,
    Types, GoTypes, DwptTypes, Locks, Collected, Locked, Panics
<1>10. ASSUME NEW t \in Threads, IndexDocument(t) PROVE Collected'
  BY <1>10 DEF IndexDocument, Goto, poolVars, byteVars, fullVars, listVars, historyVars,
    FlushInv, Types, GoTypes, DwptTypes, Locks, Collected, Locked, Panics
<1>11. ASSUME NEW t \in Threads, IndexClosed(t) PROVE Collected'
  BY <1>11 DEF IndexClosed, Goto, dwptVars, poolVars, byteVars, fullVars, listVars, historyVars,
    FlushInv, Types, GoTypes, DwptTypes, Locks, Collected, Locked, Panics
<1>12. ASSUME NEW t \in Threads, DoAfterDocument(t) PROVE Collected'
  <2>1. /\ UNCHANGED <<lock, gen, queueGen>> /\ pc' = [pc EXCEPT ![t] = "release"]
        /\ mine[t] \in DWPTs /\ lock[mine[t]] = t /\ pc[t] = "after"
    BY <1>12, AfterDocument DEF FlushInv
  <2>2. registered' = registered \/ registered' = registered \ {mine[t]}
    BY <1>12, AfterDocument DEF FlushInv, Skips, Stays, Leaves
  <2>3. mine[t] \notin Locked
    BY <2>1, FlushControlAssumption DEF Locked
  <2>4. t # Flusher /\ pc'[Flusher] = pc[Flusher] /\ Locked' = Locked
    BY <2>1, FlushControlAssumption DEF FlushInv, Types, GoTypes, Locked
  <2> QED BY <2>1, <2>2, <2>3, <2>4 DEF FlushInv, Locks, Collected
<1>13. ASSUME NEW t \in Threads, Release(t) PROVE Collected'
  BY <1>13 DEF Release, Goto, Stale, poolVars, byteVars, fullVars, listVars, historyVars,
    FlushInv, Types, GoTypes, DwptTypes, Locks, Collected, Locked, Panics
<1>14. ASSUME NEW t \in Threads, MarksAsFreeAndUnlock(t) PROVE Collected'
  <2>1. UNCHANGED <<gen, queueGen, registered>>
    BY <1>14 DEF MarksAsFreeAndUnlock, PanicWith, dwptVars, fullVars, poolVars
  <2>2. \/ pc' = [u \in Actors |-> "panicFree"]
        \/ /\ lock' = [lock EXCEPT ![mine[t]] = None]
           /\ \E s \in {"post", "idle"} : pc' = [pc EXCEPT ![t] = s]
    BY <1>14, NoAssertion DEF MarksAsFreeAndUnlock, PanicWith, Goto
  <2>3. t # Flusher /\ Flusher \in Actors /\ None # Flusher
    BY FlushControlAssumption
  <2>4. pc'[Flusher] \in Panics \/ (pc'[Flusher] = pc[Flusher] /\ Locked' \subseteq Locked)
    BY <2>2, <2>3 DEF FlushInv, Types, GoTypes, DwptTypes, Locked, Panics
  <2> QED BY <2>1, <2>4 DEF FlushInv, Locks, Collected
<1>15. ASSUME NEW t \in Threads, PostUpdate(t) PROVE Collected'
  BY <1>15 DEF PostUpdate, Goto, dwptVars, poolVars, byteVars, fullVars, listVars, historyVars,
    FlushInv, Types, GoTypes, DwptTypes, Locks, Collected, Locked, Panics
<1>16. ASSUME NEW t \in Actors, DoAfterFlush(t) PROVE Collected'
  <2>1. UNCHANGED <<gen, lock, queueGen, registered>>
    BY <1>16 DEF DoAfterFlush, PanicWith, dwptVars, fullVars, poolVars
  <2>2. /\ pc[t] = "flush"
        /\ pc' = [u \in Actors |-> "panicError"] \/ \E s \in {"next", "idle"} : pc' = [pc EXCEPT ![t] = s]
    BY <1>16, NoAssertion DEF DoAfterFlush, PanicWith, Goto
  <2>3. pc'[Flusher] \in Panics \/ pc'[Flusher] = pc[Flusher] \/ pc[Flusher] = "flush"
    BY <2>2 DEF FlushInv, Types, GoTypes, Panics
  <2> QED BY <2>1, <2>3 DEF FlushInv, Locks, Collected, Locked, Panics
<1>17. ASSUME NEW t \in Actors, NextPendingFlush(t) PROVE Collected'
  BY <1>17 DEF NextPendingFlush, Goto, AfterFlush, dwptVars, poolVars, fullVars, historyVars,
    FlushInv, Types, GoTypes, DwptTypes, Locks, Collected, Locked, Panics
<1>18. ASSUME NEW t \in Actors, Iter(t) PROVE Collected'
  BY <1>18 DEF Iter, Goto, dwptVars, poolVars, byteVars, fullVars, listVars, historyVars,
    FlushInv, Types, GoTypes, DwptTypes, Locks, Collected, Locked, Panics
<1>19. ASSUME NEW t \in Actors, ScanPool(t) PROVE Collected'
  BY <1>19 DEF ScanPool, Goto, CheckOutForFlush, dwptVars, poolVars, fullVars, historyVars,
    Checkout, FlushInv, Types, GoTypes, DwptTypes, Locks, Collected, Locked, Panics
<1>20. ASSUME NEW t \in Actors, ScanDone(t) PROVE Collected'
  BY <1>20 DEF ScanDone, Goto, AfterFlush, dwptVars, poolVars, byteVars, fullVars, listVars,
    historyVars, FlushInv, Types, GoTypes, DwptTypes, Locks, Collected, Locked, Panics
<1>21. ASSUME StartFullFlush PROVE Collected'
  BY <1>21 DEF StartFullFlush, Goto, PanicWith, dwptVars, poolVars, byteVars, listVars,
    historyVars, fullVars, FlushInv, Types, GoTypes, DwptTypes, Locks, Collected, Locked, Panics
<1>22. ASSUME Filter PROVE Collected'
  BY <1>22 DEF Filter, Goto, dwptVars, poolVars, byteVars, fullVars, listVars, historyVars,
    FlushInv, Types, GoTypes, DwptTypes, Locks, Collected, Locked, Panics
<1>23. ASSUME NEW d \in DWPTs, FilterAndLock(d) PROVE Collected'
  <2>1. /\ UNCHANGED <<gen, queueGen, registered, pc>> /\ pc[Flusher] \in {"lockAll", "abortAll"}
        /\ d \in todo[Flusher]
        /\ lock' = IF d \in registered THEN [lock EXCEPT ![d] = Flusher] ELSE lock
    BY <1>23 DEF FilterAndLock, poolVars, fullVars
  <2>2. pc[Flusher] = "lockAll" => gen[d] = queueGen - 1
    BY <2>1 DEF FlushInv, Phases, Searched
  <2>3. Locked' \subseteq Locked \cup ({d} \cap registered)
    BY <2>1 DEF Locked, FlushInv, Types, DwptTypes
  <2> QED BY <2>1, <2>2, <2>3 DEF FlushInv, Locks, Collected
<1>24. ASSUME NEW d \in DWPTs, MarkOne(d) PROVE Collected'
  BY <1>24 DEF MarkOne, Checkout, CheckOutForFlush, Locked, historyVars, goVars, FlushInv,
    Types, GoTypes, DwptTypes, Locks, Collected, Locked, Panics
<1>25. ASSUME FullFlushMarkDone PROVE Collected'
  BY <1>25 DEF FullFlushMarkDone, Goto, PanicWith, Locked, dwptVars, poolVars, historyVars,
    byteVars, fullVars, listVars, FlushInv, Types, GoTypes, DwptTypes, Locks, Collected, Locked,
    Panics
<1>26. ASSUME WaitForFlush PROVE Collected'
  BY <1>26 DEF WaitForFlush, Goto, dwptVars, poolVars, byteVars, fullVars, listVars,
    historyVars, FlushInv, Types, GoTypes, DwptTypes, Locks, Collected, Locked, Panics
<1>27. ASSUME FinishFullFlush PROVE Collected'
  BY <1>27 DEF FinishFullFlush, Goto, PanicWith, dwptVars, poolVars, historyVars, byteVars,
    fullVars, listVars, FlushInv, Types, GoTypes, DwptTypes, Locks, Collected, Locked, Panics
<1>28. ASSUME AbortFullFlushes PROVE Collected'
  BY <1>28 DEF AbortFullFlushes, Goto, AbortPending, dwptVars, poolVars, FlushInv, Types,
    GoTypes, DwptTypes, Locks, Collected, Locked, Panics
<1>29. ASSUME Close PROVE Collected'
  BY <1>29 DEF Close, Goto, dwptVars, poolVars, listVars, historyVars, FlushInv, Types, GoTypes,
    DwptTypes, Locks, Collected, Locked, Panics
<1>30. ASSUME Abort PROVE Collected'
  BY <1>30 DEF Abort, Goto, dwptVars, poolVars, byteVars, fullVars, listVars, historyVars,
    FlushInv, Types, GoTypes, DwptTypes, Locks, Collected, Locked, Panics
<1>31. ASSUME NEW d \in DWPTs, DoOnAbort(d) PROVE Collected'
  BY <1>31 DEF DoOnAbort, Checkout, Locked, fullVars, goVars, FlushInv, Types, GoTypes,
    DwptTypes, Locks, Collected, Locked, Panics
<1>32. ASSUME AbortPendingFlushes PROVE Collected'
  BY <1>32 DEF AbortPendingFlushes, Goto, AbortPending, Locked, dwptVars, poolVars, fullVars,
    FlushInv, Types, GoTypes, DwptTypes, Locks, Collected, Locked, Panics
<1>33. ASSUME AbortDone PROVE Collected'
  BY <1>33 DEF AbortDone, Goto, dwptVars, poolVars, byteVars, fullVars, listVars, historyVars,
    FlushInv, Types, GoTypes, DwptTypes, Locks, Collected, Locked, Panics
<1> QED
  BY <1>1, <1>2, <1>3, <1>4, <1>5, <1>6, <1>7, <1>8, <1>9, <1>10, <1>11, <1>12, <1>13, <1>14,
    <1>15, <1>16, <1>17, <1>18, <1>19, <1>20, <1>21, <1>22, <1>23, <1>24, <1>25, <1>26, <1>27,
    <1>28, <1>29, <1>30, <1>31, <1>32, <1>33 DEF Next, Obtain, Update, DoFlush, FullFlush, Rollback

\* Who holds what, together.
LEMMA LocksKept ==
  ASSUME FlushInv, [Next]_vars
  PROVE  Locks'
  BY CarriersKept, HoldersKept, CollectedKept DEF Locks

-----------------------------------------------------------------------------
(* Phases.                                                                  *)

\* A goroutine that lets its DWPT go leaves those of the full flush alone.
LEMMA LetsGo ==
  ASSUME FlushInv, NEW t \in Threads, CheckQueue(t) \/ Release(t) \/ MarksAsFreeAndUnlock(t), [Next]_vars
  PROVE  /\ UNCHANGED <<gen, queueGen, registered, flushing, todo>> /\ Locked' = Locked
         /\ pc'[Flusher] = pc[Flusher] \/ pc'[Flusher] \in Panics
<1>1. mine[t] \in DWPTs /\ lock[mine[t]] = t
  BY DEF CheckQueue, Release, MarksAsFreeAndUnlock, FlushInv, Locks, Holders, Holding
<1>2. t # Flusher /\ None # Flusher
  BY FlushControlAssumption
<1>3. UNCHANGED <<gen, queueGen, registered, flushing, todo>>
  BY DEF CheckQueue, Release, MarksAsFreeAndUnlock, PanicWith, dwptVars, poolVars, fullVars, listVars
<1>4. lock' = lock \/ lock' = [lock EXCEPT ![mine[t]] = None]
  BY DEF CheckQueue, Release, MarksAsFreeAndUnlock, PanicWith, dwptVars
<1>5. Locked' = Locked
  BY <1>1, <1>2, <1>4 DEF Locked, FlushInv, Types, DwptTypes
<1>6. \/ \E s \in Panics : pc' = [u \in Actors |-> s]
      \/ \E s : pc' = [pc EXCEPT ![t] = s]
  <2>1. CASE CheckQueue(t)
    BY <2>1 DEF CheckQueue, Goto, Panics
  <2>2. CASE Release(t)
    BY <2>2 DEF Release, Goto
  <2>3. CASE MarksAsFreeAndUnlock(t)
    BY <2>3, NoAssertion DEF MarksAsFreeAndUnlock, PanicWith, Goto, Panics
  <2> QED BY <2>1, <2>2, <2>3
<1>7. pc'[Flusher] = pc[Flusher] \/ pc'[Flusher] \in Panics
  BY <1>2, <1>6 DEF FlushInv, Types, GoTypes
<1> QED BY <1>3, <1>5, <1>7

\* A new DWPT is nowhere, and is bound to the current delete queue.
LEMMA New ==
  ASSUME FlushInv, NEW t \in Threads, NewWriter(t)
  PROVE  /\ UNCHANGED <<queueGen, blocked, flushing, todo>> /\ pc'[Flusher] = pc[Flusher]
         /\ \/ closed /\ UNCHANGED <<gen, registered, lock>>
            \/ /\ ~closed
               /\ \E d \in DWPTs : /\ d \notin registered /\ registered' = registered \cup {d}
                                   /\ gen' = [gen EXCEPT ![d] = queueGen] /\ gen[d] = 0
                                   /\ lock' = [lock EXCEPT ![d] = t]
<1>1. UNCHANGED <<queueGen, blocked, flushing, todo>>
  BY DEF NewWriter, fullVars, listVars
<1>2. t # Flusher /\ \E s : pc' = [pc EXCEPT ![t] = s]
  BY FlushControlAssumption DEF NewWriter, Goto
<1>3. pc'[Flusher] = pc[Flusher]
  BY <1>2 DEF FlushInv, Types, GoTypes
<1>4. CASE closed
  BY <1>1, <1>3, <1>4 DEF NewWriter
<1>5. CASE ~closed
  <2>1. PICK d \in DWPTs : /\ {e \in DWPTs : gen[e] = 0} = d..MaxDWPTs
                           /\ registered' = registered \cup {d}
                           /\ gen' = [gen EXCEPT ![d] = queueGen] /\ lock' = [lock EXCEPT ![d] = t]
    BY <1>5 DEF NewWriter
  <2>2. gen[d] = 0
    BY <2>1 DEF DWPTs
  <2>3. d \notin registered
    BY <2>2 DEF FlushInv, Places
  <2> QED BY <1>1, <1>3, <1>5, <2>1, <2>2, <2>3
<1> QED BY <1>4, <1>5

\* What DoAfterDocument does to the pool.
LEMMA FromPool ==
  ASSUME FlushInv, NEW t \in Threads, DoAfterDocument(t)
  PROVE  /\ UNCHANGED <<gen, queueGen, lock,
                        todo>> /\ pc'[Flusher] = pc[Flusher] /\ Locked' = Locked
         /\ mine[t] \in registered /\ registered' \subseteq registered
         /\ ToSet(blocked') \subseteq ToSet(blocked) \cup {mine[t]}
         /\ flushing' \subseteq flushing \cup {mine[t]}
<1>1. /\ mine[t] \in registered /\ mine[t] \in DWPTs /\ pc' = [pc EXCEPT ![t] = "release"]
      /\ UNCHANGED <<gen, queueGen, lock, todo>>
  BY AfterDocument DEF FlushInv
<1>2. registered' \subseteq registered
  BY AfterDocument DEF FlushInv, Skips, Stays, Leaves
<1>3. blocked' = blocked \/ blocked' = Append(blocked, mine[t])
  BY AfterDocument DEF FlushInv, Skips, Stays, IsBlocked, IsTaken
<1>4. ToSet(blocked') \subseteq ToSet(blocked) \cup {mine[t]}
  <2>1. blocked \in Seq(DWPTs)
    BY DEF FlushInv, Types, SeqTypes
  <2>2. ToSet(Append(blocked, mine[t])) = ToSet(blocked) \cup {mine[t]}
    BY <1>1, <2>1, SetOfAppend
  <2> QED BY <1>3, <2>2
<1>5. flushing' \subseteq flushing \cup {mine[t]}
  BY AfterDocument DEF FlushInv, Skips, Stays, IsBlocked, IsTaken
<1>6. pc'[Flusher] = pc[Flusher] /\ Locked' = Locked
  BY <1>1, FlushControlAssumption DEF FlushInv, Types, GoTypes, Locked
<1> QED BY <1>1, <1>2, <1>4, <1>5, <1>6

\* The flags follow the holder of fullFlushLock.
LEMMA FlagsKept ==
  ASSUME FlushInv, [Next]_vars
  PROVE  Flags'
<1>1. ASSUME UNCHANGED <<pc, fullFlush, markDone, closed>> PROVE Flags'
  BY <1>1 DEF Flags, Phases, FlushInv
<1>2. ASSUME NEW d \in DWPTs, FilterAndLock(d) \/ MarkOne(d) \/ DoOnAbort(d)
      PROVE  UNCHANGED <<pc, fullFlush, markDone, closed>>
  BY <1>2 DEF FilterAndLock, poolVars, byteVars, fullVars, listVars, historyVars, MarkOne,
    Checkout, CheckOutForFlush, Locked, goVars, DoOnAbort
<1>3. ASSUME UNCHANGED vars PROVE UNCHANGED <<pc, fullFlush, markDone, closed>>
  BY <1>3 DEF vars, dwptVars, poolVars, byteVars, fullVars, historyVars, listVars, goVars
<1>4. ASSUME NEW t \in Threads, PreUpdate(t) PROVE Flags'
  BY <1>4 DEF PreUpdate, Goto, dwptVars, poolVars, byteVars, fullVars, listVars, historyVars,
    FlushInv, Types, GoTypes, Phases, Flags, Outside
<1>5. ASSUME NEW t \in Threads, PreUpdateQueued(t) PROVE Flags'
  BY <1>5 DEF PreUpdateQueued, Goto, dwptVars, poolVars, byteVars, fullVars, listVars,
    historyVars, FlushInv, Types, GoTypes, Phases, Flags, Outside
<1>6. ASSUME NEW t \in Threads, PreUpdateStalled(t) PROVE Flags'
  BY <1>6 DEF PreUpdateStalled, Goto, dwptVars, poolVars, byteVars, fullVars, listVars,
    historyVars, FlushInv, Types, GoTypes, Phases, Flags, Outside
<1>7. ASSUME NEW t \in Threads, ObtainAndLock(t) PROVE Flags'
  BY <1>7 DEF ObtainAndLock, Goto, dwptVars, poolVars, byteVars, fullVars, listVars,
    historyVars, FlushInv, Types, GoTypes, Phases, Flags, Outside
<1>8. ASSUME NEW t \in Threads, LockAndPoll(t) PROVE Flags'
  BY <1>8 DEF LockAndPoll, Goto, Pollable, byteVars, fullVars, listVars, historyVars, FlushInv,
    Types, GoTypes, Phases, Flags, Outside
<1>9. ASSUME NEW t \in Threads, NewWriter(t) PROVE Flags'
  BY <1>9 DEF NewWriter, Goto, byteVars, fullVars, listVars, historyVars, FlushInv, Types,
    GoTypes, Phases, Flags, Outside
<1>10. ASSUME NEW t \in Threads, CheckQueue(t) PROVE Flags'
  BY <1>10 DEF CheckQueue, Goto, poolVars, byteVars, fullVars, listVars, historyVars, FlushInv,
    Types, GoTypes, Phases, Flags, Outside
<1>11. ASSUME NEW t \in Threads, IndexDocument(t) PROVE Flags'
  BY <1>11 DEF IndexDocument, Goto, poolVars, byteVars, fullVars, listVars, historyVars,
    FlushInv, Types, GoTypes, Phases, Flags, Outside
<1>12. ASSUME NEW t \in Threads, IndexClosed(t) PROVE Flags'
  BY <1>12 DEF IndexClosed, Goto, dwptVars, poolVars, byteVars, fullVars, listVars, historyVars,
    FlushInv, Types, GoTypes, Phases, Flags, Outside
<1>13. ASSUME NEW t \in Threads, DoAfterDocument(t) PROVE Flags'
  BY <1>13 DEF DoAfterDocument, Goto, Checkout, Account, First, dwptVars, poolVars, byteVars,
    fullVars, historyVars, listVars, FlushInv, Types, GoTypes, Phases, Flags, Outside
<1>14. ASSUME NEW t \in Threads, Release(t) PROVE Flags'
  BY <1>14 DEF Release, Goto, Stale, poolVars, byteVars, fullVars, listVars, historyVars,
    FlushInv, Types, GoTypes, Phases, Flags, Outside
<1>15. ASSUME NEW t \in Threads, MarksAsFreeAndUnlock(t) PROVE Flags'
  BY <1>15 DEF MarksAsFreeAndUnlock, Goto, PanicWith, byteVars, fullVars, listVars, historyVars,
    dwptVars, poolVars, FlushInv, Types, GoTypes, Phases, Flags, Outside
<1>16. ASSUME NEW t \in Threads, PostUpdate(t) PROVE Flags'
  BY <1>16 DEF PostUpdate, Goto, dwptVars, poolVars, byteVars, fullVars, listVars, historyVars,
    FlushInv, Types, GoTypes, Phases, Flags, Outside
<1>17. ASSUME NEW t \in Actors, DoAfterFlush(t) PROVE Flags'
  BY <1>17 DEF DoAfterFlush, Goto, PanicWith, dwptVars, poolVars, fullVars, byteVars, listVars,
    historyVars, FlushInv, Types, GoTypes, Phases, Flags, Outside
<1>18. ASSUME NEW t \in Actors, NextPendingFlush(t) PROVE Flags'
  BY <1>18 DEF NextPendingFlush, Goto, AfterFlush, dwptVars, poolVars, fullVars, historyVars,
    FlushInv, Types, GoTypes, Phases, Flags, Outside
<1>19. ASSUME NEW t \in Actors, Iter(t) PROVE Flags'
  BY <1>19 DEF Iter, Goto, dwptVars, poolVars, byteVars, fullVars, listVars, historyVars,
    FlushInv, Types, GoTypes, Phases, Flags, Outside
<1>20. ASSUME NEW t \in Actors, ScanPool(t) PROVE Flags'
  BY <1>20 DEF ScanPool, Goto, CheckOutForFlush, dwptVars, poolVars, fullVars, historyVars,
    Checkout, FlushInv, Types, GoTypes, Phases, Flags, Outside
<1>21. ASSUME NEW t \in Actors, ScanDone(t) PROVE Flags'
  BY <1>21 DEF ScanDone, Goto, AfterFlush, dwptVars, poolVars, byteVars, fullVars, listVars,
    historyVars, FlushInv, Types, GoTypes, Phases, Flags, Outside
<1>22. ASSUME StartFullFlush PROVE Flags'
  BY <1>22 DEF StartFullFlush, Goto, PanicWith, dwptVars, poolVars, byteVars, listVars,
    historyVars, fullVars, FlushInv, Types, GoTypes, Phases, Flags, Outside
<1>23. ASSUME Filter PROVE Flags'
  BY <1>23 DEF Filter, Goto, dwptVars, poolVars, byteVars, fullVars, listVars, historyVars,
    FlushInv, Types, GoTypes, Phases, Flags, Outside
<1>24. ASSUME FullFlushMarkDone PROVE Flags'
  BY <1>24 DEF FullFlushMarkDone, Goto, PanicWith, Locked, dwptVars, poolVars, historyVars,
    byteVars, fullVars, listVars, FlushInv, Types, GoTypes, Phases, Flags, Outside
<1>25. ASSUME WaitForFlush PROVE Flags'
  BY <1>25 DEF WaitForFlush, Goto, dwptVars, poolVars, byteVars, fullVars, listVars,
    historyVars, FlushInv, Types, GoTypes, Phases, Flags, Outside
<1>26. ASSUME FinishFullFlush PROVE Flags'
  BY <1>26 DEF FinishFullFlush, Goto, PanicWith, dwptVars, poolVars, historyVars, byteVars,
    fullVars, listVars, FlushInv, Types, GoTypes, Phases, Flags, Outside
<1>27. ASSUME AbortFullFlushes PROVE Flags'
  BY <1>27 DEF AbortFullFlushes, Goto, AbortPending, dwptVars, poolVars, FlushInv, Types,
    GoTypes, Phases, Flags, Outside
<1>28. ASSUME Close PROVE Flags'
  BY <1>28 DEF Close, Goto, dwptVars, poolVars, listVars, historyVars, FlushInv, Types, GoTypes,
    Phases, Flags, Outside
<1>29. ASSUME Abort PROVE Flags'
  BY <1>29 DEF Abort, Goto, dwptVars, poolVars, byteVars, fullVars, listVars, historyVars,
    FlushInv, Types, GoTypes, Phases, Flags, Outside
<1>30. ASSUME AbortPendingFlushes PROVE Flags'
  BY <1>30 DEF AbortPendingFlushes, Goto, AbortPending, Locked, dwptVars, poolVars, fullVars,
    FlushInv, Types, GoTypes, Phases, Flags, Outside
<1>31. ASSUME AbortDone PROVE Flags'
  BY <1>31 DEF AbortDone, Goto, dwptVars, poolVars, byteVars, fullVars, listVars, historyVars,
    FlushInv, Types, GoTypes, Phases, Flags, Outside
<1> QED
  BY <1>1, <1>2, <1>3, <1>4, <1>5, <1>6, <1>7, <1>8, <1>9, <1>10, <1>11, <1>12, <1>13, <1>14,
    <1>15, <1>16, <1>17, <1>18, <1>19, <1>20, <1>21, <1>22, <1>23, <1>24, <1>25, <1>26, <1>27,
    <1>28, <1>29, <1>30, <1>31 DEF Next, Obtain, Update, DoFlush, FullFlush, Rollback

\* A DWPT of the pool is of the current generation, unless a full flush still looks for it.
LEMMA GenerationsKept ==
  ASSUME FlushInv, [Next]_vars
  PROVE  Generations'
<1>1. ASSUME UNCHANGED <<pc, gen, queueGen, registered, blocked>> PROVE Generations'
  BY <1>1 DEF Generations, Phases, FlushInv
<1>2. ASSUME NEW d \in DWPTs, FilterAndLock(d)
      PROVE  UNCHANGED <<pc, gen, queueGen, registered, blocked>>
  BY <1>2 DEF FilterAndLock, poolVars, byteVars, fullVars, listVars, historyVars
<1>3. ASSUME UNCHANGED vars PROVE UNCHANGED <<pc, gen, queueGen, registered, blocked>>
  BY <1>3 DEF vars, dwptVars, poolVars, byteVars, fullVars, historyVars, listVars, goVars
<1>4. ASSUME NEW t \in Threads, PreUpdate(t) PROVE Generations'
  BY <1>4 DEF PreUpdate, Goto, dwptVars, poolVars, byteVars, fullVars, listVars, historyVars,
    FlushInv, Types, GoTypes, DwptTypes, FlagTypes, Phases, Generations, Marking, Panics
<1>5. ASSUME NEW t \in Threads, PreUpdateQueued(t) PROVE Generations'
  BY <1>5 DEF PreUpdateQueued, Goto, dwptVars, poolVars, byteVars, fullVars, listVars,
    historyVars, FlushInv, Types, GoTypes, DwptTypes, FlagTypes, Phases, Generations, Marking,
    Panics
<1>6. ASSUME NEW t \in Threads, PreUpdateStalled(t) PROVE Generations'
  BY <1>6 DEF PreUpdateStalled, Goto, dwptVars, poolVars, byteVars, fullVars, listVars,
    historyVars, FlushInv, Types, GoTypes, DwptTypes, FlagTypes, Phases, Generations, Marking,
    Panics
<1>7. ASSUME NEW t \in Threads, ObtainAndLock(t) PROVE Generations'
  BY <1>7 DEF ObtainAndLock, Goto, dwptVars, poolVars, byteVars, fullVars, listVars,
    historyVars, FlushInv, Types, GoTypes, DwptTypes, FlagTypes, Phases, Generations, Marking,
    Panics
<1>8. ASSUME NEW t \in Threads, LockAndPoll(t) PROVE Generations'
  BY <1>8 DEF LockAndPoll, Goto, Pollable, byteVars, fullVars, listVars, historyVars, FlushInv,
    Types, GoTypes, DwptTypes, FlagTypes, Phases, Generations, Marking, Panics
<1>9. ASSUME NEW t \in Threads, NewWriter(t) PROVE Generations'
  <2>1. UNCHANGED <<queueGen, blocked>> /\ pc'[Flusher] = pc[Flusher]
    BY <1>9, New
  <2>2. CASE UNCHANGED <<gen, registered>>
    BY <2>1, <2>2 DEF FlushInv, Phases, Generations
  <2>3. CASE ~UNCHANGED <<gen, registered>>
    <3>1. PICK d \in DWPTs : registered' = registered \cup {d} /\ gen' = [gen EXCEPT ![d] = queueGen] /\ gen[d] = 0
      BY <1>9, <2>3, New
    <3>2. \A e \in DWPTs : gen'[e] = IF e = d THEN queueGen ELSE gen[e]
      BY <3>1 DEF FlushInv, Types, DwptTypes
    <3>3. queueGen \in Nat /\ registered \in SUBSET DWPTs /\ ToSet(blocked) \in SUBSET DWPTs
      BY SetOfSeq DEF FlushInv, Types, FlagTypes, SetTypes, SeqTypes
    <3> QED BY <2>1, <3>1, <3>2, <3>3 DEF FlushInv, Phases, Generations
  <2> QED BY <2>2, <2>3
<1>10. ASSUME NEW t \in Threads, CheckQueue(t) PROVE Generations'
  BY <1>10 DEF CheckQueue, Goto, poolVars, byteVars, fullVars, listVars, historyVars, FlushInv,
    Types, GoTypes, DwptTypes, FlagTypes, Phases, Generations, Marking, Panics
<1>11. ASSUME NEW t \in Threads, IndexDocument(t) PROVE Generations'
  BY <1>11 DEF IndexDocument, Goto, poolVars, byteVars, fullVars, listVars, historyVars,
    FlushInv, Types, GoTypes, DwptTypes, FlagTypes, Phases, Generations, Marking, Panics
<1>12. ASSUME NEW t \in Threads, IndexClosed(t) PROVE Generations'
  BY <1>12 DEF IndexClosed, Goto, dwptVars, poolVars, byteVars, fullVars, listVars, historyVars,
    FlushInv, Types, GoTypes, DwptTypes, FlagTypes, Phases, Generations, Marking, Panics
<1>13. ASSUME NEW t \in Threads, DoAfterDocument(t) PROVE Generations'
  BY <1>13, FromPool DEF FlushInv, Phases, Generations
<1>14. ASSUME NEW t \in Threads, Release(t) PROVE Generations'
  BY <1>14 DEF Release, Goto, Stale, poolVars, byteVars, fullVars, listVars, historyVars,
    FlushInv, Types, GoTypes, DwptTypes, FlagTypes, Phases, Generations, Marking, Panics
<1>15. ASSUME NEW t \in Threads, MarksAsFreeAndUnlock(t) PROVE Generations'
  <2>1. blocked' = blocked
    BY <1>15 DEF MarksAsFreeAndUnlock, PanicWith, listVars
  <2> QED BY <1>15, <2>1, LetsGo DEF FlushInv, Phases, Generations, Marking, Panics
<1>16. ASSUME NEW t \in Threads, PostUpdate(t) PROVE Generations'
  BY <1>16 DEF PostUpdate, Goto, dwptVars, poolVars, byteVars, fullVars, listVars, historyVars,
    FlushInv, Types, GoTypes, DwptTypes, FlagTypes, Phases, Generations, Marking, Panics
<1>17. ASSUME NEW t \in Actors, DoAfterFlush(t) PROVE Generations'
  <2>1. UNCHANGED <<gen, queueGen, registered, blocked>>
    BY <1>17 DEF DoAfterFlush, PanicWith, dwptVars, poolVars, fullVars, listVars
  <2>2. /\ pc[t] = "flush"
        /\ \/ pc' = [u \in Actors |-> "panicError"]
           \/ \E s \in {"next", "idle"} : pc' = [pc EXCEPT ![t] = s]
    BY <1>17, NoAssertion DEF DoAfterFlush, PanicWith, Goto
  <2>3. \/ pc'[Flusher] = "panicError" \/ pc'[Flusher] = pc[Flusher]
        \/ pc[Flusher] = "flush" /\ pc'[Flusher] \in {"next", "idle"}
    BY <2>2 DEF FlushInv, Types, GoTypes
  <2> QED BY <2>1, <2>3 DEF FlushInv, Phases, Generations, Marking, Panics
<1>18. ASSUME NEW t \in Actors, NextPendingFlush(t) PROVE Generations'
  BY <1>18 DEF NextPendingFlush, Goto, AfterFlush, dwptVars, poolVars, fullVars, historyVars,
    FlushInv, Types, GoTypes, DwptTypes, FlagTypes, Phases, Generations, Marking, Panics
<1>19. ASSUME NEW t \in Actors, Iter(t) PROVE Generations'
  BY <1>19 DEF Iter, Goto, dwptVars, poolVars, byteVars, fullVars, listVars, historyVars,
    FlushInv, Types, GoTypes, DwptTypes, FlagTypes, Phases, Generations, Marking, Panics
<1>20. ASSUME NEW t \in Actors, ScanPool(t) PROVE Generations'
  BY <1>20 DEF ScanPool, Goto, CheckOutForFlush, dwptVars, poolVars, fullVars, historyVars,
    Checkout, FlushInv, Types, GoTypes, DwptTypes, FlagTypes, Phases, Generations, Marking,
    Panics
<1>21. ASSUME NEW t \in Actors, ScanDone(t) PROVE Generations'
  BY <1>21 DEF ScanDone, Goto, AfterFlush, dwptVars, poolVars, byteVars, fullVars, listVars,
    historyVars, FlushInv, Types, GoTypes, DwptTypes, FlagTypes, Phases, Generations, Marking,
    Panics
<1>22. ASSUME StartFullFlush PROVE Generations'
  <2>1. /\ UNCHANGED <<gen, registered, blocked>> /\ queueGen' = queueGen + 1
        /\ pc[Flusher] = "idle" /\ pc' = [pc EXCEPT ![Flusher] = "filter"]
    BY <1>22, NoAssertion DEF StartFullFlush, PanicWith, Goto, dwptVars, poolVars, listVars
  <2>2. pc'[Flusher] = "filter"
    BY <2>1 DEF FlushInv, Types, GoTypes
  <2>3. \A d \in registered \cup ToSet(blocked) : gen[d] = queueGen
    BY <2>1 DEF FlushInv, Phases, Generations, Marking, Panics
  <2>4. queueGen \in Nat /\ queueGen >= 1 /\ \A d \in DWPTs : gen[d] \in Nat /\ gen[d] <= queueGen
    BY DEF FlushInv, Types, FlagTypes, DwptTypes, Phases, Generations
  <2> QED BY <2>1, <2>2, <2>3, <2>4 DEF Generations, Marking
<1>23. ASSUME Filter PROVE Generations'
  BY <1>23 DEF Filter, Goto, dwptVars, poolVars, byteVars, fullVars, listVars, historyVars,
    FlushInv, Types, GoTypes, DwptTypes, FlagTypes, Phases, Generations, Marking, Panics
<1>24. ASSUME NEW d \in DWPTs, MarkOne(d) PROVE Generations'
  BY <1>24 DEF MarkOne, Checkout, CheckOutForFlush, Locked, historyVars, goVars, FlushInv,
    Types, GoTypes, DwptTypes, FlagTypes, Phases, Generations, Marking, Panics
<1>25. ASSUME FullFlushMarkDone PROVE Generations'
  <2>1. /\ UNCHANGED <<gen, registered, queueGen>> /\ pc' = [pc EXCEPT ![Flusher] = "next"]
        /\ pc[Flusher] = "lockAll" /\ todo[Flusher] = {} /\ Locked = {}
        /\ blocked' = Keep(blocked, {d \in DWPTs : gen[d] # queueGen - 1})
    BY <1>25, NoAssertion DEF FullFlushMarkDone, PanicWith, Goto, dwptVars, poolVars
  <2>2. ToSet(blocked') = ToSet(blocked) \cap {d \in DWPTs : gen[d] # queueGen - 1}
    BY <2>1, KeepSelects DEF FlushInv, Types, SeqTypes
  <2>3. \A d \in registered : gen[d] # queueGen - 1
    BY <2>1 DEF FlushInv, Phases, Searched
  <2>4. \A d \in registered \cup ToSet(blocked') : gen[d] = queueGen
    BY <2>1, <2>2, <2>3 DEF FlushInv, Phases, Generations, Panics
  <2>5. pc'[Flusher] = "next"
    BY <2>1 DEF FlushInv, Types, GoTypes
  <2> QED BY <2>1, <2>4, <2>5 DEF FlushInv, Phases, Generations, Marking
<1>26. ASSUME WaitForFlush PROVE Generations'
  BY <1>26 DEF WaitForFlush, Goto, dwptVars, poolVars, byteVars, fullVars, listVars,
    historyVars, FlushInv, Types, GoTypes, DwptTypes, FlagTypes, Phases, Generations, Marking,
    Panics
<1>27. ASSUME FinishFullFlush PROVE Generations'
  <2>1. /\ UNCHANGED <<gen, registered, queueGen>> /\ pc[Flusher] = "finish"
        /\ \/ pc' = [u \in Actors |-> "panicFinish"] /\ UNCHANGED blocked
           \/ pc' = [pc EXCEPT ![Flusher] = "idle"] /\ blocked' = <<>>
    BY <1>27, NoAssertion DEF FinishFullFlush, PanicWith, Goto, dwptVars, poolVars, fullVars, listVars
  <2>2. pc'[Flusher] = "panicFinish" \/ (pc'[Flusher] = "idle" /\ ToSet(blocked') = {})
    BY <2>1, SetOfEmpty DEF FlushInv, Types, GoTypes
  <2> QED BY <2>1, <2>2 DEF FlushInv, Phases, Generations, Marking, Panics
<1>28. ASSUME AbortFullFlushes PROVE Generations'
  <2>1. /\ UNCHANGED <<gen, registered, queueGen>> /\ blocked' = <<>>
        /\ pc' = [pc EXCEPT ![Flusher] = "idle"] /\ pc[Flusher] \in {"finish", "abortAll"}
    BY <1>28 DEF AbortFullFlushes, AbortPending, Goto, dwptVars, poolVars, fullVars
  <2>2. ToSet(blocked') = {} /\ pc'[Flusher] = "idle"
    BY <2>1, SetOfEmpty DEF FlushInv, Types, GoTypes
  <2> QED BY <2>1, <2>2 DEF FlushInv, Phases, Generations, Marking, Panics
<1>29. ASSUME Close PROVE Generations'
  BY <1>29 DEF Close, Goto, dwptVars, poolVars, listVars, historyVars, FlushInv, Types, GoTypes,
    DwptTypes, FlagTypes, Phases, Generations, Marking, Panics
<1>30. ASSUME Abort PROVE Generations'
  BY <1>30 DEF Abort, Goto, dwptVars, poolVars, byteVars, fullVars, listVars, historyVars,
    FlushInv, Types, GoTypes, DwptTypes, FlagTypes, Phases, Generations, Marking, Panics
<1>31. ASSUME NEW d \in DWPTs, DoOnAbort(d) PROVE Generations'
  BY <1>31 DEF DoOnAbort, Checkout, Locked, fullVars, goVars, FlushInv, Types, GoTypes,
    DwptTypes, FlagTypes, Phases, Generations, Marking, Panics
<1>32. ASSUME AbortPendingFlushes PROVE Generations'
  <2>1. /\ UNCHANGED <<gen, registered, queueGen>> /\ blocked' = <<>>
        /\ pc' = [pc EXCEPT ![Flusher] = "abortWait"] /\ pc[Flusher] \in {"finish", "abortAll"}
    BY <1>32 DEF AbortPendingFlushes, AbortPending, Goto, dwptVars, poolVars, fullVars
  <2>2. ToSet(blocked') = {} /\ pc'[Flusher] = "abortWait"
    BY <2>1, SetOfEmpty DEF FlushInv, Types, GoTypes
  <2> QED BY <2>1, <2>2 DEF FlushInv, Phases, Generations, Marking, Panics
<1>33. ASSUME AbortDone PROVE Generations'
  BY <1>33 DEF AbortDone, Goto, dwptVars, poolVars, byteVars, fullVars, listVars, historyVars,
    FlushInv, Types, GoTypes, DwptTypes, FlagTypes, Phases, Generations, Marking, Panics
<1> QED
  BY <1>1, <1>2, <1>3, <1>4, <1>5, <1>6, <1>7, <1>8, <1>9, <1>10, <1>11, <1>12, <1>13, <1>14,
    <1>15, <1>16, <1>17, <1>18, <1>19, <1>20, <1>21, <1>22, <1>23, <1>24, <1>25, <1>26, <1>27,
    <1>28, <1>29, <1>30, <1>31, <1>32, <1>33 DEF Next, Obtain, Update, DoFlush, FullFlush, Rollback

\* The full flush overlooks no DWPT.
LEMMA SearchedKept ==
  ASSUME FlushInv, [Next]_vars
  PROVE  Searched'
<1>1. ASSUME UNCHANGED <<pc, gen, queueGen, registered, flushing, todo, lock>> PROVE Searched'
  BY <1>1 DEF Searched, Phases, Locked, FlushInv
<1>2. ASSUME UNCHANGED vars PROVE UNCHANGED <<pc, gen, queueGen, registered, flushing, todo, lock>>
  BY <1>2 DEF vars, dwptVars, poolVars, byteVars, fullVars, historyVars, listVars, goVars
<1>3. ASSUME NEW t \in Threads, PreUpdate(t) PROVE Searched'
  BY <1>3 DEF PreUpdate, Goto, dwptVars, poolVars, byteVars, fullVars, listVars, historyVars,
    FlushInv, Types, GoTypes, DwptTypes, Locked, Phases, Searched
<1>4. ASSUME NEW t \in Threads, PreUpdateQueued(t) PROVE Searched'
  BY <1>4 DEF PreUpdateQueued, Goto, dwptVars, poolVars, byteVars, fullVars, listVars,
    historyVars, FlushInv, Types, GoTypes, DwptTypes, Locked, Phases, Searched
<1>5. ASSUME NEW t \in Threads, PreUpdateStalled(t) PROVE Searched'
  BY <1>5 DEF PreUpdateStalled, Goto, dwptVars, poolVars, byteVars, fullVars, listVars,
    historyVars, FlushInv, Types, GoTypes, DwptTypes, Locked, Phases, Searched
<1>6. ASSUME NEW t \in Threads, ObtainAndLock(t) PROVE Searched'
  BY <1>6 DEF ObtainAndLock, Goto, dwptVars, poolVars, byteVars, fullVars, listVars,
    historyVars, FlushInv, Types, GoTypes, DwptTypes, Locked, Phases, Searched
<1>7. ASSUME NEW t \in Threads, LockAndPoll(t) PROVE Searched'
  BY <1>7 DEF LockAndPoll, Goto, Pollable, byteVars, fullVars, listVars, historyVars, FlushInv,
    Types, GoTypes, DwptTypes, Locked, Phases, Searched
<1>8. ASSUME NEW t \in Threads, NewWriter(t) PROVE Searched'
  <2>1. UNCHANGED <<queueGen, flushing, todo>> /\ pc'[Flusher] = pc[Flusher]
    BY <1>8, New
  <2>2. CASE UNCHANGED <<gen, registered, lock>>
    BY <2>1, <2>2 DEF FlushInv, Phases, Searched, Locked
  <2>3. CASE ~UNCHANGED <<gen, registered, lock>>
    <3>1. PICK d \in DWPTs : /\ d \notin registered /\ registered' = registered \cup {d}
                             /\ gen' = [gen EXCEPT ![d] = queueGen] /\ gen[d] = 0
                             /\ lock' = [lock EXCEPT ![d] = t]
      BY <1>8, <2>3, New
    <3>2. \A e \in DWPTs : gen'[e] = (IF e = d THEN queueGen ELSE gen[e]) /\ (e # d => lock'[e] = lock[e])
      BY <3>1 DEF FlushInv, Types, DwptTypes
    <3>3. /\ queueGen \in Nat /\ registered \in SUBSET DWPTs
          /\ flushing \in SUBSET DWPTs /\ todo[Flusher] \in SUBSET DWPTs
      BY DEF FlushInv, Types, FlagTypes, SetTypes, GoTypes
    <3>4. \A e \in flushing : e # d
      BY <3>1 DEF FlushInv, Places
    <3>5. pc[Flusher] = "lockAll" => \A e \in todo[Flusher] : gen'[e] = queueGen - 1
      <4>1. SUFFICES ASSUME pc[Flusher] = "lockAll", NEW e \in todo[Flusher] PROVE gen'[e] = queueGen - 1
        OBVIOUS
      <4>2. gen[e] = queueGen - 1 /\ e \in DWPTs
        BY <3>3, <4>1 DEF FlushInv, Phases, Searched
      <4>3. e # d
        BY <3>1, <3>3, <4>1, <4>2 DEF FlushInv, Phases, Generations, Marking
      <4> QED BY <3>2, <4>2, <4>3
    <3>6. pc[Flusher] = "lockAll" =>
            \A e \in registered' : gen'[e] = queueGen - 1 => e \in todo[Flusher] \/ e \in Locked'
      BY <3>1, <3>2, <3>3 DEF FlushInv, Phases, Searched, Locked
    <3>7. pc[Flusher] = "finish" => \A e \in flushing : gen'[e] = queueGen
      BY <3>2, <3>3, <3>4 DEF FlushInv, Phases, Searched
    <3> QED BY <2>1, <3>5, <3>6, <3>7 DEF Searched
  <2> QED BY <2>2, <2>3
<1>9. ASSUME NEW t \in Threads, CheckQueue(t) PROVE Searched'
  BY <1>9, LetsGo DEF FlushInv, Phases, Searched, Panics
<1>10. ASSUME NEW t \in Threads, IndexDocument(t) PROVE Searched'
  BY <1>10 DEF IndexDocument, Goto, poolVars, byteVars, fullVars, listVars, historyVars,
    FlushInv, Types, GoTypes, DwptTypes, Locked, Phases, Searched
<1>11. ASSUME NEW t \in Threads, IndexClosed(t) PROVE Searched'
  BY <1>11 DEF IndexClosed, Goto, dwptVars, poolVars, byteVars, fullVars, listVars, historyVars,
    FlushInv, Types, GoTypes, DwptTypes, Locked, Phases, Searched
<1>12. ASSUME NEW t \in Threads, DoAfterDocument(t) PROVE Searched'
  <2>1. pc[Flusher] = "finish" => gen[mine[t]] = queueGen
    BY <1>12, FromPool DEF FlushInv, Phases, Generations, Marking, Panics
  <2> QED BY <1>12, <2>1, FromPool DEF FlushInv, Phases, Searched
<1>13. ASSUME NEW t \in Threads, Release(t) PROVE Searched'
  BY <1>13, LetsGo DEF FlushInv, Phases, Searched, Panics
<1>14. ASSUME NEW t \in Threads, MarksAsFreeAndUnlock(t) PROVE Searched'
  BY <1>14, LetsGo DEF FlushInv, Phases, Searched, Panics
<1>15. ASSUME NEW t \in Threads, PostUpdate(t) PROVE Searched'
  BY <1>15 DEF PostUpdate, Goto, dwptVars, poolVars, byteVars, fullVars, listVars, historyVars,
    FlushInv, Types, GoTypes, DwptTypes, Locked, Phases, Searched
<1>16. ASSUME NEW t \in Actors, DoAfterFlush(t) PROVE Searched'
  BY <1>16 DEF DoAfterFlush, Goto, PanicWith, dwptVars, poolVars, fullVars, byteVars, listVars,
    historyVars, FlushInv, Types, GoTypes, DwptTypes, Locked, Phases, Searched
<1>17. ASSUME NEW t \in Actors, NextPendingFlush(t) PROVE Searched'
  BY <1>17 DEF NextPendingFlush, Goto, AfterFlush, dwptVars, poolVars, fullVars, historyVars,
    FlushInv, Types, GoTypes, DwptTypes, Locked, Phases, Searched
<1>18. ASSUME NEW t \in Actors, Iter(t) PROVE Searched'
  BY <1>18 DEF Iter, Goto, dwptVars, poolVars, byteVars, fullVars, listVars, historyVars,
    FlushInv, Types, GoTypes, DwptTypes, Locked, Phases, Searched
<1>19. ASSUME NEW t \in Actors, ScanPool(t) PROVE Searched'
  <2>1. /\ UNCHANGED <<gen, queueGen, lock>> /\ pc[t] = "scan"
        /\ \/ UNCHANGED <<registered, flushing, pc>> /\ \E r : todo' = [todo EXCEPT ![t] = r]
           \/ \E d \in registered : /\ registered' = registered \ {d} /\ flushing' = flushing \cup {d}
                                    /\ todo' = [todo EXCEPT ![t] = {}] /\ pc' = [pc EXCEPT ![t] = "flush"]
    BY <1>19 DEF ScanPool, CheckOutForFlush, Checkout, Goto, dwptVars, fullVars, poolVars
  <2>2. CASE t = Flusher
    <3>1. pc'[Flusher] \in {"scan", "flush"}
      BY <2>1, <2>2 DEF FlushInv, Types, GoTypes
    <3> QED BY <3>1 DEF Searched
  <2>3. CASE t # Flusher
    <3>1. pc'[Flusher] = pc[Flusher] /\ todo'[Flusher] = todo[Flusher] /\ Locked' = Locked
      BY <2>1, <2>3 DEF FlushInv, Types, GoTypes, Locked
    <3>2. pc[Flusher] = "finish" => \A d \in registered : gen[d] = queueGen
      BY DEF FlushInv, Phases, Generations, Marking, Panics
    <3>3. registered' \subseteq registered /\ flushing' \subseteq flushing \cup registered
      BY <2>1
    <3> QED BY <2>1, <3>1, <3>2, <3>3 DEF FlushInv, Phases, Searched
  <2> QED BY <2>2, <2>3
<1>20. ASSUME NEW t \in Actors, ScanDone(t) PROVE Searched'
  BY <1>20 DEF ScanDone, Goto, AfterFlush, dwptVars, poolVars, byteVars, fullVars, listVars,
    historyVars, FlushInv, Types, GoTypes, DwptTypes, Locked, Phases, Searched
<1>21. ASSUME StartFullFlush PROVE Searched'
  BY <1>21 DEF StartFullFlush, Goto, PanicWith, dwptVars, poolVars, byteVars, listVars,
    historyVars, fullVars, FlushInv, Types, GoTypes, DwptTypes, Locked, Phases, Searched
<1>22. ASSUME Filter PROVE Searched'
  BY <1>22 DEF Filter, Goto, dwptVars, poolVars, byteVars, fullVars, listVars, historyVars,
    FlushInv, Types, GoTypes, DwptTypes, Locked, Phases, Searched
<1>23. ASSUME NEW d \in DWPTs, FilterAndLock(d) PROVE Searched'
  BY <1>23 DEF FilterAndLock, poolVars, byteVars, fullVars, listVars, historyVars, FlushInv,
    Types, GoTypes, DwptTypes, Locked, Phases, Searched
<1>24. ASSUME NEW d \in DWPTs, MarkOne(d) PROVE Searched'
  BY <1>24 DEF MarkOne, Checkout, CheckOutForFlush, Locked, historyVars, goVars, FlushInv,
    Types, GoTypes, DwptTypes, Locked, Phases, Searched
<1>25. ASSUME FullFlushMarkDone PROVE Searched'
  BY <1>25 DEF FullFlushMarkDone, Goto, PanicWith, Locked, dwptVars, poolVars, historyVars,
    byteVars, fullVars, listVars, FlushInv, Types, GoTypes, DwptTypes, Locked, Phases, Searched
<1>26. ASSUME WaitForFlush PROVE Searched'
  BY <1>26 DEF WaitForFlush, Goto, dwptVars, poolVars, byteVars, fullVars, listVars,
    historyVars, FlushInv, Types, GoTypes, DwptTypes, Locked, Phases, Searched
<1>27. ASSUME FinishFullFlush PROVE Searched'
  BY <1>27 DEF FinishFullFlush, Goto, PanicWith, dwptVars, poolVars, historyVars, byteVars,
    fullVars, listVars, FlushInv, Types, GoTypes, DwptTypes, Locked, Phases, Searched
<1>28. ASSUME AbortFullFlushes PROVE Searched'
  BY <1>28 DEF AbortFullFlushes, Goto, AbortPending, dwptVars, poolVars, FlushInv, Types,
    GoTypes, DwptTypes, Locked, Phases, Searched
<1>29. ASSUME Close PROVE Searched'
  BY <1>29 DEF Close, Goto, dwptVars, poolVars, listVars, historyVars, FlushInv, Types, GoTypes,
    DwptTypes, Locked, Phases, Searched
<1>30. ASSUME Abort PROVE Searched'
  BY <1>30 DEF Abort, Goto, dwptVars, poolVars, byteVars, fullVars, listVars, historyVars,
    FlushInv, Types, GoTypes, DwptTypes, Locked, Phases, Searched
<1>31. ASSUME NEW d \in DWPTs, DoOnAbort(d) PROVE Searched'
  BY <1>31 DEF DoOnAbort, Checkout, Locked, fullVars, goVars, FlushInv, Types, GoTypes,
    DwptTypes, Locked, Phases, Searched
<1>32. ASSUME AbortPendingFlushes PROVE Searched'
  BY <1>32 DEF AbortPendingFlushes, Goto, AbortPending, Locked, dwptVars, poolVars, fullVars,
    FlushInv, Types, GoTypes, DwptTypes, Locked, Phases, Searched
<1>33. ASSUME AbortDone PROVE Searched'
  BY <1>33 DEF AbortDone, Goto, dwptVars, poolVars, byteVars, fullVars, listVars, historyVars,
    FlushInv, Types, GoTypes, DwptTypes, Locked, Phases, Searched
<1> QED
  BY <1>1, <1>2, <1>3, <1>4, <1>5, <1>6, <1>7, <1>8, <1>9, <1>10, <1>11, <1>12, <1>13, <1>14,
    <1>15, <1>16, <1>17, <1>18, <1>19, <1>20, <1>21, <1>22, <1>23, <1>24, <1>25, <1>26, <1>27,
    <1>28, <1>29, <1>30, <1>31, <1>32, <1>33 DEF Next, Obtain, Update, DoFlush, FullFlush, Rollback

\* The rollback overlooks no DWPT.
LEMMA DrainedKept ==
  ASSUME FlushInv, [Next]_vars
  PROVE  Drained'
<1>1. ASSUME UNCHANGED <<pc, registered, flushing, todo, lock>> PROVE Drained'
  BY <1>1 DEF Drained, Phases, Locked, FlushInv
<1>2. ASSUME UNCHANGED vars PROVE UNCHANGED <<pc, registered, flushing, todo, lock>>
  BY <1>2 DEF vars, dwptVars, poolVars, byteVars, fullVars, historyVars, listVars, goVars
<1>3. ASSUME NEW t \in Threads, PreUpdate(t) PROVE Drained'
  BY <1>3 DEF PreUpdate, Goto, dwptVars, poolVars, byteVars, fullVars, listVars, historyVars,
    FlushInv, Types, GoTypes, DwptTypes, Locked, Phases, Drained
<1>4. ASSUME NEW t \in Threads, PreUpdateQueued(t) PROVE Drained'
  BY <1>4 DEF PreUpdateQueued, Goto, dwptVars, poolVars, byteVars, fullVars, listVars,
    historyVars, FlushInv, Types, GoTypes, DwptTypes, Locked, Phases, Drained
<1>5. ASSUME NEW t \in Threads, PreUpdateStalled(t) PROVE Drained'
  BY <1>5 DEF PreUpdateStalled, Goto, dwptVars, poolVars, byteVars, fullVars, listVars,
    historyVars, FlushInv, Types, GoTypes, DwptTypes, Locked, Phases, Drained
<1>6. ASSUME NEW t \in Threads, ObtainAndLock(t) PROVE Drained'
  BY <1>6 DEF ObtainAndLock, Goto, dwptVars, poolVars, byteVars, fullVars, listVars,
    historyVars, FlushInv, Types, GoTypes, DwptTypes, Locked, Phases, Drained
<1>7. ASSUME NEW t \in Threads, LockAndPoll(t) PROVE Drained'
  BY <1>7 DEF LockAndPoll, Goto, Pollable, byteVars, fullVars, listVars, historyVars, FlushInv,
    Types, GoTypes, DwptTypes, Locked, Phases, Drained
<1>8. ASSUME NEW t \in Threads, NewWriter(t) PROVE Drained'
  <2>1. UNCHANGED <<flushing, todo>> /\ pc'[Flusher] = pc[Flusher]
    BY <1>8, New
  <2>2. CASE closed
    <3>1. UNCHANGED <<registered, lock>>
      BY <1>8, <2>2, New
    <3> QED BY <2>1, <3>1 DEF FlushInv, Phases, Drained, Locked
  <2>3. CASE ~closed
    BY <2>1, <2>3 DEF FlushInv, Phases, Flags, Outside, Drained
  <2> QED BY <2>2, <2>3
<1>9. ASSUME NEW t \in Threads, CheckQueue(t) PROVE Drained'
  BY <1>9, LetsGo DEF FlushInv, Phases, Drained, Panics
<1>10. ASSUME NEW t \in Threads, IndexDocument(t) PROVE Drained'
  BY <1>10 DEF IndexDocument, Goto, poolVars, byteVars, fullVars, listVars, historyVars,
    FlushInv, Types, GoTypes, DwptTypes, Locked, Phases, Drained
<1>11. ASSUME NEW t \in Threads, IndexClosed(t) PROVE Drained'
  BY <1>11 DEF IndexClosed, Goto, dwptVars, poolVars, byteVars, fullVars, listVars, historyVars,
    FlushInv, Types, GoTypes, DwptTypes, Locked, Phases, Drained
<1>12. ASSUME NEW t \in Threads, DoAfterDocument(t) PROVE Drained'
  BY <1>12, FromPool DEF FlushInv, Phases, Drained
<1>13. ASSUME NEW t \in Threads, Release(t) PROVE Drained'
  BY <1>13, LetsGo DEF FlushInv, Phases, Drained, Panics
<1>14. ASSUME NEW t \in Threads, MarksAsFreeAndUnlock(t) PROVE Drained'
  BY <1>14, LetsGo DEF FlushInv, Phases, Drained, Panics
<1>15. ASSUME NEW t \in Threads, PostUpdate(t) PROVE Drained'
  BY <1>15 DEF PostUpdate, Goto, dwptVars, poolVars, byteVars, fullVars, listVars, historyVars,
    FlushInv, Types, GoTypes, DwptTypes, Locked, Phases, Drained
<1>16. ASSUME NEW t \in Actors, DoAfterFlush(t) PROVE Drained'
  BY <1>16 DEF DoAfterFlush, Goto, PanicWith, dwptVars, poolVars, fullVars, byteVars, listVars,
    historyVars, FlushInv, Types, GoTypes, DwptTypes, Locked, Phases, Drained
<1>17. ASSUME NEW t \in Actors, NextPendingFlush(t) PROVE Drained'
  BY <1>17 DEF NextPendingFlush, Goto, AfterFlush, dwptVars, poolVars, fullVars, historyVars,
    FlushInv, Types, GoTypes, DwptTypes, Locked, Phases, Drained
<1>18. ASSUME NEW t \in Actors, Iter(t) PROVE Drained'
  BY <1>18 DEF Iter, Goto, dwptVars, poolVars, byteVars, fullVars, listVars, historyVars,
    FlushInv, Types, GoTypes, DwptTypes, Locked, Phases, Drained
<1>19. ASSUME NEW t \in Actors, ScanPool(t) PROVE Drained'
  BY <1>19 DEF ScanPool, Goto, CheckOutForFlush, dwptVars, poolVars, fullVars, historyVars,
    Checkout, FlushInv, Types, GoTypes, DwptTypes, Locked, Phases, Drained
<1>20. ASSUME NEW t \in Actors, ScanDone(t) PROVE Drained'
  BY <1>20 DEF ScanDone, Goto, AfterFlush, dwptVars, poolVars, byteVars, fullVars, listVars,
    historyVars, FlushInv, Types, GoTypes, DwptTypes, Locked, Phases, Drained
<1>21. ASSUME StartFullFlush PROVE Drained'
  BY <1>21 DEF StartFullFlush, Goto, PanicWith, dwptVars, poolVars, byteVars, listVars,
    historyVars, fullVars, FlushInv, Types, GoTypes, DwptTypes, Locked, Phases, Drained
<1>22. ASSUME Filter PROVE Drained'
  BY <1>22 DEF Filter, Goto, dwptVars, poolVars, byteVars, fullVars, listVars, historyVars,
    FlushInv, Types, GoTypes, DwptTypes, Locked, Phases, Drained
<1>23. ASSUME NEW d \in DWPTs, FilterAndLock(d) PROVE Drained'
  BY <1>23 DEF FilterAndLock, poolVars, byteVars, fullVars, listVars, historyVars, FlushInv,
    Types, GoTypes, DwptTypes, Locked, Phases, Drained
<1>24. ASSUME NEW d \in DWPTs, MarkOne(d) PROVE Drained'
  BY <1>24 DEF MarkOne, Checkout, CheckOutForFlush, Locked, historyVars, goVars, FlushInv,
    Types, GoTypes, DwptTypes, Locked, Phases, Drained
<1>25. ASSUME FullFlushMarkDone PROVE Drained'
  BY <1>25 DEF FullFlushMarkDone, Goto, PanicWith, Locked, dwptVars, poolVars, historyVars,
    byteVars, fullVars, listVars, FlushInv, Types, GoTypes, DwptTypes, Locked, Phases, Drained
<1>26. ASSUME WaitForFlush PROVE Drained'
  BY <1>26 DEF WaitForFlush, Goto, dwptVars, poolVars, byteVars, fullVars, listVars,
    historyVars, FlushInv, Types, GoTypes, DwptTypes, Locked, Phases, Drained
<1>27. ASSUME FinishFullFlush PROVE Drained'
  BY <1>27 DEF FinishFullFlush, Goto, PanicWith, dwptVars, poolVars, historyVars, byteVars,
    fullVars, listVars, FlushInv, Types, GoTypes, DwptTypes, Locked, Phases, Drained
<1>28. ASSUME AbortFullFlushes PROVE Drained'
  BY <1>28 DEF AbortFullFlushes, Goto, AbortPending, dwptVars, poolVars, FlushInv, Types,
    GoTypes, DwptTypes, Locked, Phases, Drained
<1>29. ASSUME Close PROVE Drained'
  BY <1>29 DEF Close, Goto, dwptVars, poolVars, listVars, historyVars, FlushInv, Types, GoTypes,
    DwptTypes, Locked, Phases, Drained
<1>30. ASSUME Abort PROVE Drained'
  BY <1>30 DEF Abort, Goto, dwptVars, poolVars, byteVars, fullVars, listVars, historyVars,
    FlushInv, Types, GoTypes, DwptTypes, Locked, Phases, Drained
<1>31. ASSUME NEW d \in DWPTs, DoOnAbort(d) PROVE Drained'
  BY <1>31 DEF DoOnAbort, Checkout, Locked, fullVars, goVars, FlushInv, Types, GoTypes,
    DwptTypes, Locked, Phases, Drained
<1>32. ASSUME AbortPendingFlushes PROVE Drained'
  BY <1>32 DEF AbortPendingFlushes, Goto, AbortPending, Locked, dwptVars, poolVars, fullVars,
    FlushInv, Types, GoTypes, DwptTypes, Locked, Phases, Drained
<1>33. ASSUME AbortDone PROVE Drained'
  BY <1>33 DEF AbortDone, Goto, dwptVars, poolVars, byteVars, fullVars, listVars, historyVars,
    FlushInv, Types, GoTypes, DwptTypes, Locked, Phases, Drained
<1> QED
  BY <1>1, <1>2, <1>3, <1>4, <1>5, <1>6, <1>7, <1>8, <1>9, <1>10, <1>11, <1>12, <1>13, <1>14,
    <1>15, <1>16, <1>17, <1>18, <1>19, <1>20, <1>21, <1>22, <1>23, <1>24, <1>25, <1>26, <1>27,
    <1>28, <1>29, <1>30, <1>31, <1>32, <1>33 DEF Next, Obtain, Update, DoFlush, FullFlush, Rollback

\* The phases, together.
LEMMA PhasesKept ==
  ASSUME FlushInv, [Next]_vars
  PROVE  Phases'
  BY FlagsKept, GenerationsKept, SearchedKept, DrainedKept DEF Phases

-----------------------------------------------------------------------------
(* Accounts.                                                                *)

\* The DWPTs that activeBytes is about, and those that flushBytes is about.
Active == registered \ pending
Counted == (registered \cap pending) \cup InFlush

\* The sum over one element.
LEMMA SumOne ==
  ASSUME NEW S, IsFiniteSet(S), NEW f \in [S -> Nat], NEW x \in S
  PROVE  SumOf(f, {x}) = f[x]
<1>1. SumOf(f, {x}) = f[x] + SumOf(f, {x} \ {x})
  BY SumRemove
<1>2. SumOf(f, {}) = 0
  BY SumType
<1>3. {x} \ {x} = {} /\ f[x] \in Nat
  OBVIOUS
<1> QED BY <1>1, <1>2, <1>3

\* The sum over what is left.
LEMMA SumMinus ==
  ASSUME NEW S, IsFiniteSet(S), NEW f \in [S -> Nat], NEW r \in SUBSET S, NEW p \in SUBSET r
  PROVE  SumOf(f, r \ p) = SumOf(f, r) - SumOf(f, p)
<1>1. SumOf(f, (r \ p) \cup p) = SumOf(f, r \ p) + SumOf(f, p)
  BY SumUnion
<1>2. (r \ p) \cup p = r
  OBVIOUS
<1>3. SumOf(f, r) = SumOf(f, r \ p) + SumOf(f, p)
  BY <1>1, <1>2, Zenon
<1>4. SumOf(f, r \ p) \in Nat /\ SumOf(f, p) \in Nat
  BY SumType
<1> QED BY <1>3, <1>4

\* The sum when one element gets another value.
LEMMA SumExcept ==
  ASSUME NEW S, IsFiniteSet(S), NEW f \in [S -> Nat], NEW r \in SUBSET S, NEW x \in S,
         NEW h \in [S -> Nat], \A y \in S \ {x} : f[y] = h[y]
  PROVE  SumOf(h, r) = SumOf(f, r) + (IF x \in r THEN h[x] - f[x] ELSE 0)
<1>1. h[x] \in Nat
  OBVIOUS
<1>2. SumOf(f, r) \in Nat /\ SumOf(f, r \ {x}) \in Nat /\ f[x] \in Nat
  BY SumType
<1>3. CASE x \in r
  <2>1. SumOf(h, r) = h[x] + SumOf(h, r \ {x}) /\ SumOf(f, r) = f[x] + SumOf(f, r \ {x})
    BY <1>1, <1>3, SumRemove
  <2>2. SumOf(f, r \ {x}) = SumOf(h, r \ {x})
    <3>1. r \ {x} \in SUBSET S /\ \A y \in r \ {x} : f[y] = h[y]
      BY <1>1
    <3> QED BY <1>1, <3>1, SumCongruent
  <2>3. SumOf(h, r) = SumOf(f, r) + (h[x] - f[x])
    BY <1>1, <1>2, <2>1, <2>2
  <2> QED BY <1>3, <2>3
<1>4. CASE x \notin r
  <2>1. SumOf(f, r) = SumOf(h, r)
    <3>1. \A y \in r : f[y] = h[y]
      BY <1>1, <1>4
    <3> QED BY <1>1, <3>1, SumCongruent
  <2> QED BY <1>2, <1>4, <2>1
<1> QED BY <1>3, <1>4

\* The invariant in terms of sums.
LEMMA Balance ==
  ASSUME FlushInv
  PROVE  /\ IsFiniteSet(DWPTs) /\ committed \in [DWPTs -> Nat]
         /\ Active \in SUBSET DWPTs /\ Counted \in SUBSET DWPTs /\ Active \cap Counted = {}
         /\ activeBytes = SumOf(committed, Active) /\ flushBytes = SumOf(committed, Counted)
         /\ SumOf(committed, Active) \in Nat /\ SumOf(committed, Counted) \in Nat
         /\ \A S : Bytes(S) = SumOf(committed, S)
<1>1. IsFiniteSet(DWPTs)
  <2>1. 1 \in Int /\ MaxDWPTs \in Int
    BY FlushControlAssumption
  <2> QED BY <2>1, FS_Interval DEF DWPTs
<1>2. committed \in [DWPTs -> Nat]
  BY DEF FlushInv, Types, DwptTypes
<1>3. ToSet(blocked) \in SUBSET DWPTs
  BY SetOfSeq DEF FlushInv, Types, SeqTypes
<1>4. Active \in SUBSET DWPTs /\ Counted \in SUBSET DWPTs
  BY <1>3 DEF FlushInv, Types, SetTypes, Active, Counted, InFlush
<1>5. Active \cap Counted = {}
  BY DEF FlushInv, Places, Active, Counted, InFlush
<1>6. \A S : Bytes(S) = SumOf(committed, S)
  BY DEF Bytes, SumOf
<1>7. activeBytes = SumOf(committed, Active) /\ flushBytes = SumOf(committed, Counted)
  BY <1>6 DEF FlushInv, Accounts, BytesAccounted, Active, Counted
<1>8. SumOf(committed, Active) \in Nat /\ SumOf(committed, Counted) \in Nat
  BY <1>1, <1>2, <1>4, SumType
<1> QED BY <1>1, <1>2, <1>4, <1>5, <1>6, <1>7, <1>8

\* numPending is an integer that is large enough.
LEMMA Pendings ==
  ASSUME FlushInv
  PROVE  /\ IsFiniteSet(registered \cap pending) /\ Cardinality(registered \cap pending) \in Nat
         /\ IsFiniteSet(registered) /\ numPending \in Int
         /\ numPending >= Cardinality(registered \cap pending)
<1>1. registered \in SUBSET DWPTs /\ registered \cap pending \in SUBSET DWPTs
  BY DEF FlushInv, Types, SetTypes
<1>2. IsFiniteSet(registered) /\ IsFiniteSet(registered \cap pending)
  BY <1>1, Balance, FS_Subset
<1> QED BY <1>2, FS_CardinalityType DEF FlushInv, Accounts, PendingCounted

\* What a step has to establish.
LEMMA Settled ==
  ASSUME activeBytes' = SumOf(committed', Active'), flushBytes' = SumOf(committed', Counted'),
         numPending' \in Int, numPending' >= Cardinality(registered' \cap pending')
  PROVE  Accounts'
<1>1. Bytes(registered \ pending)' = SumOf(committed', registered' \ pending')
  BY SumUnfold DEF Bytes, MapThenSumSet, MapThenFoldSet, Sums, Pick
<1>2. Bytes((registered \cap pending) \cup InFlush)' = SumOf(committed', (registered' \cap pending') \cup InFlush')
  BY SumUnfold DEF Bytes, MapThenSumSet, MapThenFoldSet, Sums, Pick
<1> QED BY <1>1, <1>2 DEF Accounts, BytesAccounted, PendingCounted, Active, Counted

\* One element less.
LEMMA OneLess ==
  ASSUME NEW S, IsFiniteSet(S), NEW x \in S
  PROVE  Cardinality(S \ {x}) = Cardinality(S) - 1 /\ Cardinality(S) \in Nat
  BY FS_RemoveElement, FS_CardinalityType

\* Some elements more.
LEMMA SomeMore ==
  ASSUME NEW S, IsFiniteSet(S), NEW R, IsFiniteSet(R), S \cap R = {}
  PROVE  /\ IsFiniteSet(S \cup R) /\ Cardinality(S \cup R) = Cardinality(S) + Cardinality(R)
         /\ Cardinality(S) \in Nat /\ Cardinality(R) \in Nat
<1>1. Cardinality(S \cup R) = Cardinality(S) + Cardinality(R) - Cardinality({}) /\ IsFiniteSet(S \cup R)
  BY FS_Union
<1>2. Cardinality({}) = 0 /\ Cardinality(S) \in Nat /\ Cardinality(R) \in Nat
  BY FS_EmptySet, FS_CardinalityType
<1> QED BY <1>1, <1>2

\* The counters count what they stand for.
LEMMA AccountsKept ==
  ASSUME FlushInv, [Next]_vars
  PROVE  Accounts'
<1>1. ASSUME UNCHANGED <<activeBytes, flushBytes, numPending, committed, pending, registered,
                         flushing, blocked>>
      PROVE  Accounts'
  <2>1. Active' = Active /\ Counted' = Counted
    BY <1>1 DEF Active, Counted, InFlush
  <2> QED BY <1>1, <2>1, Balance, Pendings, Settled
<1>2. ASSUME NEW t \in Threads, PreUpdate(t) \/ PreUpdateQueued(t) \/ PreUpdateStalled(t) \/
  ObtainAndLock(t) \/ LockAndPoll(t) \/ CheckQueue(t) \/ IndexDocument(t) \/ IndexClosed(t) \/
  Release(t) \/ MarksAsFreeAndUnlock(t) \/ PostUpdate(t)
      PROVE  UNCHANGED <<activeBytes, flushBytes, numPending, committed, pending, registered,
                         flushing, blocked>>
  BY <1>2 DEF PreUpdate, Goto, dwptVars, poolVars, byteVars, fullVars, listVars, historyVars,
    PreUpdateQueued, PreUpdateStalled, ObtainAndLock, LockAndPoll, Pollable, CheckQueue,
    IndexDocument, IndexClosed, Release, Stale, MarksAsFreeAndUnlock, PanicWith, PostUpdate
<1>3. ASSUME NEW t \in Actors, NextPendingFlush(t) \/ Iter(t) \/ ScanDone(t)
      PROVE  UNCHANGED <<activeBytes, flushBytes, numPending, committed, pending, registered,
                         flushing, blocked>>
  BY <1>3 DEF NextPendingFlush, Goto, AfterFlush, dwptVars, poolVars, fullVars, historyVars,
    Iter, byteVars, listVars, ScanDone
<1>4. ASSUME NEW d \in DWPTs, FilterAndLock(d)
      PROVE  UNCHANGED <<activeBytes, flushBytes, numPending, committed, pending, registered,
                         flushing, blocked>>
  BY <1>4 DEF FilterAndLock, poolVars, byteVars, fullVars, listVars, historyVars
<1>5. ASSUME StartFullFlush \/ Filter \/ WaitForFlush \/ Close \/ Abort \/ AbortDone \/
  UNCHANGED vars
      PROVE  UNCHANGED <<activeBytes, flushBytes, numPending, committed, pending, registered,
                         flushing, blocked>>
  BY <1>5 DEF StartFullFlush, Goto, PanicWith, dwptVars, poolVars, byteVars, listVars,
    historyVars, fullVars, Filter, WaitForFlush, Close, Abort, AbortDone, vars, goVars
<1>6. ASSUME NEW t \in Threads, NewWriter(t) PROVE Accounts'
  <2>1. UNCHANGED <<activeBytes, flushBytes, numPending, committed, pending, flushing, blocked>>
    BY <1>6 DEF NewWriter, byteVars, listVars
  <2>2. CASE registered' = registered
    BY <1>1, <2>1, <2>2
  <2>3. CASE registered' # registered
    <3>1. PICK d \in DWPTs : d \notin registered /\ registered' = registered \cup {d} /\ gen[d] = 0
      BY <1>6, <2>3, New
    <3>2. d \notin pending /\ docs[d] = 0 /\ committed[d] <= docs[d]
      BY <3>1 DEF FlushInv, Places
    <3>3. committed[d] = 0
      BY <3>2 DEF FlushInv, Types, DwptTypes
    <3>4. /\ Active' = Active \cup {d} /\ d \notin Active /\ Counted' = Counted
          /\ registered' \cap pending' = registered \cap pending
      BY <2>1, <3>1, <3>2 DEF Active, Counted, InFlush
    <3>5. SumOf(committed, Active \cup {d}) = committed[d] + SumOf(committed, Active)
      BY <3>4, Balance, SumAdd
    <3>6. activeBytes' = SumOf(committed', Active') /\ flushBytes' = SumOf(committed', Counted')
      BY <2>1, <3>3, <3>4, <3>5, Balance
    <3> QED BY <2>1, <3>4, <3>6, Pendings, Settled
  <2> QED BY <2>2, <2>3
<1>7. ASSUME NEW t \in Threads, DoAfterDocument(t) PROVE Accounts'
  <2> DEFINE d == mine[t]
             v == docs[d]
             old == committed[d]
  <2>1. d \in registered /\ d \in DWPTs
    BY <1>7, AfterDocument DEF FlushInv
  <2>2. CASE Skips
    BY <1>1, <2>2 DEF Skips
  <2>3. CASE ~Skips
    <3>1. PICK M \in SUBSET (registered \ pending) :
              Commits(d, M) /\ (Stays(d, M) \/ (Leaves(d, M) /\ (IsBlocked(t, d) \/ IsTaken(t, d))))
      BY <1>7, <2>3, AfterDocument DEF FlushInv
    <3>2. /\ committed' = [committed EXCEPT ![d] = v] /\ pending' = pending \cup M
          /\ activeBytes' = activeBytes - (Bytes(M) + (IF d \in M THEN v - old ELSE 0))
                              + (IF d \in pending THEN 0 ELSE v - old)
          /\ flushBytes' = flushBytes + (Bytes(M) + (IF d \in M THEN v - old ELSE 0))
                              + (IF d \in pending THEN v - old ELSE 0)
      BY <3>1 DEF Commits
    <3>3. \/ /\ d \notin pending \cup M /\ numPending' = numPending + Cardinality(M)
             /\ registered' = registered /\ InFlush' = InFlush
          \/ /\ d \in pending \cup M /\ numPending' = numPending + Cardinality(M) - 1
             /\ registered' = registered \ {d} /\ InFlush' = InFlush \cup {d}
      <4>1. ToSet(Append(blocked, d)) = ToSet(blocked) \cup {d}
        BY <2>1, SetOfAppend DEF FlushInv, Types, SeqTypes
      <4> HIDE DEF d, v, old
      <4> QED BY <3>1, <4>1 DEF Stays, Leaves, IsBlocked, IsTaken, InFlush
    <3>4. v \in Nat /\ old \in Nat /\ old = committed[d]
      BY <2>1 DEF FlushInv, Types, DwptTypes
    <3> HIDE DEF d, v, old
    <3>5. Active' = Active \ M /\ Counted' = Counted \cup M
      BY <2>1, <3>2, <3>3 DEF Active, Counted
    <3>6. /\ M \in SUBSET Active /\ M \in SUBSET DWPTs /\ Counted \cap M = {}
          /\ Active \ M \in SUBSET DWPTs /\ Counted \cup M \in SUBSET DWPTs
      BY Balance DEF Active
    <3>7. /\ d \in Active \ M <=> d \notin pending \cup M
          /\ d \in Counted \cup M <=> d \in pending \cup M
          /\ d \in M => d \notin pending
      BY <2>1, <3>6 DEF Active, Counted, InFlush, FlushInv, Places
    <3>8. /\ SumOf(committed, Active \ M) = SumOf(committed, Active) - SumOf(committed, M)
          /\ SumOf(committed, Counted \cup M) = SumOf(committed, Counted) + SumOf(committed, M)
          /\ SumOf(committed, M) \in Nat
      BY <3>6, Balance, SumMinus, SumUnion, SumType
    <3>9. /\ SumOf(committed', Active \ M)
               = SumOf(committed, Active \ M) + (IF d \in Active \ M THEN v - old ELSE 0)
          /\ SumOf(committed', Counted \cup M)
               = SumOf(committed, Counted \cup M) + (IF d \in Counted \cup M THEN v - old ELSE 0)
      <4>1. IsFiniteSet(DWPTs) /\ committed \in [DWPTs -> Nat]
        BY Balance
      <4>2. ASSUME NEW r \in SUBSET DWPTs
            PROVE  SumOf(committed', r) = SumOf(committed, r) + (IF d \in r THEN v - committed[d] ELSE 0)
        <5>1. /\ committed' \in [DWPTs -> Nat] /\ committed'[d] = v
              /\ \A e \in DWPTs \ {d} : committed[e] = committed'[e]
          BY <2>1, <3>2, <3>4, <4>1
        <5>2. SumOf(committed', r) = SumOf(committed, r) + (IF d \in r THEN committed'[d] - committed[d] ELSE 0)
          BY <2>1, <4>1, <5>1, SumExcept
        <5> QED BY <5>1, <5>2
      <4> QED BY <3>4, <3>6, <4>2
    <3>10. Bytes(M) = SumOf(committed, M)
      BY Balance
    <3>11. /\ activeBytes = SumOf(committed, Active) /\ activeBytes \in Nat
           /\ flushBytes = SumOf(committed, Counted) /\ flushBytes \in Nat
      BY Balance
    <3>12. activeBytes' = SumOf(committed', Active') /\ flushBytes' = SumOf(committed', Counted')
      BY <3>2, <3>4, <3>5, <3>7, <3>8, <3>9, <3>10, <3>11
    <3>13. numPending' \in Int /\ numPending' >= Cardinality(registered' \cap pending')
      <4> DEFINE P == registered \cap pending
      <4>1. IsFiniteSet(M) /\ P \cap M = {} /\ IsFiniteSet(P) /\ numPending \in Int /\ numPending >= Cardinality(P)
        BY Pendings, FS_Subset
      <4>2. d \in pending \cup M => d \in P \cup M
        BY <2>1
      <4>3. registered \cap (pending \cup M) = P \cup M
        OBVIOUS
      <4>4. (registered \ {d}) \cap (pending \cup M) = (P \cup M) \ {d}
        OBVIOUS
      <4> HIDE DEF P
      <4>5. /\ IsFiniteSet(P \cup M) /\ Cardinality(P \cup M) = Cardinality(P) + Cardinality(M)
            /\ Cardinality(P) \in Nat /\ Cardinality(M) \in Nat
        BY <4>1, SomeMore
      <4>6. d \in P \cup M => Cardinality((P \cup M) \ {d}) = Cardinality(P \cup M) - 1
        BY <4>5, OneLess
      <4>7. CASE d \in pending \cup M
        BY <3>2, <3>3, <4>1, <4>2, <4>4, <4>5, <4>6, <4>7
      <4>8. CASE d \notin pending \cup M
        <5>1. registered' \cap pending' = P \cup M /\ numPending' = numPending + Cardinality(M)
          BY <3>2, <3>3, <4>3, <4>8
        <5>2. numPending' >= Cardinality(P \cup M) /\ numPending' \in Int
          BY <4>1, <4>5, <5>1
        <5> QED BY <5>1, <5>2, Zenon
      <4> QED BY <4>7, <4>8
    <3> QED BY <3>12, <3>13, Settled
  <2> QED BY <2>2, <2>3
<1>8. ASSUME NEW t \in Actors, DoAfterFlush(t) PROVE Accounts'
  <2>1. out[t] \in flushing
    BY <1>8 DEF DoAfterFlush, FlushInv, Locks, Carriers, Hands
  <2>2. /\ flushing' = flushing \ {out[t]} /\ flushBytes' = flushBytes - committed[out[t]]
        /\ UNCHANGED <<activeBytes, numPending, committed, pending, registered, blocked>>
    BY <1>8, <2>1 DEF DoAfterFlush, poolVars
  <2>3. out[t] \notin registered /\ out[t] \notin ToSet(blocked) /\ out[t] \in DWPTs
    BY <2>1 DEF FlushInv, Places, Types, SetTypes
  <2>4. out[t] \in Counted /\ Counted' = Counted \ {out[t]} /\ Active' = Active
    BY <2>1, <2>2, <2>3 DEF Counted, Active, InFlush
  <2>5. SumOf(committed, Counted) = committed[out[t]] + SumOf(committed, Counted \ {out[t]})
    BY <2>4, Balance, SumRemove
  <2>6. SumOf(committed, Counted \ {out[t]}) \in Nat /\ committed[out[t]] \in Nat
    BY <2>3, Balance, SumType
  <2>7. activeBytes' = SumOf(committed', Active') /\ flushBytes' = SumOf(committed', Counted')
    <3>1. activeBytes = SumOf(committed, Active) /\ flushBytes = SumOf(committed, Counted)
      BY Balance
    <3> QED BY <2>2, <2>4, <2>5, <2>6, <3>1
  <2> QED BY <2>2, <2>7, Pendings, Settled
<1>9. ASSUME NEW t \in Actors, ScanPool(t) PROVE Accounts'
  <2>1. /\ UNCHANGED <<committed, blocked>>
        /\ \/ UNCHANGED <<activeBytes, flushBytes, numPending, pending, registered, flushing>>
           \/ \E d \in registered \cap pending :
                 /\ registered' = registered \ {d} /\ flushing' = flushing \cup {d} /\ pending' = pending \cup {}
                 /\ flushBytes' = flushBytes + Bytes({}) /\ activeBytes' = activeBytes - Bytes({})
                 /\ numPending' = numPending + Cardinality({}) - 1
    BY <1>9 DEF ScanPool, CheckOutForFlush, Checkout, poolVars
  <2>2. CASE UNCHANGED <<activeBytes, flushBytes, numPending, pending, registered, flushing>>
    BY <1>1, <2>1, <2>2
  <2>3. CASE ~UNCHANGED <<activeBytes, flushBytes, numPending, pending, registered, flushing>>
    <3>1. PICK d \in registered \cap pending :
                 /\ registered' = registered \ {d} /\ flushing' = flushing \cup {d} /\ pending' = pending \cup {}
                 /\ flushBytes' = flushBytes + Bytes({}) /\ activeBytes' = activeBytes - Bytes({})
                 /\ numPending' = numPending + Cardinality({}) - 1
      BY <2>1, <2>3
    <3>2. Bytes({}) = 0 /\ Cardinality({}) = 0
      BY Balance, SumType, FS_EmptySet
    <3>3. Counted' = Counted /\ Active' = Active /\ registered' \cap pending' = (registered \cap pending) \ {d}
      BY <2>1, <3>1 DEF Counted, Active, InFlush
    <3>4. activeBytes' = SumOf(committed', Active') /\ flushBytes' = SumOf(committed', Counted')
      BY <2>1, <3>1, <3>2, <3>3, Balance
    <3>5. Cardinality((registered \cap pending) \ {d}) = Cardinality(registered \cap pending) - 1
      BY Pendings, OneLess
    <3>6. numPending' \in Int /\ numPending' >= Cardinality(registered' \cap pending')
      <4>1. numPending \in Int /\ numPending >= Cardinality(registered \cap pending)
            /\ Cardinality(registered \cap pending) \in Nat
        BY Pendings
      <4>2. numPending' = numPending + 0 - 1
        BY <3>1, <3>2
      <4> QED BY <3>3, <3>5, <4>1, <4>2
    <3> QED BY <3>4, <3>6, Settled
  <2> QED BY <2>2, <2>3
<1>10. ASSUME NEW d \in DWPTs, MarkOne(d) PROVE Accounts'
  <2>1. d \in registered /\ d \in DWPTs /\ d \notin flushing /\ d \notin ToSet(blocked)
    BY <1>10 DEF MarkOne, FlushInv, Locks, Collected, Panics, Places
  <2>2. UNCHANGED <<committed, blocked>> /\ registered' = registered \ {d}
    BY <1>10 DEF MarkOne, CheckOutForFlush, Checkout
  <2>3. committed[d] \in Nat /\ docs[d] \in Nat /\ committed[d] <= docs[d]
    BY <2>1 DEF FlushInv, Types, DwptTypes, Places
  <2>4. (d \in Active <=> d \notin pending) /\ (d \in Counted <=> d \in pending)
    BY <2>1 DEF Active, Counted, InFlush
  <2>5. CASE docs[d] > 0
    <3> DEFINE M == {d} \ pending
    <3>1. /\ pending' = pending \cup M /\ flushBytes' = flushBytes + Bytes(M)
          /\ activeBytes' = activeBytes - Bytes(M) /\ numPending' = numPending + Cardinality(M) - 1
          /\ flushing' = flushing \cup {d}
      BY <1>10, <2>5 DEF MarkOne, CheckOutForFlush
    <3>2. CASE d \in pending
      <4>1. M = {} /\ Bytes(M) = 0 /\ Cardinality(M) = 0
        BY <3>2, Balance, SumType, FS_EmptySet
      <4> HIDE DEF M
      <4>2. Counted' = Counted /\ Active' = Active /\ registered' \cap pending' = (registered \cap pending) \ {d}
        BY <2>1, <2>2, <3>1, <3>2, <4>1 DEF Counted, Active, InFlush
      <4>3. activeBytes' = SumOf(committed', Active') /\ flushBytes' = SumOf(committed', Counted')
        BY <2>2, <3>1, <4>1, <4>2, Balance
      <4>4. Cardinality((registered \cap pending) \ {d}) = Cardinality(registered \cap pending) - 1
        <5>1. d \in registered \cap pending
          BY <2>1, <3>2
        <5> QED BY <5>1, Pendings, OneLess
      <4>5. numPending' \in Int /\ numPending' >= Cardinality(registered' \cap pending')
        <5>1. numPending \in Int /\ numPending >= Cardinality(registered \cap pending)
              /\ Cardinality(registered \cap pending) \in Nat
          BY Pendings
        <5>2. numPending' = numPending + 0 - 1
          BY <3>1, <4>1
        <5>3. numPending' >= Cardinality((registered \cap pending) \ {d}) /\ numPending' \in Int
          BY <4>4, <5>1, <5>2
        <5> QED BY <4>2, <5>3, Zenon
      <4> QED BY <4>3, <4>5, Settled
    <3>3. CASE d \notin pending
      <4>1. M = {d} /\ Bytes(M) = committed[d] /\ Cardinality(M) = 1
        <5>1. M = {d}
          BY <3>3
        <5>2. SumOf(committed, {d}) = committed[d]
          BY <2>1, Balance, SumOne
        <5>3. Cardinality({d}) = 1
          BY FS_Singleton
        <5> QED BY <5>1, <5>2, <5>3, Balance
      <4> HIDE DEF M
      <4>2. /\ Counted' = Counted \cup {d} /\ Active' = Active \ {d}
            /\ registered' \cap pending' = registered \cap pending
        BY <2>1, <2>2, <3>1, <3>3, <4>1 DEF Counted, Active, InFlush
      <4>3. /\ SumOf(committed, Counted \cup {d}) = committed[d] + SumOf(committed, Counted)
            /\ SumOf(committed, Active) = committed[d] + SumOf(committed, Active \ {d})
        BY <2>1, <2>4, <3>3, Balance, SumAdd, SumRemove
      <4>4. SumOf(committed, Active \ {d}) \in Nat
        BY Balance, SumType
      <4>5. activeBytes' = SumOf(committed', Active') /\ flushBytes' = SumOf(committed', Counted')
        BY <2>2, <2>3, <3>1, <4>1, <4>2, <4>3, <4>4, Balance
      <4>6. numPending' \in Int /\ numPending' >= Cardinality(registered' \cap pending')
        <5>1. numPending \in Int /\ numPending >= Cardinality(registered \cap pending)
          BY Pendings
        <5>2. numPending' = numPending + 1 - 1
          BY <3>1, <4>1
        <5> QED BY <4>2, <5>1, <5>2
      <4> QED BY <4>5, <4>6, Settled
    <3> QED BY <3>2, <3>3
  <2>6. CASE ~(docs[d] > 0)
    <3>1. UNCHANGED <<pending, flushBytes, activeBytes, numPending, flushing>>
      BY <1>10, <2>6 DEF MarkOne
    <3>2. committed[d] = 0
      BY <2>3, <2>6
    <3>3. /\ Active' = Active \ {d} /\ Counted' = Counted \ {d}
          /\ registered' \cap pending' = (registered \cap pending) \ {d}
      BY <2>1, <2>2, <3>1 DEF Active, Counted, InFlush
    <3>4. ASSUME NEW r \in SUBSET DWPTs PROVE SumOf(committed, r \ {d}) = SumOf(committed, r)
      <4>1. CASE d \in r
        <5>1. SumOf(committed, r) = committed[d] + SumOf(committed, r \ {d})
          BY <4>1, Balance, SumRemove
        <5>2. SumOf(committed, r \ {d}) \in Nat
          BY Balance, SumType
        <5> QED BY <3>2, <5>1, <5>2
      <4>2. CASE d \notin r
        <5>1. r \ {d} = r
          BY <4>2
        <5> QED BY <5>1
      <4> QED BY <4>1, <4>2
    <3>5. activeBytes' = SumOf(committed', Active') /\ flushBytes' = SumOf(committed', Counted')
      BY <2>2, <3>1, <3>3, <3>4, Balance
    <3>6. numPending' \in Int /\ numPending' >= Cardinality(registered' \cap pending')
      <4>1. Cardinality((registered \cap pending) \ {d}) \in Nat /\
            Cardinality((registered \cap pending) \ {d}) <= Cardinality(registered \cap pending)
        BY Pendings, FS_Subset, FS_CardinalityType
      <4> QED BY <3>1, <3>3, <4>1, Pendings
    <3> QED BY <3>5, <3>6, Settled
  <2> QED BY <2>5, <2>6
<1>11. ASSUME FullFlushMarkDone PROVE Accounts'
  <2>1. /\ UNCHANGED <<activeBytes, flushBytes, numPending, committed, pending, registered>>
        /\ flushing' = flushing \cup ToSet(Pruned(queueGen - 1))
        /\ blocked' = Keep(blocked, {d \in DWPTs : gen[d] # queueGen - 1})
    BY <1>11, NoAssertion DEF FullFlushMarkDone, PanicWith, poolVars
  <2>2. /\ ToSet(Pruned(queueGen - 1)) = ToSet(blocked) \cap {d \in DWPTs : gen[d] = queueGen - 1}
        /\ ToSet(blocked') = ToSet(blocked) \cap {d \in DWPTs : gen[d] # queueGen - 1}
    BY <2>1, KeepSelects DEF Pruned, FlushInv, Types, SeqTypes
  <2>3. ToSet(blocked) \in SUBSET DWPTs
    BY SetOfSeq DEF FlushInv, Types, SeqTypes
  <2>4. InFlush' = InFlush
    BY <2>1, <2>2, <2>3 DEF InFlush
  <2>5. Active' = Active /\ Counted' = Counted
    BY <2>1, <2>4 DEF Active, Counted
  <2> QED BY <2>1, <2>5, Balance, Pendings, Settled
<1>12. ASSUME FinishFullFlush PROVE Accounts'
  <2>1. /\ UNCHANGED <<activeBytes, flushBytes, numPending, committed, pending, registered>>
        /\ \/ UNCHANGED <<flushing, blocked>>
           \/ flushing = {} /\ flushing' = ToSet(blocked) /\ ToSet(blocked') = {}
    BY <1>12, SetOfEmpty DEF FinishFullFlush, PanicWith, poolVars, byteVars, listVars
  <2>2. Active' = Active /\ Counted' = Counted
    BY <2>1 DEF Active, Counted, InFlush
  <2> QED BY <2>1, <2>2, Balance, Pendings, Settled
<1>13. ASSUME AbortFullFlushes PROVE Accounts'
  <2> DEFINE R == ToSet(flushQueue) \cup ToSet(blocked)
  <2>1. /\ UNCHANGED <<activeBytes, numPending, committed, pending, registered>>
        /\ flushing' = flushing \ ToSet(flushQueue) /\ ToSet(blocked') = {}
        /\ flushBytes' = flushBytes - Bytes(R)
    BY <1>13, SetOfEmpty DEF AbortFullFlushes, AbortPending, poolVars
  <2>2. R \in SUBSET Counted /\ Counted' = Counted \ R /\ Active' = Active
    <3>1. ToSet(flushQueue) \subseteq flushing
      BY DEF FlushInv, Hands
    <3> QED BY <2>1, <3>1 DEF Active, Counted, InFlush, FlushInv, Places
  <2> HIDE DEF R
  <2>3. SumOf(committed, Counted \ R) = SumOf(committed, Counted) - SumOf(committed, R)
    BY <2>2, Balance, SumMinus
  <2>4. activeBytes' = SumOf(committed', Active') /\ flushBytes' = SumOf(committed', Counted')
    BY <2>1, <2>2, <2>3, Balance
  <2> QED BY <2>1, <2>4, Pendings, Settled
<1>14. ASSUME NEW d \in DWPTs, DoOnAbort(d) PROVE Accounts'
  <2>1. d \in registered /\ d \in DWPTs /\ d \notin flushing /\ d \notin ToSet(blocked)
    BY <1>14 DEF DoOnAbort, FlushInv, Locks, Collected, Panics, Places
  <2>2. UNCHANGED <<numPending, committed, pending, flushing,
                    blocked>> /\ registered' = registered \ {d}
    BY <1>14 DEF DoOnAbort, Checkout
  <2>3. \/ d \in pending /\ flushBytes' = flushBytes - committed[d] /\ UNCHANGED activeBytes
        \/ d \notin pending /\ activeBytes' = activeBytes - committed[d] /\ UNCHANGED flushBytes
    BY <1>14 DEF DoOnAbort
  <2>4. \/ d \in pending /\ d \in Counted /\ Counted' = Counted \ {d} /\ Active' = Active
        \/ d \notin pending /\ d \in Active /\ Active' = Active \ {d} /\ Counted' = Counted
    BY <2>1, <2>2 DEF Active, Counted, InFlush
  <2>5. ASSUME NEW r \in SUBSET DWPTs, d \in r
        PROVE  SumOf(committed, r \ {d}) = SumOf(committed, r) - committed[d]
    <3>1. SumOf(committed, r) = committed[d] + SumOf(committed, r \ {d})
      BY <2>5, Balance, SumRemove
    <3>2. SumOf(committed, r \ {d}) \in Nat /\ committed[d] \in Nat
      BY <2>1, Balance, SumType
    <3> QED BY <3>1, <3>2
  <2>6. activeBytes' = SumOf(committed', Active') /\ flushBytes' = SumOf(committed', Counted')
    BY <2>2, <2>3, <2>4, <2>5, Balance
  <2>7. numPending' \in Int /\ numPending' >= Cardinality(registered' \cap pending')
    <3>1. registered' \cap pending' \subseteq registered \cap pending
      BY <2>2
    <3>2. /\ Cardinality(registered' \cap pending') \in Nat
          /\ Cardinality(registered' \cap pending') <= Cardinality(registered \cap pending)
      BY <3>1, Pendings, FS_Subset, FS_CardinalityType
    <3> QED BY <2>2, <3>2, Pendings
  <2> QED BY <2>6, <2>7, Settled
<1>15. ASSUME AbortPendingFlushes PROVE Accounts'
  <2> DEFINE R == ToSet(flushQueue) \cup ToSet(blocked)
  <2>1. /\ UNCHANGED <<activeBytes, numPending, committed, pending, registered>>
        /\ flushing' = flushing \ ToSet(flushQueue) /\ ToSet(blocked') = {}
        /\ flushBytes' = flushBytes - Bytes(R)
    BY <1>15, SetOfEmpty DEF AbortPendingFlushes, AbortPending, poolVars
  <2>2. R \in SUBSET Counted /\ Counted' = Counted \ R /\ Active' = Active
    <3>1. ToSet(flushQueue) \subseteq flushing
      BY DEF FlushInv, Hands
    <3> QED BY <2>1, <3>1 DEF Active, Counted, InFlush, FlushInv, Places
  <2> HIDE DEF R
  <2>3. SumOf(committed, Counted \ R) = SumOf(committed, Counted) - SumOf(committed, R)
    BY <2>2, Balance, SumMinus
  <2>4. activeBytes' = SumOf(committed', Active') /\ flushBytes' = SumOf(committed', Counted')
    BY <2>1, <2>2, <2>3, Balance
  <2> QED BY <2>1, <2>4, Pendings, Settled
<1> QED
  BY <1>1, <1>2, <1>3, <1>4, <1>5, <1>6, <1>7, <1>8, <1>9, <1>10, <1>11, <1>12, <1>13, <1>14,
    <1>15 DEF Next, Obtain, Update, DoFlush, FullFlush, Rollback

-----------------------------------------------------------------------------
(* The invariant, and what it says.                                         *)

\* The invariant holds of a new DocumentsWriter.
LEMMA InitInv == Init => FlushInv
<1> SUFFICES ASSUME Init PROVE FlushInv
  OBVIOUS
<1>1. Types
  <2>1. DwptTypes
    BY DEF Init, DwptTypes
  <2>2. SetTypes
    BY DEF Init, SetTypes
  <2>3. SeqTypes
    BY DEF Init, SeqTypes
  <2>4. FlagTypes
    BY DEF Init, FlagTypes
  <2>5. GoTypes
    <3>1. pc \in [Actors -> States]
      BY DEF Init, States
    <3>2. seen \in [Actors -> [full : BOOLEAN, done : BOOLEAN]]
      BY DEF Init, Unread
    <3> QED BY <3>1, <3>2 DEF Init, GoTypes
  <2> QED BY <2>1, <2>2, <2>3, <2>4, <2>5 DEF Types
<1>2. \A t \in Actors : pc[t] = "idle" /\ out[t] = None
  BY DEF Init
<1>3. \A d \in DWPTs : lock[d] = None /\ gen[d] = 0 /\ docs[d] = 0 /\ committed[d] = 0
  BY DEF Init
<1>4. /\ ToSet(flushQueue) = {} /\ ToSet(blocked) = {} /\ ToSet(buffer) = {}
      /\ IsInjective(flushQueue) /\ IsInjective(blocked) /\ IsInjective(buffer) /\ blocked = <<>>
  BY SetOfEmpty DEF Init
<1>5. /\ pending = {} /\ registered = {} /\ freeList = {} /\ flushing = {} /\ flushed = {}
      /\ queueGen = 1 /\ activeBytes = 0 /\ flushBytes = 0 /\ numPending = 0 /\ ~fullFlush /\ ~markDone
  BY DEF Init
<1>6. Roles
  BY <1>2 DEF Roles, Indexing, Flushing
<1>7. Places
  BY <1>3, <1>4, <1>5 DEF Places
<1>8. Hands
  BY <1>2, <1>4, <1>5 DEF Hands
<1>9. Locks
  <2>1. Holders
    BY <1>2 DEF Holders, Holding
  <2>2. Carriers
    BY <1>2 DEF Carriers
  <2>3. Collected
    BY <1>3, FlushControlAssumption DEF Collected, Locked
  <2> QED BY <2>1, <2>2, <2>3 DEF Locks
<1>10. Phases
  <2>1. Flags
    BY <1>2, <1>5 DEF Flags, Outside
  <2>2. Generations
    BY <1>2, <1>3, <1>4, <1>5 DEF Generations, Marking
  <2>3. Searched /\ Drained
    BY <1>2 DEF Searched, Drained
  <2> QED BY <2>1, <2>2, <2>3 DEF Phases
<1>11. Accounts
  <2>1. registered \ pending = {} /\ (registered \cap pending) \cup InFlush = {} /\ registered \cap pending = {}
    BY <1>4, <1>5 DEF InFlush
  <2>2. Bytes({}) = 0
    <3>1. 1 \in Int /\ MaxDWPTs \in Int
      BY FlushControlAssumption
    <3>2. IsFiniteSet(DWPTs) /\ committed \in [DWPTs -> Nat]
      BY <1>1, <3>1, FS_Interval DEF DWPTs, Types, DwptTypes
    <3>3. {} \in SUBSET DWPTs
      OBVIOUS
    <3>4. SumOf(committed, {}) = 0
      BY <3>2, <3>3, SumType
    <3> QED BY <3>4 DEF Bytes, SumOf
  <2>3. Cardinality({}) = 0
    BY FS_EmptySet
  <2>4. activeBytes = Bytes(registered \ pending) /\ flushBytes = Bytes((registered \cap pending) \cup InFlush)
    BY <1>5, <2>1, <2>2, Zenon
  <2>5. numPending \in Int /\ numPending >= Cardinality(registered \cap pending)
    BY <1>5, <2>1, <2>3
  <2> QED BY <2>4, <2>5 DEF Accounts, BytesAccounted, PendingCounted
<1> QED BY <1>1, <1>6, <1>7, <1>8, <1>9, <1>10, <1>11 DEF FlushInv

\* Every step of every goroutine keeps it.
LEMMA InvKept == FlushInv /\ [Next]_vars => FlushInv'
<1> SUFFICES ASSUME FlushInv, [Next]_vars PROVE FlushInv'
  OBVIOUS
<1>1. Types'
  BY TypesKept DEF FlushInv
<1> QED
  BY <1>1, RolesKept, PlacesKept, HandsKept, LocksKept, PhasesKept, AccountsKept DEF FlushInv

(* The invariant of the flush control: where every DWPT is, who holds its  *)
(* lock and who will flush it, what the full flush and the rollback have   *)
(* seen to, and what the counters count.                                   *)
THEOREM FlushControlInvariant == Spec => []FlushInv
<1>1. Init => FlushInv
  BY InitInv
<1>2. FlushInv /\ [Next]_vars => FlushInv'
  BY InvKept
<1> QED BY <1>1, <1>2, PTL DEF Spec

\* How often d is in a sequence without repetitions.
LEMMA Occurrences ==
  ASSUME NEW A, NEW s \in Seq(A), IsInjective(s), NEW d
  PROVE  Cardinality({i \in DOMAIN s : s[i] = d}) = IF d \in ToSet(s) THEN 1 ELSE 0
<1>1. CASE d \in ToSet(s)
  <2>1. PICK i \in DOMAIN s : s[i] = d
    BY <1>1 DEF ToSet
  <2>2. {j \in DOMAIN s : s[j] = d} = {i}
    BY <2>1 DEF IsInjective
  <2>3. Cardinality({i}) = 1
    BY FS_Singleton
  <2> QED BY <1>1, <2>2, <2>3, Zenon
<1>2. CASE d \notin ToSet(s)
  <2>1. {j \in DOMAIN s : s[j] = d} = {}
    BY <1>2 DEF ToSet
  <2> QED BY <1>2, <2>1, FS_EmptySet, Zenon
<1> QED BY <1>1, <1>2

(* activeBytes and flushBytes are the bytes of the active DWPTs and of     *)
(* those pending, blocked or flushing, and numPending hides no pending     *)
(* DWPT from NextPendingFlush, whatever marks DWPTs of other goroutines.   *)
THEOREM CountersAreRight == Spec => []Accounted
<1>1. FlushInv => Accounted
  <2> SUFFICES ASSUME FlushInv PROVE Accounted
    OBVIOUS
  <2>1. activeBytes \in Nat /\ flushBytes \in Nat
    BY Balance
  <2>2. numPending \in Nat
    BY Pendings
  <2>3. TypeOK
    BY <2>1, <2>2 DEF FlushInv, Types, DwptTypes, SetTypes, SeqTypes, FlagTypes, GoTypes, TypeOK
  <2> QED BY <2>3 DEF FlushInv, Accounts, Accounted
<1> QED BY <1>1, FlushControlInvariant, PTL

(* A DWPT that left the pool is flushed by one goroutine, and is not       *)
(* forgotten in a queue.                                                   *)
THEOREM EveryDwptFlushedOnce == Spec => []OneFlushEach
<1>1. FlushInv => OneFlushEach
  <2> SUFFICES ASSUME FlushInv PROVE OneFlushEach
    OBVIOUS
  <2>1. /\ registered \cap InFlush = {} /\ flushing \cap ToSet(blocked) = {}
        /\ flushed \cap (registered \cup InFlush) = {}
    BY DEF FlushInv, Places, InFlush
  <2>2. ToSet(flushQueue) \subseteq flushing /\ (blocked # <<>> => fullFlush)
    BY DEF FlushInv, Hands
  <2>3. ASSUME NEW d \in flushing
        PROVE  Cardinality({t \in Actors : out[t] = d})
                 + Cardinality({i \in DOMAIN flushQueue : flushQueue[i] = d})
                 + Cardinality({i \in DOMAIN buffer : buffer[i] = d}) = 1
    <3>1. /\ Cardinality({i \in DOMAIN flushQueue : flushQueue[i] = d}) = IF d \in ToSet(flushQueue) THEN 1 ELSE 0
          /\ Cardinality({i \in DOMAIN buffer : buffer[i] = d}) = IF d \in ToSet(buffer) THEN 1 ELSE 0
      <4>1. /\ flushQueue \in Seq(DWPTs) /\ IsInjective(flushQueue)
            /\ buffer \in Seq(DWPTs) /\ IsInjective(buffer)
        BY DEF FlushInv, Types, SeqTypes, Hands
      <4> QED BY <4>1, Occurrences
    <3>2. ToSet(flushQueue) \cap ToSet(buffer) = {}
      BY DEF FlushInv, Hands
    <3>3. d # None
      BY FlushControlAssumption DEF FlushInv, Types, SetTypes
    <3>4. CASE d \in ToSet(flushQueue) \cup ToSet(buffer)
      <4>1. {t \in Actors : out[t] = d} = {}
        BY <3>3, <3>4 DEF FlushInv, Hands
      <4>2. Cardinality({t \in Actors : out[t] = d}) = 0
        BY <4>1, FS_EmptySet, Zenon
      <4> QED BY <3>1, <3>2, <3>4, <4>2
    <3>5. CASE d \notin ToSet(flushQueue) \cup ToSet(buffer)
      <4>1. PICK t \in Actors : out[t] = d
        BY <3>5 DEF FlushInv, Hands
      <4>2. {u \in Actors : out[u] = d} = {t}
        BY <3>3, <4>1 DEF FlushInv, Hands
      <4>3. Cardinality({t}) = 1
        BY FS_Singleton
      <4>4. Cardinality({u \in Actors : out[u] = d}) = 1
        BY <4>2, <4>3, Zenon
      <4> QED BY <3>1, <3>5, <4>4
    <3> QED BY <3>4, <3>5
  <2> QED BY <2>1, <2>2, <2>3 DEF OneFlushEach
<1> QED BY <1>1, FlushControlInvariant, PTL

(* No goroutine indexes into a DWPT that another one flushes, although     *)
(* DWPT.Flush does not take the DWPT's lock.                               *)
THEOREM FlushIsAlone == Spec => []NoIndexingWhileFlushed
<1>1. FlushInv => NoIndexingWhileFlushed
  <2> SUFFICES ASSUME FlushInv, NEW t \in Actors, NEW u \in Actors,
                      pc[t] = "flush", pc[u] \in {"index", "after"}
               PROVE  out[t] # mine[u]
    BY DEF NoIndexingWhileFlushed
  <2>1. out[t] \in flushing
    BY DEF FlushInv, Locks, Carriers, Hands
  <2>2. u \in Threads
    BY Alive DEF FlushInv, Panics, Flushing
  <2>3. mine[u] \in registered
    BY <2>2 DEF FlushInv, Locks, Holders, Holding
  <2> QED BY <2>1, <2>3 DEF FlushInv, Places
<1> QED BY <1>1, FlushControlInvariant, PTL

(* When FlushAllThreads returns, no document that was indexed before it    *)
(* advanced the delete queue is still in memory, unless it was dropped.    *)
THEOREM FullFlushIsComplete == Spec => []OldGenerationFlushed
<1>1. FlushInv => OldGenerationFlushed
  <2> SUFFICES ASSUME FlushInv, pc[Flusher] = "finish", NEW d \in DWPTs,
                      gen[d] \in 1..(queueGen - 1), docs[d] > 0
               PROVE  d \in flushed \cup aborted
    BY DEF OldGenerationFlushed
  <2>1. d \in registered \cup InFlush \cup flushed \cup aborted
    BY DEF FlushInv, Places
  <2>2. gen[d] # queueGen
    BY DEF FlushInv, Types, FlagTypes
  <2>3. d \notin registered \cup ToSet(blocked)
    BY <2>2 DEF FlushInv, Phases, Generations, Marking, Panics
  <2>4. d \notin flushing
    BY <2>2 DEF FlushInv, Phases, Searched
  <2> QED BY <2>1, <2>3, <2>4 DEF InFlush
<1> QED BY <1>1, FlushControlInvariant, PTL

(* The other assertions of the flush control and of the pool never fail.   *)
THEOREM AssertionsHold == Spec => []NoOtherPanic
<1>1. FlushInv => NoOtherPanic
  BY DEF FlushInv, Roles, Panics, Indexing, Flushing, NoOtherPanic
<1> QED BY <1>1, FlushControlInvariant, PTL

(* A rollback, whenever it comes, leaves no DWPT and no bytes behind.      *)
THEOREM RollbackIsComplete == Spec => []RollbackDrains
<1>1. FlushInv => RollbackDrains
  <2> SUFFICES ASSUME FlushInv, pc[Flusher] = "done"
               PROVE  registered = {} /\ InFlush = {} /\ activeBytes = 0 /\ flushBytes = 0
    BY DEF RollbackDrains
  <2>1. registered = {} /\ flushing = {}
    BY DEF FlushInv, Phases, Drained
  <2>2. ~fullFlush
    BY DEF FlushInv, Phases, Flags, Outside
  <2>3. ToSet(blocked) = {}
    BY <2>2, SetOfEmpty DEF FlushInv, Hands
  <2>4. Active = {} /\ Counted = {} /\ InFlush = {}
    BY <2>1, <2>3 DEF Active, Counted, InFlush
  <2>5. SumOf(committed, {}) = 0
    BY Balance, SumType
  <2>6. activeBytes = SumOf(committed, Active) /\ flushBytes = SumOf(committed, Counted)
    BY Balance
  <2>7. activeBytes = 0 /\ flushBytes = 0
    BY <2>4, <2>5, <2>6, Zenon
  <2> QED BY <2>1, <2>4, <2>7
<1> QED BY <1>1, FlushControlInvariant, PTL
=============================================================================
