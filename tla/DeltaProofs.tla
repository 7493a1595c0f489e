---------------------------- MODULE DeltaProofs ----------------------------
(***************************************************************************)
(* What the semantic delta computes, for missions of any length: the       *)
(* alignment is a longest common subsequence, reordering and pairing use   *)
(* every item once, and the summary counts what is left.                   *)
(*                                                                         *)
(* The algorithms are recursive functions on finite domains.  Induction is *)
(* stated with sets, so that a fact to be proved by induction is           *)
(* membership in a set, and the recursion with functions: a step is a      *)
(* function on functions whose value at an argument depends only on the    *)
(* values at arguments of lower rank.                                      *)
(***************************************************************************)
EXTENDS MissionDelta, FiniteSetTheorems, WellFoundedInduction, TLAPS

-----------------------------------------------------------------------------
(* Induction and recursion                                                  *)

\* A set that holds 0, and with each number its successor, holds every number.
LEMMA SetInduction ==
  ASSUME NEW S, 0 \in S, \A n \in Nat : n \in S => n + 1 \in S
  PROVE  Nat \subseteq S
<1> SUFFICES ASSUME Nat \ S # {} PROVE FALSE
  OBVIOUS
<1> DEFINE lt == OpToRel(<, Nat)
<1>1. PICK n \in Nat \ S : \A m \in Nat \ S : ~(<<m, n>> \in lt)
  <2> DEFINE T == Nat \ S
  <2>1. T \subseteq Nat /\ T # {}
    OBVIOUS
  <2>2. IsWellFoundedOn(lt, Nat)
    BY NatLessThanWellFounded, Zenon
  <2> HIDE DEF T, lt
  <2>3. \E x \in T : \A y \in T : ~(<<y, x>> \in lt)
    BY <2>1, <2>2, WFMin, Zenon
  <2> QED BY <2>3 DEF T
<1>2. n - 1 \in Nat /\ n - 1 \notin S
  OBVIOUS
<1>3. <<n - 1, n>> \in lt
  BY <1>2 DEF OpToRel
<1> HIDE DEF lt
<1> QED BY <1>1, <1>2, <1>3, Zenon

\* Induction up to a number.
LEMMA BoundedInduction ==
  ASSUME NEW N \in Nat, NEW S, 0 \in S, \A n \in 1..N : n - 1 \in S => n \in S
  PROVE  0..N \subseteq S
<1> DEFINE T == {n \in Nat : n <= N => n \in S}
<1>1. 0 \in T
  OBVIOUS
<1>2. ASSUME NEW n \in Nat, n \in T PROVE n + 1 \in T
  <2>1. n + 1 \in 1..N => (n + 1) - 1 \in S
    BY <1>2
  <2> QED BY <2>1
<1> HIDE DEF T
<1>3. Nat \subseteq T
  BY <1>1, <1>2, SetInduction
<1> QED BY <1>3 DEF T

\* Induction on the cells of a table, from its edges along rows, columns and
\* diagonals.
LEMMA CellInduction ==
  ASSUME NEW n \in Nat, NEW m \in Nat, NEW S,
         \A c \in (0..n) \X (0..m) : c[1] = 0 \/ c[2] = 0 => c \in S,
         \A c \in (1..n) \X (1..m) :
           <<c[1] - 1, c[2] - 1>> \in S /\ <<c[1] - 1, c[2]>> \in S /\ <<c[1], c[2] - 1>> \in S
             => c \in S
  PROVE  (0..n) \X (0..m) \subseteq S
<1> DEFINE cells == (0..n) \X (0..m)
           T == {k \in Nat : \A c \in cells : c[1] + c[2] <= k => c \in S}
<1>1. 0 \in T
  <2>1. ASSUME NEW c \in cells, c[1] + c[2] <= 0 PROVE c[1] = 0
    BY <2>1
  <2> QED BY <2>1
<1>2. ASSUME NEW k \in Nat, k \in T PROVE k + 1 \in T
  <2> SUFFICES ASSUME NEW c \in cells, c[1] + c[2] <= k + 1, c[1] # 0, c[2] # 0 PROVE c \in S
    OBVIOUS
  <2>1. c[1] \in 1..n /\ c[2] \in 1..m /\ c = <<c[1], c[2]>>
    OBVIOUS
  <2>2. /\ <<c[1] - 1, c[2] - 1>> \in cells /\ (c[1] - 1) + (c[2] - 1) <= k
        /\ <<c[1] - 1, c[2]>> \in cells /\ (c[1] - 1) + c[2] <= k
        /\ <<c[1], c[2] - 1>> \in cells /\ c[1] + (c[2] - 1) <= k
    BY <2>1
  <2>3. \A d \in cells : d[1] + d[2] <= k => d \in S
    BY <1>2
  <2>4. <<c[1] - 1, c[2] - 1>> \in S /\ <<c[1] - 1, c[2]>> \in S /\ <<c[1], c[2] - 1>> \in S
    <3> HIDE DEF cells
    <3> QED BY <2>2, <2>3
  <2> QED BY <2>1, <2>4
<1> HIDE DEF T
<1>3. Nat \subseteq T
  BY <1>1, <1>2, SetInduction
<1>4. n + m \in T
  BY <1>3
<1> QED BY <1>4 DEF T

\* F is the step of a recursion on D: its value at an argument depends only on
\* the values at arguments of lower rank.
RecursiveStep(F, D, V, rank, N) ==
  /\ V # {} /\ N \in Nat
  /\ F \in [[D -> V] -> [D -> V]]
  /\ rank \in [D -> Nat] /\ \A c \in D : rank[c] < N
  /\ \A f, g \in [D -> V] : \A c \in D :
       (\A d \in D : rank[d] < rank[c] => f[d] = g[d]) => F[f][c] = F[g][c]

\* Such a recursion has a solution.
LEMMA RecursionExists ==
  ASSUME NEW F, NEW D, NEW V, NEW rank, NEW N, RecursiveStep(F, D, V, rank, N)
  PROVE  \E f \in [D -> V] : f = F[f]
<1>shape. /\ V # {} /\ N \in Nat
      /\ F \in [[D -> V] -> [D -> V]]
      /\ rank \in [D -> Nat] /\ \A c \in D : rank[c] < N
  BY DEF RecursiveStep
<1>step. ASSUME NEW f \in [D -> V], NEW g \in [D -> V], NEW c \in D,
             \A d \in D : rank[d] < rank[c] => f[d] = g[d]
      PROVE  F[f][c] = F[g][c]
  BY <1>step, Zenon DEF RecursiveStep
<1> DEFINE Upto(f, n) == \A c \in D : rank[c] < n => f[c] = F[f][c]
           S == {n \in Nat : \E f \in [D -> V] : Upto(f, n)}
<1>1. 0 \in S
  <2>1. PICK v : v \in V
    BY <1>shape
  <2>2. [d \in D |-> v] \in [D -> V]
    BY <2>1
  <2>3. Upto([d \in D |-> v], 0)
    BY <1>shape
  <2> QED BY <2>2, <2>3, Zenon
<1>2. \A n \in Nat : n \in S => n + 1 \in S
  <2> SUFFICES ASSUME NEW n \in Nat, NEW f \in [D -> V], Upto(f, n)
               PROVE  \E g \in [D -> V] : Upto(g, n + 1)
    OBVIOUS
  <2>1. F[f] \in [D -> V]
    BY <1>shape
  <2>2. ASSUME NEW c \in D, rank[c] < n + 1 PROVE F[f][c] = F[F[f]][c]
    <3>1. ASSUME NEW d \in D, rank[d] < rank[c] PROVE f[d] = F[f][d]
      <4>1. rank[d] < n
        BY <1>shape, <2>2, <3>1
      <4> QED BY <4>1
    <3> QED BY <1>step, <2>1, <3>1, Zenon
  <2> QED BY <2>1, <2>2, Zenon
<1>3. N \in S
  <2> HIDE DEF S
  <2> QED BY <1>shape, <1>1, <1>2, SetInduction
<1>4. PICK f \in [D -> V] : Upto(f, N)
  BY <1>3
<1>5. \A c \in D : f[c] = F[f][c]
  BY <1>shape, <1>4
<1>6. F[f] \in [D -> V]
  BY <1>shape
<1> QED BY <1>5, <1>6

\* A loop that runs N times over a state in V has its sequence of states.
LoopStep(N, V, v0, G) == N \in Nat /\ v0 \in V /\ G \in [V \X (1..N) -> V]
LoopRuns(N, V, v0, G) ==
  \E f \in [0..N -> V] : f = [i \in 0..N |-> IF i = 0 THEN v0 ELSE G[<<f[i - 1], i>>]]

\* Every such loop has one.
LEMMA LoopExists ==
  ASSUME NEW N, NEW V, NEW v0, NEW G, LoopStep(N, V, v0, G)
  PROVE  LoopRuns(N, V, v0, G)
<1> N \in Nat /\ v0 \in V /\ G \in [V \X (1..N) -> V]
  BY DEF LoopStep
<1> DEFINE D == 0..N
           F == [f \in [D -> V] |-> [i \in D |-> IF i = 0 THEN v0 ELSE G[<<f[i - 1], i>>]]]
           rank == [i \in D |-> i]
<1>1. F \in [[D -> V] -> [D -> V]]
  OBVIOUS
<1>2. rank \in [D -> Nat] /\ (\A i \in D : rank[i] < N + 1) /\ N + 1 \in Nat /\ V # {}
  OBVIOUS
<1>3. ASSUME NEW f \in [D -> V], NEW g \in [D -> V], NEW i \in D,
             \A d \in D : rank[d] < rank[i] => f[d] = g[d]
      PROVE  F[f][i] = F[g][i]
  <2>1. i # 0 => i - 1 \in D /\ rank[i - 1] < rank[i]
    OBVIOUS
  <2>2. i # 0 => f[i - 1] = g[i - 1]
    BY <1>3, <2>1, Zenon
  <2> QED BY <2>2
<1>4. \E f \in [D -> V] : f = F[f]
  <2>1. RecursiveStep(F, D, V, rank, N + 1)
    <3> HIDE DEF F, rank, D
    <3> QED BY <1>1, <1>2, <1>3 DEF RecursiveStep
  <2> HIDE DEF F, rank, D
  <2> QED BY <2>1, RecursionExists
<1>5. PICK f \in [D -> V] : f = F[f]
  BY <1>4
<1>6. F[f] = [i \in D |-> IF i = 0 THEN v0 ELSE G[<<f[i - 1], i>>]]
  OBVIOUS
<1>7. f = [i \in D |-> IF i = 0 THEN v0 ELSE G[<<f[i - 1], i>>]]
  <2> HIDE DEF F
  <2> QED BY <1>5, <1>6
<1>8. f \in [0..N -> V]
  OBVIOUS
<1> HIDE DEF F
<1> QED BY <1>7, <1>8, Zenon DEF LoopRuns

\* A table with v0 on its edges that G fills from the neighbours of a cell: on
\* the diagonal, above and to the left.
TableStep(n, m, V, v0, G) ==
  n \in Nat /\ m \in Nat /\ v0 \in V /\ G \in [((1..n) \X (1..m)) \X V \X V \X V -> V]
Filled(n, m, v0, G, f) ==
  [c \in (0..n) \X (0..m) |->
     IF c[1] = 0 \/ c[2] = 0 THEN v0
     ELSE G[<<c, f[<<c[1] - 1, c[2] - 1>>], f[<<c[1] - 1, c[2]>>], f[<<c[1], c[2] - 1>>]>>]]

TableIsFilled(n, m, V, v0, G) ==
  \E f \in [(0..n) \X (0..m) -> V] : f = Filled(n, m, v0, G, f)

\* Such a table exists.
LEMMA TableExists ==
  ASSUME NEW n, NEW m, NEW V, NEW v0, NEW G, TableStep(n, m, V, v0, G)
  PROVE  TableIsFilled(n, m, V, v0, G)
<1> DEFINE D == (0..n) \X (0..m)
           E == (1..n) \X (1..m)
           diag(c) == <<c[1] - 1, c[2] - 1>>
           up(c)   == <<c[1] - 1, c[2]>>
           left(c) == <<c[1], c[2] - 1>>
           edge(c) == c[1] = 0 \/ c[2] = 0
           body(f) == [c \in D |-> IF edge(c) THEN v0
                                   ELSE G[<<c, f[diag(c)], f[up(c)], f[left(c)]>>]]
           F == [f \in [D -> V] |-> body(f)]
           rank == [c \in D |-> c[1] + c[2]]
           N == n + m + 1
<1> n \in Nat /\ m \in Nat /\ v0 \in V
  BY DEF TableStep
<1>1. \A c \in D : c[1] + c[2] \in Nat /\ c[1] + c[2] < N
  OBVIOUS
<1>2. ASSUME NEW c \in D, ~edge(c)
      PROVE  /\ c \in E
             /\ diag(c) \in D /\ rank[diag(c)] < rank[c]
             /\ up(c) \in D /\ rank[up(c)] < rank[c]
             /\ left(c) \in D /\ rank[left(c)] < rank[c]
  <2>1. c[1] \in 1..n /\ c[2] \in 1..m /\ c = <<c[1], c[2]>> /\ rank[c] = c[1] + c[2]
    BY <1>2
  <2>2. diag(c) \in D /\ rank[diag(c)] = (c[1] - 1) + (c[2] - 1)
    BY <2>1
  <2>3. up(c) \in D /\ rank[up(c)] = (c[1] - 1) + c[2]
    BY <2>1
  <2>4. left(c) \in D /\ rank[left(c)] = c[1] + (c[2] - 1)
    BY <2>1
  <2> QED BY <2>1, <2>2, <2>3, <2>4
<1> HIDE DEF D, E, diag, up, left, edge
<1>3. ASSUME NEW f \in [D -> V] PROVE body(f) \in [D -> V]
  <2> SUFFICES ASSUME NEW c \in D, ~edge(c)
               PROVE  G[<<c, f[diag(c)], f[up(c)], f[left(c)]>>] \in V
    OBVIOUS
  <2>1. f[diag(c)] \in V /\ f[up(c)] \in V /\ f[left(c)] \in V /\ c \in E
    BY <1>2
  <2>2. G \in [E \X V \X V \X V -> V]
    BY DEF TableStep, E
  <2> QED BY <2>1, <2>2
<1>4. F \in [[D -> V] -> [D -> V]]
  <2> HIDE DEF body
  <2> QED BY <1>3
<1>5. ASSUME NEW f \in [D -> V], NEW g \in [D -> V], NEW c \in D,
             \A d \in D : rank[d] < rank[c] => f[d] = g[d]
      PROVE  F[f][c] = F[g][c]
  <2>1. ~edge(c) =>
          f[diag(c)] = g[diag(c)] /\ f[up(c)] = g[up(c)] /\ f[left(c)] = g[left(c)]
    <3> HIDE DEF rank
    <3> QED BY <1>2, <1>5
  <2>2. body(f)[c] = body(g)[c]
    BY <2>1
  <2> QED BY <2>2
<1>6. V # {} /\ N \in Nat /\ rank \in [D -> Nat] /\ \A c \in D : rank[c] < N
  BY <1>1
<1>7. RecursiveStep(F, D, V, rank, N)
  <2> HIDE DEF F, rank, N
  <2> QED BY <1>4, <1>5, <1>6 DEF RecursiveStep
<1>8. \E f \in [D -> V] : f = F[f]
  <2> HIDE DEF F, rank, N
  <2> QED BY <1>7, RecursionExists
<1>9. \E f \in [D -> V] : f = body(f)
  BY <1>8
<1> QED BY <1>9 DEF D, diag, up, left, edge, Filled, TableIsFilled

-----------------------------------------------------------------------------
(* The alignment                                                            *)

\* The larger of two numbers.
LEMMA MaxOfTwo ==
  ASSUME NEW a \in Nat, NEW b \in Nat
  PROVE  Max({a, b}) \in Nat /\ Max({a, b}) >= a /\ Max({a, b}) >= b
           /\ (Max({a, b}) = a \/ Max({a, b}) = b)
<1>1. \E x \in {a, b} : \A y \in {a, b} : x >= y
  <2>1. CASE a >= b
    BY <2>1
  <2>2. CASE b >= a
    BY <2>2
  <2> QED BY <2>1, <2>2
<1>2. Max({a, b}) \in {a, b} /\ \A y \in {a, b} : Max({a, b}) >= y
  BY <1>1 DEF Max
<1> QED BY <1>2

Edge(c) == c[1] = 0 \/ c[2] = 0
Diagonal(c) == <<c[1] - 1, c[2] - 1>>
Above(c)    == <<c[1] - 1, c[2]>>
Beside(c)   == <<c[1], c[2] - 1>>
Same(current, proposed, c) == same_semantic_item(current[c[1]], proposed[c[2]])

\* The table of lengths satisfies its recurrence.
LEMMA LengthsTable ==
  ASSUME NEW S, NEW current \in Seq(S), NEW proposed \in Seq(S),
         NEW c \in Cells(current, proposed)
  PROVE  LET dp == lcs_lengths(current, proposed) IN
         /\ Edge(c) => dp[c] = 0
         /\ ~Edge(c) /\ Same(current, proposed, c) => dp[c] = dp[Diagonal(c)] + 1
         /\ ~Edge(c) /\ ~Same(current, proposed, c) =>
              dp[c] = Max({dp[Above(c)], dp[Beside(c)]})
<1> DEFINE n == Len(current)
           m == Len(proposed)
           same(e) == same_semantic_item(current[e[1]], proposed[e[2]])
           inner == (1..n) \X (1..m)
           G == [x \in inner \X Nat \X Nat \X Nat |->
                  IF same(x[1]) THEN x[2] + 1 ELSE Max({x[3], x[4]})]
           body(f) == [e \in (0..n) \X (0..m) |->
                        IF e[1] = 0 \/ e[2] = 0 THEN 0
                        ELSE IF same(e) THEN f[<<e[1] - 1, e[2] - 1>>] + 1
                        ELSE Max({f[<<e[1] - 1, e[2]>>], f[<<e[1], e[2] - 1>>]})]
<1>1. n \in Nat /\ m \in Nat
  OBVIOUS
<1> HIDE DEF n, m, same
<1>2. ASSUME NEW a \in Nat, NEW b \in Nat PROVE Max({a, b}) \in Nat
  BY MaxOfTwo
<1>3. TableStep(n, m, Nat, 0, G)
  <2> SUFFICES ASSUME NEW e \in inner, NEW p \in Nat, NEW q \in Nat, NEW r \in Nat
               PROVE  (IF same(e) THEN p + 1 ELSE Max({q, r})) \in Nat
    BY <1>1 DEF TableStep
  <2> QED BY <1>2
<1>4. PICK f \in [(0..n) \X (0..m) -> Nat] : f = Filled(n, m, 0, G, f)
  <2> HIDE DEF G
  <2>1. TableIsFilled(n, m, Nat, 0, G)
    BY <1>3, TableExists
  <2> QED BY <2>1 DEF TableIsFilled
<1>5. Filled(n, m, 0, G, f) = body(f)
  <2> SUFFICES ASSUME NEW e \in (0..n) \X (0..m), e[1] # 0, e[2] # 0
               PROVE  G[<<e, f[<<e[1] - 1, e[2] - 1>>],
                          f[<<e[1] - 1, e[2]>>], f[<<e[1], e[2] - 1>>]>>]
                      = IF same(e) THEN f[<<e[1] - 1, e[2] - 1>>] + 1
                        ELSE Max({f[<<e[1] - 1, e[2]>>], f[<<e[1], e[2] - 1>>]})
    BY Zenon DEF Filled
  <2>1. /\ e \in inner
        /\ f[<<e[1] - 1, e[2] - 1>>] \in Nat
        /\ f[<<e[1] - 1, e[2]>>] \in Nat /\ f[<<e[1], e[2] - 1>>] \in Nat
    BY <1>1
  <2> QED BY <2>1
<1>6. \E g : g = body(g)
  <2> HIDE DEF body
  <2> QED BY <1>4, <1>5
<1>7. lcs_lengths(current, proposed) = CHOOSE g : g = body(g)
  BY DEF lcs_lengths, same, Cells, n, m
<1>8. lcs_lengths(current, proposed) = body(lcs_lengths(current, proposed))
  <2> HIDE DEF body
  <2> QED BY <1>6, <1>7, Zenon
<1> DEFINE dp == lcs_lengths(current, proposed)
<1>9. dp[c] = IF Edge(c) THEN 0
              ELSE IF same(c) THEN dp[Diagonal(c)] + 1
              ELSE Max({dp[Above(c)], dp[Beside(c)]})
  <2>1. c \in (0..n) \X (0..m)
    BY DEF Cells, n, m
  <2>2. dp = body(dp)
    BY <1>8
  <2>3. body(dp)[c] = IF Edge(c) THEN 0
                      ELSE IF same(c) THEN dp[Diagonal(c)] + 1
                      ELSE Max({dp[Above(c)], dp[Beside(c)]})
    <3> HIDE DEF dp
    <3> QED BY <2>1, Zenon DEF Edge, Diagonal, Above, Beside
  <2> HIDE DEF dp, body
  <2> QED BY <2>2, <2>3
<1> HIDE DEF dp
<1> QED BY <1>9 DEF same, Same, dp

\* So does the walk back, for any table of lengths.
LEMMA MatchesTable ==
  ASSUME NEW S, NEW current \in Seq(S), NEW proposed \in Seq(S), NEW dp,
         NEW c \in Cells(current, proposed)
  PROVE  LET matches == lcs_matches(current, proposed, dp) IN
         /\ Edge(c) => matches[c] = {}
         /\ ~Edge(c) /\ Same(current, proposed, c) =>
              matches[c] = matches[Diagonal(c)] \cup {c}
         /\ ~Edge(c) /\ ~Same(current, proposed, c) =>
              matches[c] = IF dp[Above(c)] >= dp[Beside(c)]
                           THEN matches[Above(c)] ELSE matches[Beside(c)]
<1> DEFINE n == Len(current)
           m == Len(proposed)
           same(e) == same_semantic_item(current[e[1]], proposed[e[2]])
           upward(e) == dp[<<e[1] - 1, e[2]>>] >= dp[<<e[1], e[2] - 1>>]
           inner == (1..n) \X (1..m)
           V == SUBSET inner
           G == [x \in inner \X V \X V \X V |->
                  IF same(x[1]) THEN x[2] \cup {x[1]} ELSE IF upward(x[1]) THEN x[3] ELSE x[4]]
           body(f) == [e \in (0..n) \X (0..m) |->
                        IF e[1] = 0 \/ e[2] = 0 THEN {}
                        ELSE IF same(e) THEN f[<<e[1] - 1, e[2] - 1>>] \cup {e}
                        ELSE IF upward(e) THEN f[<<e[1] - 1, e[2]>>]
                        ELSE f[<<e[1], e[2] - 1>>]]
<1>1. n \in Nat /\ m \in Nat
  OBVIOUS
<1> HIDE DEF n, m, same, upward
<1>2. TableStep(n, m, V, {}, G)
  <2> SUFFICES ASSUME NEW e \in inner, NEW p \in V, NEW q \in V, NEW r \in V
               PROVE  (IF same(e) THEN p \cup {e} ELSE IF upward(e) THEN q ELSE r) \in V
    BY <1>1 DEF TableStep
  <2> QED OBVIOUS
<1>3. PICK f \in [(0..n) \X (0..m) -> V] : f = Filled(n, m, {}, G, f)
  <2> HIDE DEF G, V
  <2>1. TableIsFilled(n, m, V, {}, G)
    BY <1>2, TableExists
  <2> QED BY <2>1 DEF TableIsFilled
<1>4. Filled(n, m, {}, G, f) = body(f)
  <2> SUFFICES ASSUME NEW e \in (0..n) \X (0..m), e[1] # 0, e[2] # 0
               PROVE  G[<<e, f[<<e[1] - 1, e[2] - 1>>],
                          f[<<e[1] - 1, e[2]>>], f[<<e[1], e[2] - 1>>]>>]
                      = IF same(e) THEN f[<<e[1] - 1, e[2] - 1>>] \cup {e}
                        ELSE IF upward(e) THEN f[<<e[1] - 1, e[2]>>]
                        ELSE f[<<e[1], e[2] - 1>>]
    BY Zenon DEF Filled
  <2>1. /\ e \in inner
        /\ f[<<e[1] - 1, e[2] - 1>>] \in V
        /\ f[<<e[1] - 1, e[2]>>] \in V /\ f[<<e[1], e[2] - 1>>] \in V
    <3> HIDE DEF V
    <3> QED BY <1>1
  <2> HIDE DEF V
  <2> QED BY <2>1
<1>5. \E g : g = body(g)
  <2> HIDE DEF body
  <2> QED BY <1>3, <1>4
<1>6. lcs_matches(current, proposed, dp) = CHOOSE g : g = body(g)
  BY DEF lcs_matches, same, upward, Cells, n, m
<1>7. lcs_matches(current, proposed, dp) = body(lcs_matches(current, proposed, dp))
  <2> HIDE DEF body
  <2> QED BY <1>5, <1>6, Zenon
<1> DEFINE matches == lcs_matches(current, proposed, dp)
<1>8. matches[c] = IF Edge(c) THEN {}
                   ELSE IF same(c) THEN matches[Diagonal(c)] \cup {c}
                   ELSE IF upward(c) THEN matches[Above(c)] ELSE matches[Beside(c)]
  <2>1. c \in (0..n) \X (0..m)
    BY DEF Cells, n, m
  <2>2. matches = body(matches)
    BY <1>7
  <2>3. body(matches)[c] = IF Edge(c) THEN {}
                   ELSE IF same(c) THEN matches[Diagonal(c)] \cup {c}
                   ELSE IF upward(c) THEN matches[Above(c)] ELSE matches[Beside(c)]
    <3> HIDE DEF matches
    <3> QED BY <2>1, Zenon DEF Edge, Diagonal, Above, Beside
  <2> HIDE DEF matches, body
  <2> QED BY <2>2, <2>3
<1> HIDE DEF matches
<1> QED BY <1>8 DEF same, Same, upward, Above, Beside, matches

\* The part of two missions above and to the left of a cell.
Corner(c) == (1..c[1]) \X (1..c[2])

\* What the walk from a cell collects is a common subsequence of the corner, of
\* the length the table has.
Traced(current, proposed, dp, c) ==
  LET matches == lcs_matches(current, proposed, dp)[c] IN
  /\ dp[c] \in Nat
  /\ matches \subseteq Corner(c)
  /\ IsFiniteSet(matches) /\ Cardinality(matches) = dp[c]
  /\ CommonSubsequence(current, proposed, matches)

\* This holds for every cell.
LEMMA EveryCellTraced ==
  ASSUME NEW S, NEW current \in Seq(S), NEW proposed \in Seq(S),
         NEW c \in Cells(current, proposed)
  PROVE  Traced(current, proposed, lcs_lengths(current, proposed), c)
<1> DEFINE n == Len(current)
           m == Len(proposed)
           dp == lcs_lengths(current, proposed)
           matches == lcs_matches(current, proposed, dp)
           same(d) == Same(current, proposed, d)
           T == {d \in Cells(current, proposed) : Traced(current, proposed, dp, d)}
<1>1. n \in Nat /\ m \in Nat /\ Cells(current, proposed) = (0..n) \X (0..m)
  BY DEF Cells
<1>2. ASSUME NEW d \in (0..n) \X (0..m)
      PROVE  /\ Edge(d) => dp[d] = 0
             /\ ~Edge(d) /\ same(d) => dp[d] = dp[Diagonal(d)] + 1
             /\ ~Edge(d) /\ ~same(d) => dp[d] = Max({dp[Above(d)], dp[Beside(d)]})
  <2>1. d \in Cells(current, proposed)
    BY <1>1
  <2>2. LET t == lcs_lengths(current, proposed) IN
        /\ Edge(d) => t[d] = 0
        /\ ~Edge(d) /\ Same(current, proposed, d) => t[d] = t[Diagonal(d)] + 1
        /\ ~Edge(d) /\ ~Same(current, proposed, d) =>
             t[d] = Max({t[Above(d)], t[Beside(d)]})
    BY <2>1, LengthsTable, SMT
  <2> QED BY <2>2
<1>3. ASSUME NEW d \in (0..n) \X (0..m)
      PROVE  /\ Edge(d) => matches[d] = {}
             /\ ~Edge(d) /\ same(d) => matches[d] = matches[Diagonal(d)] \cup {d}
             /\ ~Edge(d) /\ ~same(d) =>
                  matches[d] = IF dp[Above(d)] >= dp[Beside(d)]
                               THEN matches[Above(d)] ELSE matches[Beside(d)]
  <2> HIDE DEF dp
  <2> QED BY <1>1, MatchesTable
<1> HIDE DEF n, m, dp, matches
<1>4. ASSUME NEW d \in (0..n) \X (0..m), Edge(d)
      PROVE  Traced(current, proposed, dp, d)
  <2>1. dp[d] = 0 /\ matches[d] = {}
    BY <1>2, <1>3, <1>4
  <2> QED BY <2>1, FS_EmptySet DEF Traced, CommonSubsequence, matches
<1>5. ASSUME NEW d \in (1..n) \X (1..m),
             Traced(current, proposed, dp, Diagonal(d)),
             Traced(current, proposed, dp, Above(d)),
             Traced(current, proposed, dp, Beside(d))
      PROVE  Traced(current, proposed, dp, d)
  <2> DEFINE diag == Diagonal(d)  up == Above(d)  left == Beside(d)
  <2>1. d \in (0..n) \X (0..m) /\ d[1] \in 1..n /\ d[2] \in 1..m /\ d = <<d[1], d[2]>>
        /\ ~Edge(d)
    BY <1>1 DEF Edge
  <2>2. Corner(diag) = (1..(d[1] - 1)) \X (1..(d[2] - 1))
        /\ Corner(up) = (1..(d[1] - 1)) \X (1..d[2])
        /\ Corner(left) = (1..d[1]) \X (1..(d[2] - 1))
    BY DEF Corner, Diagonal, Above, Beside
  <2>3. Corner(diag) \subseteq Corner(d) /\ Corner(up) \subseteq Corner(d)
        /\ Corner(left) \subseteq Corner(d)
    BY <1>1, <2>1, <2>2 DEF Corner
  <2>4. dp[diag] \in Nat /\ dp[up] \in Nat /\ dp[left] \in Nat
    BY <1>5 DEF Traced
  <2>5. CASE same(d)
    <3> DEFINE M == matches[diag]
    <3>1. dp[d] = dp[diag] + 1 /\ matches[d] = M \cup {d}
      BY <1>2, <1>3, <2>1, <2>5
    <3>2. M \subseteq Corner(diag) /\ IsFiniteSet(M) /\ Cardinality(M) = dp[diag]
          /\ CommonSubsequence(current, proposed, M)
      BY <1>5 DEF Traced, matches
    <3>3. ASSUME NEW p \in Corner(diag) PROVE p[1] < d[1] /\ p[2] < d[2]
      <4>1. p \in (1..(d[1] - 1)) \X (1..(d[2] - 1))
        BY <2>2
      <4>2. p[1] \in 1..(d[1] - 1) /\ p[2] \in 1..(d[2] - 1)
        BY <4>1
      <4>3. d[1] \in Nat /\ d[2] \in Nat
        BY <1>1, <2>1
      <4> HIDE DEF diag
      <4> QED BY <4>2, <4>3
    <3>4. d \notin M
      <4> HIDE DEF M, diag
      <4> QED BY <1>1, <2>1, <3>2, <3>3
    <3>5. d \in Corner(d)
      BY <1>1, <2>1 DEF Corner
    <3>6. IsFiniteSet(M \cup {d}) /\ Cardinality(M \cup {d}) = dp[diag] + 1
      <4> HIDE DEF M
      <4> QED BY <3>2, <3>4, FS_AddElement
    <3>7. CommonSubsequence(current, proposed, M \cup {d})
      <4> HIDE DEF M
      <4> QED BY <2>5, <3>2, <3>3 DEF CommonSubsequence, Same
    <3>8. M \cup {d} \subseteq Corner(d)
      BY <2>3, <3>2, <3>5
    <3>9. dp[d] \in Nat
      BY <2>4, <3>1
    <3> QED BY <3>1, <3>6, <3>7, <3>8, <3>9 DEF Traced, matches
  <2>6. CASE ~same(d)
    <3>1. dp[d] = Max({dp[up], dp[left]})
      BY <1>2, <2>1, <2>6
    <3>2. CASE dp[up] >= dp[left]
      <4>1. matches[d] = matches[up]
        BY <1>3, <2>1, <2>6, <3>2
      <4>2. dp[d] = dp[up]
        <5> HIDE DEF up, left
        <5> QED BY <2>4, <3>1, <3>2, MaxOfTwo
      <4> QED BY <1>5, <2>3, <4>1, <4>2 DEF Traced, matches
    <3>3. CASE ~(dp[up] >= dp[left])
      <4>1. matches[d] = matches[left]
        BY <1>3, <2>1, <2>6, <3>3
      <4>2. dp[d] = dp[left]
        <5> HIDE DEF up, left
        <5> QED BY <2>4, <3>1, <3>3, MaxOfTwo
      <4> QED BY <1>5, <2>3, <4>1, <4>2 DEF Traced, matches
    <3> QED BY <3>2, <3>3
  <2> QED BY <2>5, <2>6
<1>6. \A d \in (1..n) \X (1..m) :
        <<d[1] - 1, d[2] - 1>> \in T /\ <<d[1] - 1, d[2]>> \in T /\ <<d[1], d[2] - 1>> \in T
          => d \in T
  <2> SUFFICES ASSUME NEW d \in (1..n) \X (1..m),
                      Diagonal(d) \in T, Above(d) \in T, Beside(d) \in T
               PROVE  d \in T
    BY Zenon DEF Diagonal, Above, Beside
  <2>1. d \in (0..n) \X (0..m)
    BY <1>1
  <2> QED BY <1>1, <1>5, <2>1
<1>7. \A d \in (0..n) \X (0..m) : d[1] = 0 \/ d[2] = 0 => d \in T
  BY <1>1, <1>4 DEF Edge
<1> HIDE DEF T
<1>8. (0..n) \X (0..m) \subseteq T
  BY <1>1, <1>6, <1>7, CellInduction
<1> QED BY <1>1, <1>8 DEF T, dp

\* A common subsequence of a corner is no longer than the table says.
Longest(current, proposed, dp, c) ==
  \A pairs \in SUBSET Corner(c) :
    CommonSubsequence(current, proposed, pairs) => Cardinality(pairs) <= dp[c]

\* The indices of n items.
LEMMA IndicesFinite ==
  ASSUME NEW n \in Nat
  PROVE  IsFiniteSet(1..n) /\ Cardinality(1..n) = n
<1> DEFINE one == 1
<1>1. one \in Int /\ n \in Int
  OBVIOUS
<1> HIDE DEF one
<1>2. /\ IsFiniteSet(one..n)
      /\ Cardinality(one..n) = IF one > n THEN 0 ELSE n - one + 1
  BY <1>1, FS_Interval
<1> QED BY <1>2 DEF one

\* There are finitely many pairs in a corner.
LEMMA CornerFinite ==
  ASSUME NEW c, c[1] \in Nat, c[2] \in Nat, NEW pairs \in SUBSET Corner(c)
  PROVE  IsFiniteSet(pairs) /\ Cardinality(pairs) \in Nat
<1>1. IsFiniteSet(1..c[1]) /\ IsFiniteSet(1..c[2])
  BY IndicesFinite
<1>2. IsFiniteSet(Corner(c))
  BY <1>1, FS_Product DEF Corner
<1> QED BY <1>2, FS_Subset, FS_CardinalityType

\* A common subsequence has at most one pair in the last row and column.
LEMMA LastPairAlone ==
  ASSUME NEW current, NEW proposed, NEW c, c[1] \in Nat, c[2] \in Nat,
         NEW pairs \in SUBSET Corner(c), CommonSubsequence(current, proposed, pairs)
  PROVE  \/ pairs \subseteq Corner(Diagonal(c))
         \/ \E p \in pairs : pairs \ {p} \subseteq Corner(Diagonal(c))
<1> DEFINE i == c[1]  j == c[2]
<1>1. i \in Nat /\ j \in Nat
  OBVIOUS
<1>2. Corner(Diagonal(c)) = (1..(i - 1)) \X (1..(j - 1)) /\ Corner(c) = (1..i) \X (1..j)
  BY DEF Corner, Diagonal
<1> HIDE DEF i, j
<1> SUFFICES ASSUME NEW p \in pairs, p \notin Corner(Diagonal(c))
             PROVE  pairs \ {p} \subseteq Corner(Diagonal(c))
  OBVIOUS
<1> SUFFICES ASSUME NEW q \in pairs, q # p, q \notin Corner(Diagonal(c))
             PROVE  FALSE
  OBVIOUS
<1>3. /\ p = <<p[1], p[2]>> /\ p[1] \in 1..i /\ p[2] \in 1..j
      /\ q = <<q[1], q[2]>> /\ q[1] \in 1..i /\ q[2] \in 1..j
  BY <1>2
<1>4. \/ p[1] < q[1] /\ p[2] < q[2]
      \/ q[1] < p[1] /\ q[2] < p[2]
  BY DEF CommonSubsequence
<1>5. CASE p[1] < q[1] /\ p[2] < q[2]
  <2>1. p[1] \in 1..(i - 1) /\ p[2] \in 1..(j - 1)
    BY <1>1, <1>3, <1>5
  <2> QED BY <1>2, <1>3, <2>1
<1>6. CASE q[1] < p[1] /\ q[2] < p[2]
  <2>1. q[1] \in 1..(i - 1) /\ q[2] \in 1..(j - 1)
    BY <1>1, <1>3, <1>6
  <2> QED BY <1>2, <1>3, <2>1
<1> QED BY <1>4, <1>5, <1>6

\* A common subsequence without the pair of the last items misses the last item
\* of one of the missions.
LEMMA LastItemMissed ==
  ASSUME NEW current, NEW proposed, NEW c, c[1] \in Nat, c[2] \in Nat,
         NEW pairs \in SUBSET Corner(c), CommonSubsequence(current, proposed, pairs),
         <<c[1], c[2]>> \notin pairs
  PROVE  pairs \subseteq Corner(Above(c)) \/ pairs \subseteq Corner(Beside(c))
<1> DEFINE i == c[1]  j == c[2]
<1>1. i \in Nat /\ j \in Nat
  OBVIOUS
<1>2. /\ Corner(Above(c)) = (1..(i - 1)) \X (1..j)
      /\ Corner(Beside(c)) = (1..i) \X (1..(j - 1))
      /\ Corner(c) = (1..i) \X (1..j) /\ <<i, j>> \notin pairs
  BY DEF Corner, Above, Beside
<1> HIDE DEF i, j
<1> SUFFICES ASSUME NEW p \in pairs, p \notin Corner(Above(c)),
                    NEW q \in pairs, q \notin Corner(Beside(c))
             PROVE  FALSE
  OBVIOUS
<1>3. /\ p = <<p[1], p[2]>> /\ p[1] \in 1..i /\ p[2] \in 1..j
      /\ q = <<q[1], q[2]>> /\ q[1] \in 1..i /\ q[2] \in 1..j
  BY <1>2
<1>4. p[1] \notin 1..(i - 1) /\ q[2] \notin 1..(j - 1)
  BY <1>2, <1>3
<1>5. p[1] = i /\ q[2] = j
  BY <1>1, <1>3, <1>4
<1>6. p[2] # j /\ q[1] # i
  BY <1>2, <1>3, <1>5
<1>7. p = q \/ (p[1] < q[1] /\ p[2] < q[2]) \/ (q[1] < p[1] /\ q[2] < p[2])
  BY DEF CommonSubsequence
<1> QED BY <1>1, <1>3, <1>5, <1>6, <1>7

\* No common subsequence of a corner is longer than the table says.
LEMMA EveryCellLongest ==
  ASSUME NEW S, NEW current \in Seq(S), NEW proposed \in Seq(S),
         NEW c \in Cells(current, proposed)
  PROVE  Longest(current, proposed, lcs_lengths(current, proposed), c)
<1> DEFINE n == Len(current)
           m == Len(proposed)
           dp == lcs_lengths(current, proposed)
           T == {d \in Cells(current, proposed) : Longest(current, proposed, dp, d)}
<1>1. n \in Nat /\ m \in Nat /\ Cells(current, proposed) = (0..n) \X (0..m)
  BY DEF Cells
<1>2. ASSUME NEW d \in (0..n) \X (0..m)
      PROVE  dp[d] \in Nat
  <2>1. Traced(current, proposed, dp, d)
    <3>1. d \in Cells(current, proposed)
      BY <1>1
    <3> QED BY <3>1, EveryCellTraced
  <2> QED BY <2>1 DEF Traced
<1>3. ASSUME NEW d \in (1..n) \X (1..m)
      PROVE  /\ Same(current, proposed, d) => dp[d] = dp[Diagonal(d)] + 1
             /\ ~Same(current, proposed, d) => dp[d] >= dp[Above(d)] /\ dp[d] >= dp[Beside(d)]
  <2>1. d \in Cells(current, proposed) /\ ~Edge(d)
    BY <1>1 DEF Edge
  <2>2. Above(d) \in (0..n) \X (0..m) /\ Beside(d) \in (0..n) \X (0..m)
    BY <1>1 DEF Above, Beside
  <2>3. dp[Above(d)] \in Nat /\ dp[Beside(d)] \in Nat
    <3> HIDE DEF dp
    <3> QED BY <1>2, <2>2
  <2>4. /\ Same(current, proposed, d) => dp[d] = dp[Diagonal(d)] + 1
        /\ ~Same(current, proposed, d) => dp[d] = Max({dp[Above(d)], dp[Beside(d)]})
    BY <2>1, LengthsTable, SMT
  <2> HIDE DEF dp
  <2> QED BY <2>3, <2>4, MaxOfTwo
<1> HIDE DEF n, m, dp
<1>4. ASSUME NEW d \in (0..n) \X (0..m), Edge(d)
      PROVE  Longest(current, proposed, dp, d)
  <2> SUFFICES ASSUME NEW pairs \in SUBSET Corner(d)
               PROVE  Cardinality(pairs) <= dp[d]
    BY DEF Longest
  <2>1. 1..0 = {}
    OBVIOUS
  <2>2. pairs = {}
    BY <1>4, <2>1 DEF Corner, Edge
  <2> QED BY <1>2, <2>2, FS_EmptySet
<1>5. ASSUME NEW d \in (1..n) \X (1..m),
             Longest(current, proposed, dp, Diagonal(d)),
             Longest(current, proposed, dp, Above(d)),
             Longest(current, proposed, dp, Beside(d))
      PROVE  Longest(current, proposed, dp, d)
  <2> SUFFICES ASSUME NEW pairs \in SUBSET Corner(d),
                      CommonSubsequence(current, proposed, pairs)
               PROVE  Cardinality(pairs) <= dp[d]
    BY DEF Longest
  <2>1. d \in (0..n) \X (0..m) /\ d[1] \in Nat /\ d[2] \in Nat /\ d = <<d[1], d[2]>>
    BY <1>1
  <2>2. Diagonal(d) \in (0..n) \X (0..m) /\ Above(d) \in (0..n) \X (0..m)
        /\ Beside(d) \in (0..n) \X (0..m)
    BY <1>1 DEF Diagonal, Above, Beside
  <2>3. dp[d] \in Nat /\ dp[Diagonal(d)] \in Nat /\ dp[Above(d)] \in Nat
        /\ dp[Beside(d)] \in Nat
    BY <1>2, <2>1, <2>2
  <2>4. IsFiniteSet(pairs) /\ Cardinality(pairs) \in Nat
    BY <2>1, CornerFinite
  <2>5. ASSUME NEW q \in SUBSET pairs PROVE CommonSubsequence(current, proposed, q)
    BY DEF CommonSubsequence
  <2>6. CASE Same(current, proposed, d)
    <3>1. CASE pairs \subseteq Corner(Diagonal(d))
      <4>1. Cardinality(pairs) <= dp[Diagonal(d)]
        BY <1>5, <3>1 DEF Longest
      <4> QED BY <1>3, <2>3, <2>4, <2>6, <4>1
    <3>2. ASSUME NEW p \in pairs, pairs \ {p} \subseteq Corner(Diagonal(d))
          PROVE  Cardinality(pairs) <= dp[d]
      <4>1. Cardinality(pairs \ {p}) <= dp[Diagonal(d)]
        BY <1>5, <2>5, <3>2 DEF Longest
      <4>2. Cardinality(pairs \ {p}) = Cardinality(pairs) - 1
        BY <2>4, FS_RemoveElement
      <4> QED BY <1>3, <2>3, <2>4, <2>6, <4>1, <4>2
    <3> QED BY <2>1, <3>1, <3>2, LastPairAlone
  <2>7. CASE ~Same(current, proposed, d)
    <3>1. <<d[1], d[2]>> \notin pairs
      BY <2>1, <2>7 DEF CommonSubsequence, Same
    <3>2. pairs \subseteq Corner(Above(d)) \/ pairs \subseteq Corner(Beside(d))
      BY <2>1, <3>1, LastItemMissed
    <3>3. Cardinality(pairs) <= dp[Above(d)] \/ Cardinality(pairs) <= dp[Beside(d)]
      BY <1>5, <3>2 DEF Longest
    <3> QED BY <1>3, <2>3, <2>4, <2>7, <3>3
  <2> QED BY <2>6, <2>7
<1>6. \A d \in (1..n) \X (1..m) :
        <<d[1] - 1, d[2] - 1>> \in T /\ <<d[1] - 1, d[2]>> \in T /\ <<d[1], d[2] - 1>> \in T
          => d \in T
  <2> SUFFICES ASSUME NEW d \in (1..n) \X (1..m),
                      Diagonal(d) \in T, Above(d) \in T, Beside(d) \in T
               PROVE  d \in T
    BY Zenon DEF Diagonal, Above, Beside
  <2>1. d \in (0..n) \X (0..m)
    BY <1>1
  <2> QED BY <1>1, <1>5, <2>1
<1>7. \A d \in (0..n) \X (0..m) : d[1] = 0 \/ d[2] = 0 => d \in T
  BY <1>1, <1>4 DEF Edge
<1> HIDE DEF T
<1>8. (0..n) \X (0..m) \subseteq T
  BY <1>1, <1>6, <1>7, CellInduction
<1> QED BY <1>1, <1>8 DEF T, dp

\* The alignment is a common subsequence of the two missions, and none is longer.
LEMMA AlignmentCorrect ==
  ASSUME NEW S, NEW current \in Seq(S), NEW proposed \in Seq(S)
  PROVE  LET matches == align_exact_items(current, proposed) IN
         /\ matches \subseteq (DOMAIN current) \X (DOMAIN proposed)
         /\ IsFiniteSet(matches) /\ Cardinality(matches) \in Nat
         /\ CommonSubsequence(current, proposed, matches)
         /\ \A pairs \in SUBSET ((DOMAIN current) \X (DOMAIN proposed)) :
              CommonSubsequence(current, proposed, pairs)
                => Cardinality(pairs) <= Cardinality(matches)
<1> DEFINE c == <<Len(current), Len(proposed)>>
           dp == lcs_lengths(current, proposed)
<1>1. c \in Cells(current, proposed)
  BY DEF Cells
<1>2. Corner(c) = (DOMAIN current) \X (DOMAIN proposed)
  BY DEF Corner
<1>3. align_exact_items(current, proposed) = lcs_matches(current, proposed, dp)[c]
  BY DEF align_exact_items
<1> HIDE DEF c
<1>4. Traced(current, proposed, dp, c) /\ Longest(current, proposed, dp, c)
  BY <1>1, EveryCellTraced, EveryCellLongest
<1> HIDE DEF dp
<1> QED BY <1>2, <1>3, <1>4 DEF Traced, Longest

-----------------------------------------------------------------------------
(* Reordered and paired items                                               *)

\* A set of numbers that is not empty has a least one.
LEMMA LeastNumber ==
  ASSUME NEW T \in SUBSET Nat, T # {}
  PROVE  Min(T) \in T /\ \A y \in T : Min(T) <= y
<1> DEFINE U == {n \in Nat : \A y \in T : y >= n}
<1>1. \E x \in T : \A y \in T : x <= y
  <2> SUFFICES ASSUME \A x \in T : \E y \in T : y < x PROVE FALSE
    OBVIOUS
  <2>1. 0 \in U
    OBVIOUS
  <2>2. ASSUME NEW n \in Nat, n \in U PROVE n + 1 \in U
    <3>1. n \notin T
      <4> SUFFICES ASSUME n \in T PROVE FALSE
        OBVIOUS
      <4>1. PICK y \in T : y < n
        OBVIOUS
      <4> QED BY <2>2, <4>1
    <3> QED BY <2>2, <3>1
  <2> HIDE DEF U
  <2>3. Nat \subseteq U
    BY <2>1, <2>2, SetInduction
  <2>4. PICK x \in T : TRUE
    OBVIOUS
  <2>5. x + 1 \in U
    BY <2>3
  <2> QED BY <2>4, <2>5 DEF U
<1> QED BY <1>1 DEF Min

\* The indices a set of pairs uses.
LEMMA UsedIndices ==
  \A A, B : /\ Old(A \cup B) = Old(A) \cup Old(B)
            /\ New(A \cup B) = New(A) \cup New(B)
BY DEF Old, New

\* The indices one more pair uses.
LEMMA UsedByPair ==
  ASSUME NEW A, NEW p
  PROVE  /\ Old(A \cup {p}) = Old(A) \cup {p[1]}
         /\ New(A \cup {p}) = New(A) \cup {p[2]}
BY DEF Old, New

\* Item i was reordered: it is in a pair with an unused equal item now, or there
\* was none.
ItemReordered(current, proposed, matches, done, i, next) ==
  LET unused == DOMAIN proposed \ New(matches \cup done) IN
  \/ /\ next = done
     /\ i \in Old(matches) \/ \A j \in unused : ~Same(current, proposed, <<i, j>>)
  \/ /\ i \notin Old(matches)
     /\ \E j \in unused : Same(current, proposed, <<i, j>>) /\ next = done \cup {<<i, j>>}

\* The body of the loop reorders an item.
LEMMA ReorderItem ==
  ASSUME NEW S, NEW current \in Seq(S), NEW proposed \in Seq(S), NEW matches,
         NEW done, NEW i \in DOMAIN current
  PROVE  ItemReordered(current, proposed, matches, done, i,
                       reorder_item(current, proposed, matches, done, i))
<1> DEFINE equal == {j \in DOMAIN proposed \ New(matches \cup done) :
                       same_semantic_item(current[i], proposed[j])}
<1>1. reorder_item(current, proposed, matches, done, i)
        = IF i \in Old(matches) \/ equal = {} THEN done ELSE done \cup {<<i, Min(equal)>>}
  BY DEF reorder_item
<1>2. equal \subseteq Nat
  OBVIOUS
<1>3. equal # {} => Min(equal) \in equal
  <2> HIDE DEF equal
  <2> QED BY <1>2, LeastNumber
<1>4. \A j : Same(current, proposed, <<i, j>>) <=> same_semantic_item(current[i], proposed[j])
  BY DEF Same
<1>5. CASE i \in Old(matches) \/ equal = {}
  <2>1. equal = {} => \A j \in DOMAIN proposed \ New(matches \cup done) :
                        ~Same(current, proposed, <<i, j>>)
    BY <1>4
  <2> HIDE DEF equal
  <2> QED BY <1>1, <1>5, <2>1 DEF ItemReordered
<1>6. CASE ~(i \in Old(matches) \/ equal = {})
  <2>1. /\ Min(equal) \in DOMAIN proposed \ New(matches \cup done)
        /\ Same(current, proposed, <<i, Min(equal)>>)
    BY <1>3, <1>4, <1>6
  <2> HIDE DEF equal
  <2> QED BY <1>1, <1>6, <2>1 DEF ItemReordered
<1> QED BY <1>5, <1>6

\* The pairs of two missions.
PairSets(current, proposed) == SUBSET ((DOMAIN current) \X (DOMAIN proposed))

\* The loop over the items of the current mission.
LEMMA ReorderLoop ==
  ASSUME NEW S, NEW current \in Seq(S), NEW proposed \in Seq(S), NEW matches
  PROVE  \E upto :
           /\ upto[0] = {}
           /\ \A i \in 1..Len(current) :
                upto[i] = reorder_item(current, proposed, matches, upto[i - 1], i)
           /\ reordered_items(current, proposed, matches) = upto[Len(current)]
<1> DEFINE n == Len(current)
           V == PairSets(current, proposed)
           step(done, i) == reorder_item(current, proposed, matches, done, i)
           G == [x \in V \X (1..n) |-> step(x[1], x[2])]
           body(f) == [i \in 0..n |-> IF i = 0 THEN {} ELSE step(f[i - 1], i)]
<1>1. n \in Nat /\ DOMAIN current = 1..n
  OBVIOUS
<1>2. ASSUME NEW done \in V, NEW i \in 1..n PROVE step(done, i) \in V
  <2>1. ItemReordered(current, proposed, matches, done, i, step(done, i))
    BY <1>1, ReorderItem
  <2> HIDE DEF step
  <2>2. \/ step(done, i) = done
        \/ \E j \in DOMAIN proposed : step(done, i) = done \cup {<<i, j>>}
    BY <2>1 DEF ItemReordered
  <2> QED BY <1>1, <2>2 DEF PairSets
<1>3. {} \in V
  BY DEF PairSets
<1> HIDE DEF n, V, step
<1>4. LoopStep(n, V, {}, G)
  BY <1>1, <1>2, <1>3 DEF LoopStep
<1>5. PICK f \in [0..n -> V] :
        f = [i \in 0..n |-> IF i = 0 THEN {} ELSE G[<<f[i - 1], i>>]]
  <2> HIDE DEF G
  <2>1. LoopRuns(n, V, {}, G)
    BY <1>4, LoopExists
  <2> QED BY <2>1 DEF LoopRuns
<1>6. f = body(f)
  <2>1. ASSUME NEW i \in 0..n, i # 0 PROVE G[<<f[i - 1], i>>] = step(f[i - 1], i)
    <3>1. i - 1 \in 0..n /\ i \in 1..n
      BY <1>1, <2>1
    <3> QED BY <3>1
  <2> HIDE DEF G
  <2> QED BY <1>5, <2>1
<1>7. \E g : g = body(g)
  <2> HIDE DEF body
  <2> QED BY <1>6
<1> DEFINE upto == CHOOSE g : g = body(g)
<1>8. upto = body(upto)
  <2> HIDE DEF body
  <2> QED BY <1>7, Zenon
<1>9. reordered_items(current, proposed, matches) = upto[n]
  BY DEF reordered_items, n, step
<1> HIDE DEF upto
<1>10. upto[0] = {}
  <2>1. 0 \in 0..n
    BY <1>1
  <2> QED BY <1>8, <2>1, Zenon
<1>11. ASSUME NEW i \in 1..n PROVE upto[i] = step(upto[i - 1], i)
  <2>1. i \in 0..n /\ i # 0
    BY <1>1
  <2> QED BY <1>8, <2>1, Zenon
<1> HIDE DEF body
<1> QED BY <1>9, <1>10, <1>11, Zenon DEF n, step

\* Two sets of pairs have no item in common.
Apart(A, B) == Old(A) \cap Old(B) = {} /\ New(A) \cap New(B) = {}

\* A pair with items of its own can be added.
LEMMA AddPair ==
  ASSUME NEW A, NEW B, Injective(A), Apart(A, B), NEW p,
         p[1] \notin Old(A \cup B), p[2] \notin New(A \cup B)
  PROVE  Injective(A \cup {p}) /\ Apart(A \cup {p}, B)
<1>1. Old(A \cup {p}) = Old(A) \cup {p[1]} /\ New(A \cup {p}) = New(A) \cup {p[2]}
  BY UsedByPair, Zenon
<1>2. p[1] \notin Old(B) /\ p[2] \notin New(B) /\ p[1] \notin Old(A) /\ p[2] \notin New(A)
  BY DEF Old, New
<1>3. Apart(A \cup {p}, B)
  BY <1>1, <1>2 DEF Apart
<1>4. \A q \in A : q[1] # p[1] /\ q[2] # p[2]
  BY <1>2 DEF Old, New
<1>5. Injective(A \cup {p})
  BY <1>4 DEF Injective
<1> QED BY <1>3, <1>5

\* Reordering pairs equal items of its own, and afterwards no unused item has an
\* unused equal one.
LEMMA ReorderCorrect ==
  ASSUME NEW S, NEW current \in Seq(S), NEW proposed \in Seq(S), NEW matches
  PROVE  LET reordered == reordered_items(current, proposed, matches) IN
         /\ reordered \in PairSets(current, proposed)
         /\ Injective(reordered) /\ Apart(reordered, matches)
         /\ \A p \in reordered : Same(current, proposed, p)
         /\ \A i \in DOMAIN current \ Old(matches \cup reordered) :
              \A j \in DOMAIN proposed \ New(matches \cup reordered) :
                ~Same(current, proposed, <<i, j>>)
<1> DEFINE n == Len(current)
           Inv(k, done) ==
             /\ done \in PairSets(current, proposed)
             /\ \A p \in done : p[1] <= k
             /\ Injective(done) /\ Apart(done, matches)
             /\ \A p \in done : Same(current, proposed, p)
             /\ \A i \in (1..k) \ Old(matches \cup done) :
                  \A j \in DOMAIN proposed \ New(matches \cup done) :
                    ~Same(current, proposed, <<i, j>>)
<1>1. n \in Nat /\ DOMAIN current = 1..n
  OBVIOUS
<1>2. PICK upto : /\ upto[0] = {}
                  /\ \A i \in 1..n :
                       upto[i] = reorder_item(current, proposed, matches, upto[i - 1], i)
                  /\ reordered_items(current, proposed, matches) = upto[n]
  BY ReorderLoop
<1> DEFINE T == {k \in 0..n : Inv(k, upto[k])}
<1>3. 0 \in T
  <2>1. (1..0) = {}
    OBVIOUS
  <2>2. Inv(0, {})
    BY <2>1 DEF PairSets, Injective, Apart, Old, New
  <2>3. 0 \in 0..n
    BY <1>1
  <2> HIDE DEF Inv
  <2> QED BY <1>2, <2>2, <2>3, Zenon
<1>4. ASSUME NEW k \in 1..n, k - 1 \in T PROVE k \in T
  <2> DEFINE done == upto[k - 1]
             next == upto[k]
  <2>1. Inv(k - 1, done)
    BY <1>4
  <2>2. next = reorder_item(current, proposed, matches, done, k)
    BY <1>2
  <2> HIDE DEF done, next
  <2>3. k \in DOMAIN current /\ k \in Nat
    BY <1>1
  <2>4. ItemReordered(current, proposed, matches, done, k, next)
    BY <2>2, <2>3, ReorderItem
  <2>5. k \notin Old(done)
    BY <2>1, <2>3 DEF Old
  <2>6. \A p \in done : p[1] <= k
    BY <2>1, <2>3 DEF PairSets
  <2>7. ASSUME next = done,
               \/ k \in Old(matches)
               \/ \A j \in DOMAIN proposed \ New(matches \cup done) :
                    ~Same(current, proposed, <<k, j>>)
        PROVE  Inv(k, next)
    <3>1. ASSUME NEW i \in (1..k) \ Old(matches \cup done),
                 NEW j \in DOMAIN proposed \ New(matches \cup done)
          PROVE  ~Same(current, proposed, <<i, j>>)
      <4>1. CASE i = k
        BY <2>7, <4>1, UsedIndices
      <4>2. CASE i # k
        <5>1. i \in (1..(k - 1)) \ Old(matches \cup done)
          BY <2>3, <4>2
        <5> QED BY <2>1, <5>1
      <4> QED BY <4>1, <4>2
    <3> QED BY <2>1, <2>6, <2>7, <3>1
  <2>8. ASSUME k \notin Old(matches), NEW j \in DOMAIN proposed \ New(matches \cup done),
               Same(current, proposed, <<k, j>>), next = done \cup {<<k, j>>}
        PROVE  Inv(k, next)
    <3> DEFINE p == <<k, j>>
    <3>1. p[1] = k /\ p[2] = j /\ next = done \cup {p} /\ Same(current, proposed, p)
          /\ p \in (DOMAIN current) \X (DOMAIN proposed)
      BY <2>3, <2>8
    <3> HIDE DEF p
    <3>2. p[1] \notin Old(done \cup matches) /\ p[2] \notin New(done \cup matches)
      BY <2>5, <2>8, <3>1 DEF Old, New
    <3>3. Injective(next) /\ Apart(next, matches)
      BY <2>1, <3>1, <3>2, AddPair
    <3>4. next \in PairSets(current, proposed)
      BY <2>1, <3>1 DEF PairSets
    <3>5. \A q \in next : q[1] <= k /\ Same(current, proposed, q)
      BY <2>1, <2>3, <2>6, <3>1
    <3>6. /\ Old(matches \cup done) \subseteq Old(matches \cup next)
          /\ New(matches \cup done) \subseteq New(matches \cup next)
          /\ k \in Old(matches \cup next)
      BY <3>1 DEF Old, New
    <3>7. ASSUME NEW i \in (1..k) \ Old(matches \cup next),
                 NEW l \in DOMAIN proposed \ New(matches \cup next)
          PROVE  ~Same(current, proposed, <<i, l>>)
      <4>1. i # k /\ i \notin Old(matches \cup done)
        BY <3>6
      <4>2. i \in (1..(k - 1)) \ Old(matches \cup done)
        BY <2>3, <4>1
      <4> QED BY <2>1, <3>6, <4>2
    <3> QED BY <3>3, <3>4, <3>5, <3>7
  <2>9. Inv(k, next)
    <3> HIDE DEF Inv
    <3> QED BY <2>4, <2>7, <2>8 DEF ItemReordered
  <2> HIDE DEF Inv
  <2> QED BY <1>1, <2>9 DEF next
<1> HIDE DEF T
<1>5. n \in T
  <2> HIDE DEF n
  <2>1. 0..n \subseteq T
    BY <1>1, <1>3, <1>4, BoundedInduction
  <2> QED BY <1>1, <2>1
<1>6. Inv(n, reordered_items(current, proposed, matches))
  <2> HIDE DEF Inv
  <2> QED BY <1>2, <1>5 DEF T
<1> QED BY <1>1, <1>6

\* A measure has a least value.
LEMMA LeastMeasure ==
  ASSUME NEW T, T # {}, NEW f \in [T -> Nat]
  PROVE  \E x \in T : \A y \in T : f[x] <= f[y]
<1> DEFINE U == {f[x] : x \in T}
<1>1. U \in SUBSET Nat /\ U # {}
  OBVIOUS
<1> HIDE DEF U
<1>2. Min(U) \in U /\ \A u \in U : Min(U) <= u
  BY <1>1, LeastNumber
<1> QED BY <1>2 DEF U

\* Every pair has a score: no altitude is NaN.
HaveScores(current, proposed, pairs) ==
  \A p \in pairs : has_score(current[p[1]], proposed[p[2]])

\* Distances and scores are not negative.
LEMMA ScoreIsNumber ==
  ASSUME NEW current \in Seq(CanonicalItem), NEW proposed \in Seq(CanonicalItem),
         NEW p \in (DOMAIN current) \X (DOMAIN proposed),
         has_score(current[p[1]], proposed[p[2]])
  PROVE  /\ horizontal_distance_m(current[p[1]], proposed[p[2]]) \in Nat
         /\ altitude_change_m(current[p[1]], proposed[p[2]]) \in Nat
         /\ pair_score(current, proposed, p) \in Nat
<1> DEFINE a == current[p[1]]
           b == proposed[p[2]]
<1>1. p[1] \in Nat /\ p[2] \in Nat
  OBVIOUS
<1>2. a \in CanonicalItem /\ b \in CanonicalItem
  OBVIOUS
<1>3. ASSUME NEW v \in Int, NEW w \in Int PROVE Distance(v, w) \in Nat
  BY DEF Distance
<1>4. /\ Distance(a.x, b.x) \in Nat /\ altitude_change_m(a, b) \in Nat
      /\ Distance(p[1], p[2]) \in Nat
  <2>1. has_score(a, b)
    OBVIOUS
  <2> HIDE DEF a, b
  <2>2. a.x \in Int /\ b.x \in Int
    BY <1>2 DEF CanonicalItem
  <2>3. Unsigned(a.z) \in Int /\ Unsigned(b.z) \in Int
    <3>1. ASSUME NEW v \in FloatValue, v # NaN PROVE Unsigned(v) \in Int
      BY <3>1 DEF FloatValue, Unsigned
    <3>2. a.z \in FloatValue /\ b.z \in FloatValue
      BY <1>2 DEF CanonicalItem
    <3> QED BY <2>1, <3>1, <3>2 DEF has_score
  <2>4. p[1] \in Int /\ p[2] \in Int
    BY <1>1
  <2> QED BY <1>3, <2>2, <2>3, <2>4, Zenon DEF altitude_change_m
<1>5. pair_score(current, proposed, p)
        = (IF a.x = b.x THEN 0 ELSE 100000 + 1000 * Distance(a.x, b.x))
            + 10 * altitude_change_m(a, b) + Distance(p[1], p[2])
  BY DEF pair_score, horizontal_distance_m
<1> HIDE DEF a, b
<1> QED BY <1>4, <1>5 DEF horizontal_distance_m, a, b

\* The best pair is one of the candidates.
LEMMA BestPair ==
  ASSUME NEW current \in Seq(CanonicalItem), NEW proposed \in Seq(CanonicalItem),
         NEW candidates \in PairSets(current, proposed), candidates # {},
         HaveScores(current, proposed, candidates)
  PROVE  best_pair(current, proposed, candidates) \in candidates
<1> DEFINE score(p) == pair_score(current, proposed, p)
           before(p, q) == \/ score(p) < score(q)
                           \/ score(p) = score(q) /\ p[1] < q[1]
                           \/ score(p) = score(q) /\ p[1] = q[1] /\ p[2] <= q[2]
<1>1. \A p \in candidates : score(p) \in Nat /\ p[1] \in Nat /\ p[2] \in Nat
  <2> SUFFICES ASSUME NEW p \in candidates
               PROVE  score(p) \in Nat /\ p[1] \in Nat /\ p[2] \in Nat
    OBVIOUS
  <2>1. p \in (DOMAIN current) \X (DOMAIN proposed)
    BY DEF PairSets
  <2>2. p[1] \in Nat /\ p[2] \in Nat
    BY <2>1
  <2>3. pair_score(current, proposed, p) \in Nat
    <3>1. has_score(current[p[1]], proposed[p[2]])
      BY DEF HaveScores
    <3> QED BY <2>1, <3>1, ScoreIsNumber, Zenon
  <2> QED BY <2>2, <2>3
<1>2. best_pair(current, proposed, candidates)
        = CHOOSE p \in candidates : \A q \in candidates : before(p, q)
  BY DEF best_pair
<1> HIDE DEF score
<1>3. PICK x \in candidates : \A q \in candidates : score(x) <= score(q)
  <2> DEFINE f == [p \in candidates |-> score(p)]
  <2>1. f \in [candidates -> Nat]
    BY <1>1
  <2> HIDE DEF f
  <2>2. \E x \in candidates : \A q \in candidates : f[x] <= f[q]
    BY <2>1, LeastMeasure
  <2> QED BY <2>2 DEF f
<1> DEFINE T == {p \in candidates : score(p) = score(x)}
<1>4. PICK y \in T : \A q \in T : y[1] <= q[1]
  <2> DEFINE f == [p \in T |-> p[1]]
  <2>1. f \in [T -> Nat] /\ T # {}
    BY <1>1
  <2> HIDE DEF f, T
  <2>2. \E v \in T : \A q \in T : f[v] <= f[q]
    BY <2>1, LeastMeasure
  <2> QED BY <2>2 DEF f
<1> DEFINE U == {p \in T : p[1] = y[1]}
<1>5. PICK z \in U : \A q \in U : z[2] <= q[2]
  <2> DEFINE f == [p \in U |-> p[2]]
  <2>1. f \in [U -> Nat] /\ U # {}
    BY <1>1
  <2> HIDE DEF f, U
  <2>2. \E v \in U : \A q \in U : f[v] <= f[q]
    BY <2>1, LeastMeasure
  <2> QED BY <2>2 DEF f
<1>6. z \in candidates /\ score(z) = score(x) /\ z[1] = y[1]
  OBVIOUS
<1>7. ASSUME NEW q \in candidates PROVE before(z, q)
  <2>1. score(z) \in Nat /\ score(q) \in Nat /\ z[1] \in Nat /\ q[1] \in Nat
    BY <1>1, <1>6
  <2>2. score(z) <= score(q)
    BY <1>3, <1>6
  <2>3. score(q) = score(z) => z[1] <= q[1]
    BY <1>4, <1>6
  <2>4. score(q) = score(z) /\ q[1] = z[1] => z[2] <= q[2]
    BY <1>5, <1>6
  <2> QED BY <2>1, <2>2, <2>3, <2>4
<1> HIDE DEF before
<1> QED BY <1>2, <1>6, <1>7

\* A round adds a pair of unused items that has a score, or nothing.
ItemsPaired(current, proposed, used, done, next) ==
  \/ next = done
  \/ \E p \in (DOMAIN current \ Old(used \cup done)) \X (DOMAIN proposed \ New(used \cup done)) :
       next = done \cup {p} /\ has_score(current[p[1]], proposed[p[2]])

\* The body of the loop is such a round.
LEMMA PairRound ==
  ASSUME NEW current \in Seq(CanonicalItem), NEW proposed \in Seq(CanonicalItem),
         NEW used, NEW done
  PROVE  ItemsPaired(current, proposed, used, done,
                     pair_items(current, proposed, used, done))
<1> DEFINE free == (DOMAIN current \ Old(used \cup done))
                     \X (DOMAIN proposed \ New(used \cup done))
           candidates == {p \in free :
                            LET a == current[p[1]]  b == proposed[p[2]] IN
                            likely_same_logical_item(a, b) /\ has_score(a, b)}
           best == best_pair(current, proposed, candidates)
<1>1. pair_items(current, proposed, used, done)
        = IF candidates = {} THEN done ELSE done \cup {best}
  BY DEF pair_items
<1>2. /\ candidates \in PairSets(current, proposed) /\ candidates \subseteq free
      /\ HaveScores(current, proposed, candidates)
  BY DEF PairSets, HaveScores
<1>3. candidates # {} => best \in candidates
  <2> HIDE DEF candidates
  <2> QED BY <1>2, BestPair
<1>4. candidates # {} =>
        best \in free /\ has_score(current[best[1]], proposed[best[2]])
  BY <1>2, <1>3 DEF HaveScores
<1> HIDE DEF candidates, best
<1>5. CASE candidates = {}
  BY <1>1, <1>5 DEF ItemsPaired
<1>6. CASE candidates # {}
  BY <1>1, <1>4, <1>6 DEF ItemsPaired
<1> QED BY <1>5, <1>6

\* The rounds of the loop.
LEMMA PairLoop ==
  ASSUME NEW current \in Seq(CanonicalItem), NEW proposed \in Seq(CanonicalItem), NEW used
  PROVE  \E round :
           /\ round[0] = {}
           /\ \A k \in 1..Len(current) :
                round[k] = pair_items(current, proposed, used, round[k - 1])
           /\ paired_items(current, proposed, used) = round[Len(current)]
<1> DEFINE n == Len(current)
           V == PairSets(current, proposed)
           step(done) == pair_items(current, proposed, used, done)
           G == [x \in V \X (1..n) |-> step(x[1])]
           body(f) == [k \in 0..n |-> IF k = 0 THEN {} ELSE step(f[k - 1])]
<1>1. n \in Nat
  OBVIOUS
<1>2. ASSUME NEW done \in V PROVE step(done) \in V
  <2>1. ItemsPaired(current, proposed, used, done, step(done))
    BY PairRound
  <2> HIDE DEF step
  <2> QED BY <2>1 DEF ItemsPaired, PairSets
<1>3. {} \in V
  BY DEF PairSets
<1> HIDE DEF n, V, step
<1>4. LoopStep(n, V, {}, G)
  BY <1>1, <1>2, <1>3 DEF LoopStep
<1>5. PICK f \in [0..n -> V] :
        f = [k \in 0..n |-> IF k = 0 THEN {} ELSE G[<<f[k - 1], k>>]]
  <2> HIDE DEF G
  <2>1. LoopRuns(n, V, {}, G)
    BY <1>4, LoopExists
  <2> QED BY <2>1 DEF LoopRuns
<1>6. f = body(f)
  <2>1. ASSUME NEW k \in 0..n, k # 0 PROVE G[<<f[k - 1], k>>] = step(f[k - 1])
    <3>1. k - 1 \in 0..n /\ k \in 1..n
      BY <1>1, <2>1
    <3> QED BY <3>1
  <2> HIDE DEF G
  <2> QED BY <1>5, <2>1
<1>7. \E g : g = body(g)
  <2> HIDE DEF body
  <2> QED BY <1>6
<1> DEFINE round == CHOOSE g : g = body(g)
<1>8. round = body(round)
  <2> HIDE DEF body
  <2> QED BY <1>7, Zenon
<1>9. paired_items(current, proposed, used) = round[n]
  BY DEF paired_items, n, step
<1> HIDE DEF round
<1>10. round[0] = {}
  <2>1. 0 \in 0..n
    BY <1>1
  <2> QED BY <1>8, <2>1, Zenon
<1>11. ASSUME NEW k \in 1..n PROVE round[k] = step(round[k - 1])
  <2>1. k \in 0..n /\ k # 0
    BY <1>1
  <2> QED BY <1>8, <2>1, Zenon
<1> HIDE DEF body
<1> QED BY <1>9, <1>10, <1>11, Zenon DEF n, step

\* Pairing uses items that were not used, each of them once, and that have a
\* score.
LEMMA PairCorrect ==
  ASSUME NEW current \in Seq(CanonicalItem), NEW proposed \in Seq(CanonicalItem), NEW used
  PROVE  LET paired == paired_items(current, proposed, used) IN
         /\ paired \in PairSets(current, proposed)
         /\ Injective(paired) /\ Apart(paired, used)
         /\ HaveScores(current, proposed, paired)
<1> DEFINE n == Len(current)
           Inv(done) == /\ done \in PairSets(current, proposed)
                        /\ Injective(done) /\ Apart(done, used)
                        /\ HaveScores(current, proposed, done)
<1>1. n \in Nat
  OBVIOUS
<1>2. PICK round : /\ round[0] = {}
                   /\ \A k \in 1..n : round[k] = pair_items(current, proposed, used, round[k - 1])
                   /\ paired_items(current, proposed, used) = round[n]
  BY PairLoop
<1> DEFINE T == {k \in 0..n : Inv(round[k])}
<1>3. 0 \in T
  <2>1. Inv({})
    BY DEF PairSets, Injective, Apart, Old, New, HaveScores
  <2>2. 0 \in 0..n
    BY <1>1
  <2> HIDE DEF Inv
  <2> QED BY <1>2, <2>1, <2>2, Zenon
<1>4. ASSUME NEW k \in 1..n, k - 1 \in T PROVE k \in T
  <2> DEFINE done == round[k - 1]
             next == round[k]
  <2>1. Inv(done)
    BY <1>4
  <2>2. ItemsPaired(current, proposed, used, done, next)
    <3>1. next = pair_items(current, proposed, used, done)
      BY <1>2
    <3> HIDE DEF done, next
    <3> QED BY <3>1, PairRound
  <2> HIDE DEF done, next
  <2>3. ASSUME NEW p \in (DOMAIN current \ Old(used \cup done))
                           \X (DOMAIN proposed \ New(used \cup done)),
               next = done \cup {p}, has_score(current[p[1]], proposed[p[2]])
        PROVE  Inv(next)
    <3>1. p[1] \notin Old(done \cup used) /\ p[2] \notin New(done \cup used)
      BY DEF Old, New
    <3>2. Injective(next) /\ Apart(next, used)
      BY <2>1, <2>3, <3>1, AddPair
    <3>3. next \in PairSets(current, proposed)
      BY <2>1, <2>3 DEF PairSets
    <3>4. HaveScores(current, proposed, next)
      BY <2>1, <2>3 DEF HaveScores
    <3> QED BY <3>2, <3>3, <3>4
  <2>4. Inv(next)
    <3> HIDE DEF Inv
    <3> QED BY <2>1, <2>2, <2>3 DEF ItemsPaired
  <2>5. k \in 0..n
    BY <1>1
  <2> HIDE DEF Inv
  <2> QED BY <2>4, <2>5 DEF next
<1> HIDE DEF T, n
<1>5. 0..n \subseteq T
  BY <1>1, <1>3, <1>4, BoundedInduction
<1>6. n \in T
  BY <1>1, <1>5
<1> QED BY <1>2, <1>6 DEF T

-----------------------------------------------------------------------------
(* What the delta counts                                                    *)

\* Two matchings apart make one.
LEMMA UnionInjective ==
  ASSUME NEW A, NEW B, Injective(A), Injective(B), Apart(A, B)
  PROVE  Injective(A \cup B)
<1>1. ASSUME NEW p \in A, NEW q \in B PROVE p[1] # q[1] /\ p[2] # q[2]
  BY DEF Apart, Old, New
<1> QED BY <1>1 DEF Injective

\* A common subsequence uses each item once.
LEMMA SubsequenceInjective ==
  ASSUME NEW S, NEW current \in Seq(S), NEW proposed \in Seq(S),
         NEW pairs \in PairSets(current, proposed),
         CommonSubsequence(current, proposed, pairs)
  PROVE  Injective(pairs)
<1> SUFFICES ASSUME NEW p \in pairs, NEW q \in pairs, p # q
             PROVE  p[1] # q[1] /\ p[2] # q[2]
  BY DEF Injective
<1>1. p[1] \in Nat /\ p[2] \in Nat /\ q[1] \in Nat /\ q[2] \in Nat
  BY DEF PairSets
<1>2. (p[1] < q[1] /\ p[2] < q[2]) \/ (q[1] < p[1] /\ q[2] < p[2])
  BY DEF CommonSubsequence
<1> QED BY <1>1, <1>2

\* There are as many items on either side of a set of pairs as it has pairs.
Counted(current, proposed, pairs) ==
  LET lost == DOMAIN current \ Old(pairs)
      added == DOMAIN proposed \ New(pairs)
  IN
  /\ IsFiniteSet(pairs) /\ Cardinality(pairs) \in Nat
  /\ IsFiniteSet(lost) /\ Cardinality(lost) = Len(current) - Cardinality(pairs)
  /\ IsFiniteSet(added) /\ Cardinality(added) = Len(proposed) - Cardinality(pairs)

\* So it is for a matching.
LEMMA MatchingCounts ==
  ASSUME NEW S, NEW current \in Seq(S), NEW proposed \in Seq(S),
         NEW pairs \in PairSets(current, proposed), Injective(pairs)
  PROVE  Counted(current, proposed, pairs)
<1> DEFINE n == Len(current)
           m == Len(proposed)
           c == <<n, m>>
<1>1. n \in Nat /\ m \in Nat /\ DOMAIN current = 1..n /\ DOMAIN proposed = 1..m
  OBVIOUS
<1>2. IsFiniteSet(pairs) /\ Cardinality(pairs) \in Nat
  <2>1. c[1] \in Nat /\ c[2] \in Nat /\ pairs \in SUBSET Corner(c)
    BY <1>1 DEF Corner, PairSets
  <2> HIDE DEF c
  <2> QED BY <2>1, CornerFinite
<1>3. Cardinality(Old(pairs)) = Cardinality(pairs) /\ Old(pairs) \subseteq 1..n
  <2> DEFINE f == [p \in pairs |-> p[1]]
  <2>1. f \in Bijection(pairs, Old(pairs))
    BY DEF Old, Injective, Bijection, Injection, IsInjective, Surjection
  <2>2. ExistsBijection(pairs, Old(pairs))
    BY <2>1 DEF ExistsBijection
  <2>3. Old(pairs) \subseteq 1..n
    BY <1>1 DEF Old, PairSets
  <2> QED BY <1>2, <2>2, <2>3, FS_Bijection
<1>4. Cardinality(New(pairs)) = Cardinality(pairs) /\ New(pairs) \subseteq 1..m
  <2> DEFINE f == [p \in pairs |-> p[2]]
  <2>1. f \in Bijection(pairs, New(pairs))
    BY DEF New, Injective, Bijection, Injection, IsInjective, Surjection
  <2>2. ExistsBijection(pairs, New(pairs))
    BY <2>1 DEF ExistsBijection
  <2>3. New(pairs) \subseteq 1..m
    BY <1>1 DEF New, PairSets
  <2> QED BY <1>2, <2>2, <2>3, FS_Bijection
<1>5. ASSUME NEW k \in Nat, NEW U \in SUBSET (1..k)
      PROVE  IsFiniteSet((1..k) \ U) /\ Cardinality((1..k) \ U) = k - Cardinality(U)
  <2> DEFINE I == 1..k
  <2>1. IsFiniteSet(I) /\ Cardinality(I) = k /\ U \subseteq I
    BY IndicesFinite
  <2> HIDE DEF I
  <2>2. IsFiniteSet(U) /\ IsFiniteSet(I \ U) /\ I = U \cup (I \ U) /\ U \cap (I \ U) = {}
    <3>1. U \in SUBSET I /\ (I \ U) \in SUBSET I
      BY <2>1
    <3>2. IsFiniteSet(U)
      BY <2>1, <3>1, FS_Subset
    <3>3. IsFiniteSet(I \ U)
      BY <2>1, <3>1, FS_Subset
    <3> QED BY <2>1, <3>2, <3>3
  <2> DEFINE W == I \ U
  <2>3. IsFiniteSet(W) /\ I = U \cup W /\ U \cap W = {}
    BY <2>2
  <2> HIDE DEF W
  <2>4. Cardinality(U \cup W) = Cardinality(U) + Cardinality(W) - Cardinality(U \cap W)
    BY <2>2, <2>3, FS_Union
  <2>5. Cardinality(U \cap W) = 0
    BY <2>3, FS_EmptySet
  <2>6. k = Cardinality(U) + Cardinality(W) - 0
    BY <2>1, <2>3, <2>4, <2>5
  <2>7. Cardinality(U) \in Nat /\ Cardinality(W) \in Nat
    BY <2>2, <2>3, FS_CardinalityType
  <2> QED BY <2>3, <2>6, <2>7 DEF I, W
<1> HIDE DEF n, m
<1>6. /\ IsFiniteSet((1..n) \ Old(pairs))
      /\ Cardinality((1..n) \ Old(pairs)) = n - Cardinality(pairs)
  BY <1>1, <1>3, <1>5
<1>7. /\ IsFiniteSet((1..m) \ New(pairs))
      /\ Cardinality((1..m) \ New(pairs)) = m - Cardinality(pairs)
  BY <1>1, <1>4, <1>5
<1> QED BY <1>1, <1>2, <1>6, <1>7 DEF n, m, Counted

\* The matchings the delta is computed from.
Matched(a, b) == align_exact_items(a.items, b.items)
Reordered(a, b) == reordered_items(a.items, b.items, Matched(a, b))
Paired(a, b) == paired_items(a.items, b.items, Matched(a, b) \cup Reordered(a, b))
Related(a, b) == Matched(a, b) \cup Reordered(a, b) \cup Paired(a, b)
Modified(a, b) ==
  {p \in Paired(a, b) : change_types(a.items[p[1]], b.items[p[2]]) # {}}

\* What is known of them: together they are a matching.
LEMMA RelatedMatching ==
  ASSUME NEW a, NEW b, a.items \in Seq(CanonicalItem), b.items \in Seq(CanonicalItem)
  PROVE  /\ Matched(a, b) \in PairSets(a.items, b.items) /\ Injective(Matched(a, b))
         /\ CommonSubsequence(a.items, b.items, Matched(a, b))
         /\ Reordered(a, b) \in PairSets(a.items, b.items) /\ Injective(Reordered(a, b))
         /\ \A p \in Reordered(a, b) : Same(a.items, b.items, p)
         /\ Apart(Reordered(a, b), Matched(a, b))
         /\ Paired(a, b) \in PairSets(a.items, b.items) /\ Injective(Paired(a, b))
         /\ Apart(Paired(a, b), Matched(a, b) \cup Reordered(a, b))
         /\ \A p \in Paired(a, b) : ~Same(a.items, b.items, p)
         /\ HaveScores(a.items, b.items, Paired(a, b))
         /\ Related(a, b) \in PairSets(a.items, b.items) /\ Injective(Related(a, b))
<1> DEFINE c == a.items
           d == b.items
           M == Matched(a, b)
           R == Reordered(a, b)
           P == Paired(a, b)
<1>1. c \in Seq(CanonicalItem) /\ d \in Seq(CanonicalItem)
  OBVIOUS
<1>2. /\ M = align_exact_items(c, d) /\ R = reordered_items(c, d, M)
      /\ P = paired_items(c, d, M \cup R)
  BY DEF Matched, Reordered, Paired
<1>3. Related(a, b) = M \cup R \cup P
  BY DEF Related
<1> HIDE DEF c, d, M, R, P
<1>4. M \in PairSets(c, d) /\ CommonSubsequence(c, d, M) /\ Injective(M)
  <2>1. M \in PairSets(c, d) /\ CommonSubsequence(c, d, M)
    BY <1>1, <1>2, AlignmentCorrect DEF PairSets
  <2> QED BY <1>1, <2>1, SubsequenceInjective
<1>5. /\ R \in PairSets(c, d) /\ Injective(R) /\ Apart(R, M)
      /\ \A p \in R : Same(c, d, p)
      /\ \A i \in DOMAIN c \ Old(M \cup R) : \A j \in DOMAIN d \ New(M \cup R) :
           ~Same(c, d, <<i, j>>)
  BY <1>1, <1>2, ReorderCorrect
<1>6. P \in PairSets(c, d) /\ Injective(P) /\ Apart(P, M \cup R) /\ HaveScores(c, d, P)
  BY <1>1, <1>2, PairCorrect
<1>7. ASSUME NEW p \in P PROVE ~Same(c, d, p)
  <2>1. p[1] \in DOMAIN c /\ p[2] \in DOMAIN d /\ p = <<p[1], p[2]>>
    BY <1>6 DEF PairSets
  <2>2. p[1] \notin Old(M \cup R) /\ p[2] \notin New(M \cup R)
    BY <1>6 DEF Apart, Old, New
  <2>3. ~Same(c, d, <<p[1], p[2]>>)
    BY <1>5, <2>1, <2>2
  <2> QED BY <2>1, <2>3
<1>8. Injective(M \cup R)
  <2>1. Apart(M, R)
    BY <1>5 DEF Apart
  <2> QED BY <1>4, <1>5, <2>1, UnionInjective
<1>9. Injective(M \cup R \cup P) /\ M \cup R \cup P \in PairSets(c, d)
  <2>1. Apart(M \cup R, P)
    BY <1>6 DEF Apart
  <2>2. M \cup R \cup P \in PairSets(c, d)
    BY <1>4, <1>5, <1>6 DEF PairSets
  <2> QED BY <1>6, <1>8, <2>1, <2>2, UnionInjective
<1>10. /\ M \in PairSets(c, d) /\ Injective(M) /\ CommonSubsequence(c, d, M)
       /\ R \in PairSets(c, d) /\ Injective(R) /\ (\A p \in R : Same(c, d, p)) /\ Apart(R, M)
       /\ P \in PairSets(c, d) /\ Injective(P) /\ Apart(P, M \cup R)
       /\ (\A p \in P : ~Same(c, d, p)) /\ HaveScores(c, d, P)
  BY <1>4, <1>5, <1>6, <1>7
<1> QED BY <1>3, <1>9, <1>10, Zenon DEF c, d, M, R, P

\* The farthest and the highest move among some pairs of items.
FarthestMove(a, b, pairs) ==
  Max({0} \cup {horizontal_distance_m(a.items[p[1]], b.items[p[2]]) : p \in pairs})
HighestMove(a, b, pairs) ==
  Max({0} \cup {altitude_change_m(a.items[p[1]], b.items[p[2]]) : p \in pairs})

\* The fields of the delta.
LEMMA DeltaFields ==
  ASSUME NEW a, NEW b
  PROVE  LET delta == compute_mission_delta(a, b)
             modified == Modified(a, b)
         IN
         /\ delta.inserted = Cardinality(DOMAIN b.items \ New(Related(a, b)))
         /\ delta.deleted = Cardinality(DOMAIN a.items \ Old(Related(a, b)))
         /\ delta.item_changes = Cardinality(Reordered(a, b)) + Cardinality(modified)
                                   + delta.deleted + delta.inserted
         /\ delta.no_op <=> delta.item_changes = 0
         /\ delta.destination_changed = destination_changed(a.items, b.items)
         /\ delta.mission_size = Max({Len(a.items), Len(b.items)})
         /\ delta.maximum_horizontal_displacement_m = FarthestMove(a, b, modified)
         /\ delta.maximum_altitude_change_m = HighestMove(a, b, modified)
<1>1. compute_mission_delta(a, b)
        = calculate_summary(a.items, b.items, Reordered(a, b), Paired(a, b), Related(a, b))
  BY DEF compute_mission_delta, Matched, Reordered, Paired, Related
<1> DEFINE modified == Modified(a, b)
           inserted == Cardinality(DOMAIN b.items \ New(Related(a, b)))
           deleted == Cardinality(DOMAIN a.items \ Old(Related(a, b)))
           changes == Cardinality(Reordered(a, b)) + Cardinality(modified)
                        + deleted + inserted
           size == Max({Len(a.items), Len(b.items)})
           horizontal == FarthestMove(a, b, modified)
           altitude == HighestMove(a, b, modified)
<1>2. compute_mission_delta(a, b) =
        [no_op |-> changes = 0,
         inserted |-> inserted,
         deleted |-> deleted,
         reordered |-> Cardinality(Reordered(a, b)),
         maximum_horizontal_displacement_m |-> horizontal,
         maximum_altitude_change_m |-> altitude,
         item_changes |-> changes,
         mission_size |-> size,
         destination_changed |-> destination_changed(a.items, b.items),
         major_replacement |-> size > 0 /\ changes >= size]
  BY <1>1, Zenon DEF calculate_summary, Modified, FarthestMove, HighestMove
<1> HIDE DEF modified, inserted, deleted, changes, size, horizontal, altitude
<1>3. LET delta == compute_mission_delta(a, b) IN
      /\ delta.inserted = inserted /\ delta.deleted = deleted /\ delta.item_changes = changes
      /\ delta.destination_changed = destination_changed(a.items, b.items)
      /\ delta.mission_size = size
      /\ delta.maximum_horizontal_displacement_m = horizontal
      /\ delta.maximum_altitude_change_m = altitude
  BY <1>2
<1>4. compute_mission_delta(a, b).no_op <=> changes = 0
  <2> DEFINE noop == changes = 0
             major == size > 0 /\ changes >= size
             destination == destination_changed(a.items, b.items)
             reorders == Cardinality(Reordered(a, b))
  <2>1. compute_mission_delta(a, b) =
        [no_op |-> noop, inserted |-> inserted, deleted |-> deleted, reordered |-> reorders,
         maximum_horizontal_displacement_m |-> horizontal,
         maximum_altitude_change_m |-> altitude, item_changes |-> changes,
         mission_size |-> size, destination_changed |-> destination,
         major_replacement |-> major]
    BY <1>2
  <2> HIDE DEF noop, major, destination, reorders
  <2>2. compute_mission_delta(a, b).no_op = noop
    BY <2>1
  <2>3. noop <=> changes = 0
    BY DEF noop
  <2> QED BY <2>2, <2>3, Zenon
<1> QED BY <1>3, <1>4 DEF modified, inserted, deleted, changes, size, horizontal, altitude

\* Deleted and inserted items are those outside of one matching.
LEMMA ItemsOutside ==
  ASSUME NEW a, NEW b, a.items \in Seq(CanonicalItem), b.items \in Seq(CanonicalItem)
  PROVE  LET delta == compute_mission_delta(a, b)
             related == Related(a, b)
         IN
         /\ Cardinality(related) \in Nat
         /\ delta.deleted = Len(a.items) - Cardinality(related)
         /\ delta.inserted = Len(b.items) - Cardinality(related)
         /\ delta.deleted \in Nat /\ delta.inserted \in Nat
         /\ delta.deleted = 0 => Old(related) = DOMAIN a.items
         /\ delta.inserted = 0 => New(related) = DOMAIN b.items
<1> DEFINE related == Related(a, b)
           lost == DOMAIN a.items \ Old(related)
           added == DOMAIN b.items \ New(related)
           delta == compute_mission_delta(a, b)
<1>1. related \in PairSets(a.items, b.items) /\ Injective(related)
  BY RelatedMatching
<1>2. Old(related) \subseteq DOMAIN a.items /\ New(related) \subseteq DOMAIN b.items
  <2> HIDE DEF related
  <2> QED BY <1>1 DEF PairSets, Old, New
<1>3. delta.deleted = Cardinality(lost) /\ delta.inserted = Cardinality(added)
  BY DeltaFields
<1> HIDE DEF related, delta
<1>4. /\ Cardinality(related) \in Nat
      /\ Cardinality(lost) = Len(a.items) - Cardinality(related)
      /\ Cardinality(added) = Len(b.items) - Cardinality(related)
      /\ IsFiniteSet(lost) /\ IsFiniteSet(added)
  <2>1. Counted(a.items, b.items, related)
    BY <1>1, MatchingCounts
  <2> QED BY <2>1 DEF Counted
<1> HIDE DEF lost, added
<1>5. Cardinality(lost) \in Nat /\ Cardinality(added) \in Nat
  BY <1>4, FS_CardinalityType
<1>6. (Cardinality(lost) = 0 => lost = {}) /\ (Cardinality(added) = 0 => added = {})
  BY <1>4, FS_EmptySet
<1>7. (lost = {} => Old(related) = DOMAIN a.items) /\ (added = {} => New(related) = DOMAIN b.items)
  BY <1>2 DEF lost, added
<1> QED BY <1>3, <1>4, <1>5, <1>6, <1>7 DEF related, delta

\* Every item of either mission is in a pair.
Covered(current, proposed, pairs) ==
  Old(pairs) = DOMAIN current /\ New(pairs) = DOMAIN proposed

\* A common subsequence of all items matches each index with itself.
LEMMA TotalSubsequence ==
  ASSUME NEW S, NEW current \in Seq(S), NEW proposed \in Seq(S),
         NEW pairs \in PairSets(current, proposed),
         CommonSubsequence(current, proposed, pairs), Covered(current, proposed, pairs)
  PROVE  Len(current) = Len(proposed) /\ \A i \in DOMAIN current : <<i, i>> \in pairs
<1> DEFINE n == Len(current)
           m == Len(proposed)
           Upto(k) == \A i \in 1..k : <<i, i>> \in pairs
           T == {k \in 0..n : Upto(k)}
<1>1. n \in Nat /\ m \in Nat /\ DOMAIN current = 1..n /\ DOMAIN proposed = 1..m
  OBVIOUS
<1>2. ASSUME NEW p \in pairs, NEW q \in pairs
      PROVE  /\ p[1] \in 1..n /\ p[2] \in 1..m /\ p = <<p[1], p[2]>>
             /\ q[1] \in 1..n /\ q[2] \in 1..m /\ q = <<q[1], q[2]>>
             /\ p = q \/ (p[1] < q[1] /\ p[2] < q[2]) \/ (q[1] < p[1] /\ q[2] < p[2])
  BY <1>1 DEF PairSets, CommonSubsequence
<1>3. /\ \A i \in 1..n : \E p \in pairs : p[1] = i
      /\ \A j \in 1..m : \E p \in pairs : p[2] = j
  BY <1>1 DEF Covered, Old, New
<1>4. Len(current) = Len(proposed)
  <2>1. Injective(pairs)
    BY SubsequenceInjective
  <2>2. Counted(current, proposed, pairs)
    BY <2>1, MatchingCounts
  <2>3. /\ Cardinality({}) = n - Cardinality(pairs) /\ Cardinality({}) = m - Cardinality(pairs)
        /\ Cardinality(pairs) \in Nat
    <3>1. DOMAIN current \ Old(pairs) = {} /\ DOMAIN proposed \ New(pairs) = {}
      BY DEF Covered
    <3> QED BY <2>2, <3>1 DEF Counted
  <2>4. Cardinality({}) = 0
    BY FS_EmptySet
  <2> DEFINE c == Cardinality(pairs)
  <2>5. 0 = n - c /\ 0 = m - c /\ c \in Nat
    BY <2>3, <2>4
  <2> HIDE DEF c, n, m
  <2>6. n = m
    BY <1>1, <2>5
  <2> QED BY <2>6 DEF n, m
<1> HIDE DEF n, m
<1>5. 0 \in T
  <2>1. 1..0 = {}
    OBVIOUS
  <2> QED BY <1>1, <2>1
<1>6. ASSUME NEW k \in 1..n, k - 1 \in T PROVE k \in T
  <2>1. \A i \in 1..(k - 1) : <<i, i>> \in pairs
    <3>1. Upto(k - 1)
      <4> HIDE DEF Upto
      <4> QED BY <1>6
    <3> QED BY <3>1, Zenon
  <2>2. PICK p \in pairs : p[1] = k
    BY <1>3
  <2>3. k \in Nat /\ p[2] \in Nat /\ k \in 1..m
    <3>1. n = m
      BY <1>4 DEF n, m
    <3> QED BY <1>1, <1>2, <3>1
  <2>4. ~(p[2] < k)
    <3> SUFFICES ASSUME p[2] < k PROVE FALSE
      OBVIOUS
    <3> DEFINE q == <<p[2], p[2]>>
    <3>1. p[2] \in 1..(k - 1)
      BY <1>1, <1>2, <2>3
    <3>2. q \in pairs /\ q[1] = p[2] /\ q[2] = p[2]
      BY <2>1, <3>1
    <3> HIDE DEF q
    <3>3. p = q \/ (p[1] < q[1] /\ p[2] < q[2]) \/ (q[1] < p[1] /\ q[2] < p[2])
      BY <1>2, <3>2
    <3> QED BY <2>2, <2>3, <3>2, <3>3
  <2>5. ~(p[2] > k)
    <3> SUFFICES ASSUME p[2] > k PROVE FALSE
      OBVIOUS
    <3>1. PICK q \in pairs : q[2] = k
      BY <1>3, <2>3
    <3>2. p = q \/ (p[1] < q[1] /\ p[2] < q[2]) \/ (q[1] < p[1] /\ q[2] < p[2])
      BY <1>2
    <3>3. q[1] < k /\ q[1] \in 1..(k - 1)
      BY <1>1, <1>2, <2>2, <2>3, <3>1, <3>2
    <3> DEFINE r == <<q[1], q[1]>>
    <3>4. r \in pairs /\ r[1] = q[1] /\ r[2] = q[1]
      BY <2>1, <3>3
    <3> HIDE DEF r
    <3>5. r = q \/ (r[1] < q[1] /\ r[2] < q[2]) \/ (q[1] < r[1] /\ q[2] < r[2])
      BY <1>2, <3>4
    <3> QED BY <2>3, <3>1, <3>3, <3>4, <3>5
  <2>6. p = <<k, k>>
    <3>1. p[2] = k
      BY <2>3, <2>4, <2>5
    <3> QED BY <1>2, <2>2, <3>1
  <2>7. ASSUME NEW i \in 1..k PROVE <<i, i>> \in pairs
    <3>1. i = k \/ i \in 1..(k - 1)
      BY <2>3
    <3> QED BY <2>1, <2>6, <3>1
  <2>8. k \in 0..n
    BY <1>1
  <2> QED BY <2>7, <2>8
<1> HIDE DEF T
<1>7. 0..n \subseteq T
  BY <1>1, <1>5, <1>6, BoundedInduction
<1>8. n \in T
  BY <1>1, <1>7
<1>9. \A i \in DOMAIN current : <<i, i>> \in pairs
  <2>1. Upto(n)
    <3> HIDE DEF Upto
    <3> QED BY <1>8 DEF T
  <2> QED BY <1>1, <2>1, Zenon
<1> QED BY <1>4, <1>9


\* A pair of items that are not the same has a change of some type: what the
\* pairing finds is modified.
LEMMA PairedIsModified ==
  ASSUME NEW a, NEW b, a.items \in Seq(CanonicalItem), b.items \in Seq(CanonicalItem)
  PROVE  Modified(a, b) = Paired(a, b)
<1>1. ASSUME NEW v \in CanonicalItem, NEW w \in CanonicalItem, ~same_semantic_item(v, w)
      PROVE  change_types(v, w) # {}
  <2>1. v.x \in Int /\ w.x \in Int
    BY DEF CanonicalItem
  <2>2. CASE v.x # w.x
    <3>1. horizontal_distance_m(v, w) > 0
      BY <2>1, <2>2 DEF horizontal_distance_m, Distance
    <3>2. "MOVE_HORIZONTAL" \in change_types(v, w)
      BY <3>1 DEF change_types
    <3> QED BY <3>2
  <2>3. CASE ~float_equal(v.z, w.z)
    <3>1. "ALTITUDE_CHANGE" \in change_types(v, w)
      BY <2>3 DEF change_types
    <3> QED BY <3>1
  <2>4. CASE v.command # w.command
    <3>1. "COMMAND_CHANGE" \in change_types(v, w)
      BY <2>4 DEF change_types
    <3> QED BY <3>1
  <2>5. CASE parameters_differ(v, w)
    <3>1. "PARAMETER_CHANGE" \in change_types(v, w)
      BY <2>5 DEF change_types
    <3> QED BY <3>1
  <2> QED BY <1>1, <2>2, <2>3, <2>4, <2>5 DEF same_semantic_item, parameters_differ
<1>2. ASSUME NEW p \in Paired(a, b)
      PROVE  change_types(a.items[p[1]], b.items[p[2]]) # {}
  <2>1. Paired(a, b) \in PairSets(a.items, b.items) /\ ~Same(a.items, b.items, p)
    BY RelatedMatching
  <2>2. p[1] \in DOMAIN a.items /\ p[2] \in DOMAIN b.items
    BY <2>1 DEF PairSets
  <2>3. a.items[p[1]] \in CanonicalItem /\ b.items[p[2]] \in CanonicalItem
    BY <2>2
  <2> QED BY <1>1, <2>1, <2>3 DEF Same
<1> QED BY <1>2 DEF Modified

\* The counts of a delta are numbers, and a set that counts 0 is empty.
LEMMA ChangesCounted ==
  ASSUME NEW a, NEW b, a.items \in Seq(CanonicalItem), b.items \in Seq(CanonicalItem)
  PROVE  LET delta == compute_mission_delta(a, b) IN
         /\ Cardinality(Reordered(a, b)) \in Nat /\ Cardinality(Paired(a, b)) \in Nat
         /\ IsFiniteSet(Paired(a, b)) /\ IsFiniteSet(Matched(a, b))
         /\ Cardinality(Reordered(a, b)) = 0 => Reordered(a, b) = {}
         /\ Cardinality(Paired(a, b)) = 0 => Paired(a, b) = {}
         /\ delta.item_changes = Cardinality(Reordered(a, b)) + Cardinality(Paired(a, b))
                                   + delta.deleted + delta.inserted
<1> DEFINE delta == compute_mission_delta(a, b)
           c == <<Len(a.items), Len(b.items)>>
<1>1. delta.item_changes = Cardinality(Reordered(a, b)) + Cardinality(Paired(a, b))
                                   + delta.deleted + delta.inserted
  BY DeltaFields, PairedIsModified
<1> HIDE DEF delta
<1>2. ASSUME NEW pairs \in PairSets(a.items, b.items)
      PROVE  /\ IsFiniteSet(pairs) /\ Cardinality(pairs) \in Nat
             /\ Cardinality(pairs) = 0 => pairs = {}
  <2>1. c[1] \in Nat /\ c[2] \in Nat /\ pairs \in SUBSET Corner(c)
    BY DEF PairSets, Corner
  <2> HIDE DEF c
  <2>2. IsFiniteSet(pairs) /\ Cardinality(pairs) \in Nat
    BY <2>1, CornerFinite
  <2> QED BY <2>2, FS_EmptySet
<1>3. /\ Reordered(a, b) \in PairSets(a.items, b.items)
      /\ Paired(a, b) \in PairSets(a.items, b.items)
      /\ Matched(a, b) \in PairSets(a.items, b.items)
  BY RelatedMatching
<1> QED BY <1>1, <1>2, <1>3 DEF delta

\* The two missions have the same items at the same places.
SameItems(current, proposed) ==
  /\ Len(current) = Len(proposed)
  /\ \A i \in DOMAIN current : Same(current, proposed, <<i, i>>)


\* A change is none only if nothing moved: a no-op pairs every item with the one
\* at its own place.
LEMMA NoOpKeepsItems ==
  ASSUME NEW a, NEW b, a.items \in Seq(CanonicalItem), b.items \in Seq(CanonicalItem),
         compute_mission_delta(a, b).no_op
  PROVE  SameItems(a.items, b.items)
<1> DEFINE delta == compute_mission_delta(a, b)
           r == Cardinality(Reordered(a, b))
           p == Cardinality(Paired(a, b))
<1>1. /\ r \in Nat /\ p \in Nat /\ delta.deleted \in Nat /\ delta.inserted \in Nat
      /\ delta.item_changes = r + p + delta.deleted + delta.inserted
      /\ delta.item_changes = 0
  BY ItemsOutside, ChangesCounted, DeltaFields
<1>2. r = 0 /\ p = 0 /\ delta.deleted = 0 /\ delta.inserted = 0
  <2> DEFINE x == delta.deleted
             y == delta.inserted
  <2>1. r \in Nat /\ p \in Nat /\ x \in Nat /\ y \in Nat /\ 0 = r + p + x + y
    BY <1>1
  <2> HIDE DEF r, p, x, y
  <2>2. r = 0 /\ p = 0 /\ x = 0 /\ y = 0
    BY <2>1
  <2> QED BY <2>2 DEF x, y
<1>3. Reordered(a, b) = {} /\ Paired(a, b) = {}
  BY <1>2, ChangesCounted
<1>4. Related(a, b) = Matched(a, b)
  BY <1>3 DEF Related
<1>5. Old(Related(a, b)) = DOMAIN a.items /\ New(Related(a, b)) = DOMAIN b.items
  BY <1>2, ItemsOutside
<1> DEFINE M == Matched(a, b)
<1>6. /\ M \in PairSets(a.items, b.items) /\ CommonSubsequence(a.items, b.items, M)
      /\ Covered(a.items, b.items, M)
  BY <1>4, <1>5, RelatedMatching DEF Covered
<1> HIDE DEF M
<1>7. /\ Len(a.items) = Len(b.items)
      /\ \A i \in DOMAIN a.items : <<i, i>> \in M
  BY <1>6, TotalSubsequence
<1>8. \A q \in M : Same(a.items, b.items, q)
  BY <1>6 DEF CommonSubsequence, Same
<1> QED BY <1>7, <1>8 DEF SameItems

\* The pairs of each item with the one at its own place.
DiagonalPairs(n) == {<<i, i>> : i \in 1..n}

\* There are as many of them as items.
LEMMA DiagonalCounted ==
  ASSUME NEW n \in Nat
  PROVE  IsFiniteSet(DiagonalPairs(n)) /\ Cardinality(DiagonalPairs(n)) = n
<1> DEFINE f == [i \in 1..n |-> <<i, i>>]
           D == DiagonalPairs(n)
           I == 1..n
<1>1. f \in Bijection(I, D)
  BY DEF DiagonalPairs, Bijection, Injection, IsInjective, Surjection
<1>2. ExistsBijection(I, D)
  BY <1>1 DEF ExistsBijection
<1>3. IsFiniteSet(I) /\ Cardinality(I) = n
  BY IndicesFinite
<1> HIDE DEF I, D
<1> QED BY <1>2, <1>3, FS_Bijection DEF D

\* The same items at the same places are no change at all: the diagonal is a
\* common subsequence, so the alignment leaves nothing over.
LEMMA SameItemsNoOp ==
  ASSUME NEW a, NEW b, a.items \in Seq(CanonicalItem), b.items \in Seq(CanonicalItem),
         SameItems(a.items, b.items)
  PROVE  compute_mission_delta(a, b).no_op
<1> DEFINE delta == compute_mission_delta(a, b)
           n == Len(a.items)
           D == DiagonalPairs(n)
           c == a.items
           d == b.items
           M == Matched(a, b)
<1>1. n \in Nat /\ Len(d) = n /\ DOMAIN c = 1..n /\ DOMAIN d = 1..n
  BY DEF SameItems
<1>2. D \in PairSets(c, d)
  BY <1>1 DEF PairSets, DiagonalPairs
<1>3. CommonSubsequence(c, d, D)
  <2> SUFFICES ASSUME NEW i \in 1..n, NEW j \in 1..n
               PROVE  /\ Same(c, d, <<i, i>>)
                      /\ i = j \/ (i < j /\ i < j) \/ (j < i /\ j < i)
    BY DEF CommonSubsequence, DiagonalPairs, Same
  <2>1. Same(c, d, <<i, i>>)
    BY <1>1 DEF SameItems
  <2>2. i \in Int /\ j \in Int
    OBVIOUS
  <2> QED BY <2>1, <2>2
<1>4. Cardinality(D) = n
  BY <1>1, DiagonalCounted
<1> HIDE DEF D
<1>5. Cardinality(D) <= Cardinality(M) /\ Cardinality(M) \in Nat
  BY <1>2, <1>3, AlignmentCorrect DEF Matched, PairSets
<1>6. M \in PairSets(c, d) /\ Injective(M)
  BY RelatedMatching
<1> HIDE DEF M, c, d, n
<1>7. Counted(c, d, M)
  BY <1>6, MatchingCounts DEF c, d
<1> DEFINE U == DOMAIN c \ Old(M)
           V == DOMAIN d \ New(M)
<1>8. U = {} /\ V = {}
  <2>1. IsFiniteSet(U) /\ Cardinality(U) = n - Cardinality(M)
    BY <1>7 DEF Counted, n, c
  <2>2. IsFiniteSet(V) /\ Cardinality(V) = n - Cardinality(M)
    BY <1>1, <1>7 DEF Counted
  <2> HIDE DEF U, V
  <2>3. Cardinality(U) \in Nat /\ Cardinality(V) \in Nat
    BY <2>1, <2>2, FS_CardinalityType
  <2>4. Cardinality(U) = 0 /\ Cardinality(V) = 0
    BY <1>1, <1>4, <1>5, <2>1, <2>2, <2>3
  <2> QED BY <2>1, <2>2, <2>4, FS_EmptySet
<1>9. Reordered(a, b) = {} /\ Paired(a, b) = {}
  <2>1. /\ Apart(Reordered(a, b), M) /\ Apart(Paired(a, b), M \cup Reordered(a, b))
        /\ Reordered(a, b) \in PairSets(c, d) /\ Paired(a, b) \in PairSets(c, d)
    BY RelatedMatching DEF c, d, M
  <2>2. Old(M) = DOMAIN c
    BY <1>6, <1>8 DEF PairSets, Old
  <2>3. Reordered(a, b) = {}
    BY <2>1, <2>2 DEF Apart, Old, PairSets
  <2>4. Paired(a, b) = {}
    BY <2>1, <2>2 DEF Apart, Old, PairSets
  <2> QED BY <2>3, <2>4
<1>10. Related(a, b) = M
  BY <1>9 DEF Related, M
<1>11. delta.deleted = Cardinality({}) /\ delta.inserted = Cardinality({})
  BY <1>8, <1>10, DeltaFields DEF c, d
<1>12. /\ delta.item_changes = Cardinality({}) + Cardinality({}) + Cardinality({}) + Cardinality({})
       /\ delta.no_op <=> delta.item_changes = 0
  BY <1>9, <1>11, ChangesCounted, DeltaFields
<1>13. Cardinality({}) = 0
  BY FS_EmptySet
<1>14. delta.item_changes = 0
  <2> HIDE DEF delta
  <2> QED BY <1>12, <1>13
<1> QED BY <1>12, <1>14


-----------------------------------------------------------------------------
(* The largest measure                                                      *)

\* A finite set of numbers has a bound.
LEMMA FiniteIsBounded ==
  ASSUME NEW T \in SUBSET Nat, IsFiniteSet(T)
  PROVE  \E b \in Nat : \A y \in T : y <= b
<1>1. PICK n \in Nat : ExistsSurjection(1..n, T)
  BY FS_NatSurjection
<1>2. PICK f \in [1..n -> T] : \A y \in T : \E i \in 1..n : f[i] = y
  BY <1>1 DEF ExistsSurjection, Surjection
<1> DEFINE U == {k \in 0..n : \E b \in Nat : \A i \in 1..k : f[i] <= b}
<1>3. 0 \in U
  <2>1. \A i \in 1..0 : f[i] <= 0
    OBVIOUS
  <2> QED BY <2>1
<1>4. ASSUME NEW k \in 1..n, k - 1 \in U PROVE k \in U
  <2>1. PICK b \in Nat : \A i \in 1..(k - 1) : f[i] <= b
    BY <1>4
  <2>2. f[k] \in Nat
    BY <1>2
  <2>3. PICK d \in Nat : b <= d /\ f[k] <= d
    <3>1. CASE b <= f[k]
      BY <2>2, <3>1
    <3>2. CASE f[k] <= b
      BY <2>2, <3>2
    <3> QED BY <2>2, <3>1, <3>2
  <2>4. \A i \in 1..k : f[i] <= d
    <3> SUFFICES ASSUME NEW i \in 1..k PROVE f[i] <= d
      OBVIOUS
    <3>1. i \in 1..n /\ (i = k \/ i \in 1..(k - 1))
      OBVIOUS
    <3>2. f[i] \in Nat
      BY <1>2, <3>1
    <3> QED BY <2>1, <2>3, <3>1, <3>2
  <2> QED BY <2>4
<1> HIDE DEF U
<1>5. 0..n \subseteq U
  BY <1>3, <1>4, BoundedInduction
<1>6. n \in U
  BY <1>5
<1>7. PICK b \in Nat : \A i \in 1..n : f[i] <= b
  BY <1>6 DEF U
<1> QED BY <1>2, <1>7

\* So it has a greatest element.
LEMMA GreatestNumber ==
  ASSUME NEW T \in SUBSET Nat, IsFiniteSet(T), T # {}
  PROVE  Max(T) \in T /\ \A y \in T : y <= Max(T)
<1> DEFINE B == {b \in Nat : \A y \in T : y <= b}
           m == Min(B)
<1>1. B \in SUBSET Nat /\ B # {}
  BY FiniteIsBounded
<1> HIDE DEF B
<1>2. m \in B /\ \A b \in B : m <= b
  BY <1>1, LeastNumber
<1> HIDE DEF m
<1>3. m \in T
  <2> SUFFICES ASSUME m \notin T PROVE FALSE
    OBVIOUS
  <2>1. m \in Nat /\ \A y \in T : y <= m
    BY <1>2 DEF B
  <2>2. \A y \in T : y \in Nat /\ y # m
    OBVIOUS
  <2>3. ASSUME NEW y \in T PROVE m - 1 \in Nat /\ y <= m - 1
    <3>1. y \in Nat /\ y # m /\ y <= m /\ m \in Nat
      BY <2>1, <2>2
    <3> QED BY <3>1
  <2>4. m - 1 \in B
    BY <2>3, <1>1 DEF B
  <2> QED BY <1>2, <2>1, <2>4
<1>4. \E x \in T : \A y \in T : x >= y
  BY <1>2, <1>3 DEF B
<1>5. Max(T) \in T /\ \A y \in T : Max(T) >= y
  BY <1>4 DEF Max
<1> QED BY <1>5

\* The largest measure h of the elements of P, or 0 if there are none.
LargestOf(P, h) == Max({0} \cup {h[p] : p \in P})

\* No measure is above the largest one.
LEMMA LargestMeasure ==
  ASSUME NEW P, IsFiniteSet(P), NEW h \in [P -> Nat]
  PROVE  LargestOf(P, h) \in Nat /\ \A p \in P : h[p] <= LargestOf(P, h)
<1> DEFINE M == {h[p] : p \in P}
           T == {0} \cup M
<1>1. IsFiniteSet(M)
  <2>1. h \in Surjection(P, M)
    BY DEF Surjection
  <2> HIDE DEF M
  <2> QED BY <2>1, FS_Surjection
<1>2. T \in SUBSET Nat /\ T # {} /\ M \subseteq T
  OBVIOUS
<1>3. IsFiniteSet(T)
  <2>1. T = M \cup {0}
    OBVIOUS
  <2> HIDE DEF M
  <2> QED BY <1>1, <2>1, FS_AddElement
<1>4. \A p \in P : h[p] \in T
  OBVIOUS
<1> HIDE DEF T
<1>5. Max(T) \in T /\ \A y \in T : y <= Max(T)
  BY <1>2, <1>3, GreatestNumber
<1>6. LargestOf(P, h) = Max(T)
  BY DEF T, LargestOf
<1> QED BY <1>2, <1>4, <1>5, <1>6

\* What the delta says of distances bounds every pair of items that were changed.
LEMMA ChangesBounded ==
  ASSUME NEW a, NEW b, a.items \in Seq(CanonicalItem), b.items \in Seq(CanonicalItem)
  PROVE  LET delta == compute_mission_delta(a, b) IN
         /\ delta.maximum_horizontal_displacement_m \in Nat
         /\ delta.maximum_altitude_change_m \in Nat
         /\ \A p \in Paired(a, b) :
              LET v == a.items[p[1]]  w == b.items[p[2]] IN
              /\ horizontal_distance_m(v, w) \in Nat
              /\ horizontal_distance_m(v, w) <= delta.maximum_horizontal_displacement_m
              /\ v.z # NaN /\ w.z # NaN
              /\ altitude_change_m(v, w) \in Nat
              /\ altitude_change_m(v, w) <= delta.maximum_altitude_change_m
<1> DEFINE P == Paired(a, b)
           horizontal(p) == horizontal_distance_m(a.items[p[1]], b.items[p[2]])
           altitude(p) == altitude_change_m(a.items[p[1]], b.items[p[2]])
           h == [p \in P |-> horizontal(p)]
           g == [p \in P |-> altitude(p)]
           delta == compute_mission_delta(a, b)
<1>1. \A p \in P : horizontal(p) \in Nat /\ altitude(p) \in Nat
  <2> SUFFICES ASSUME NEW p \in P PROVE horizontal(p) \in Nat /\ altitude(p) \in Nat
    OBVIOUS
  <2>1. p \in (DOMAIN a.items) \X (DOMAIN b.items) /\ HaveScores(a.items, b.items, P)
    BY RelatedMatching DEF PairSets
  <2>2. has_score(a.items[p[1]], b.items[p[2]])
    BY <2>1, Zenon DEF HaveScores
  <2> QED BY <2>1, <2>2, ScoreIsNumber
<1>2. IsFiniteSet(P)
  BY ChangesCounted
<1>3. /\ delta.maximum_horizontal_displacement_m = LargestOf(P, h)
      /\ delta.maximum_altitude_change_m = LargestOf(P, g)
  <2>1. /\ delta.maximum_horizontal_displacement_m = FarthestMove(a, b, Modified(a, b))
        /\ delta.maximum_altitude_change_m = HighestMove(a, b, Modified(a, b))
    BY DeltaFields, Zenon
  <2>2. Modified(a, b) = P
    BY PairedIsModified
  <2> HIDE DEF P, delta
  <2>3. /\ {horizontal(p) : p \in P} = {h[p] : p \in P}
        /\ {altitude(p) : p \in P} = {g[p] : p \in P}
    OBVIOUS
  <2>4. FarthestMove(a, b, P) = LargestOf(P, h) /\ HighestMove(a, b, P) = LargestOf(P, g)
    BY <2>3 DEF LargestOf, FarthestMove, HighestMove
  <2> QED BY <2>1, <2>2, <2>4
<1> HIDE DEF P, delta, horizontal, altitude
<1>4. /\ h \in [P -> Nat] /\ g \in [P -> Nat]
      /\ \A p \in P : h[p] = horizontal(p) /\ g[p] = altitude(p)
  BY <1>1
<1> HIDE DEF h, g
<1>5. LargestOf(P, h) \in Nat /\ \A p \in P : h[p] <= LargestOf(P, h)
  BY <1>2, <1>4, LargestMeasure
<1>6. LargestOf(P, g) \in Nat /\ \A p \in P : g[p] <= LargestOf(P, g)
  BY <1>2, <1>4, LargestMeasure
<1>7. /\ delta.maximum_horizontal_displacement_m \in Nat
      /\ delta.maximum_altitude_change_m \in Nat
      /\ \A p \in P : /\ horizontal(p) \in Nat /\ altitude(p) \in Nat
                      /\ horizontal(p) <= delta.maximum_horizontal_displacement_m
                      /\ altitude(p) <= delta.maximum_altitude_change_m
  BY <1>1, <1>3, <1>4, <1>5, <1>6
<1>8. \A p \in P : a.items[p[1]].z # NaN /\ b.items[p[2]].z # NaN
  BY RelatedMatching DEF P, HaveScores, has_score
<1> QED BY <1>7, <1>8 DEF P, delta, horizontal, altitude

\* The pairs of different items are the modified ones.
LEMMA ChangedPairs ==
  ASSUME NEW a, NEW b, a.items \in Seq(CanonicalItem), b.items \in Seq(CanonicalItem)
  PROVE  {p \in Related(a, b) : ~Same(a.items, b.items, p)} = Paired(a, b)
<1>1. \A p \in Matched(a, b) : Same(a.items, b.items, p)
  BY RelatedMatching DEF CommonSubsequence, Same
<1>2. /\ \A p \in Reordered(a, b) : Same(a.items, b.items, p)
      /\ \A p \in Paired(a, b) : ~Same(a.items, b.items, p)
  BY RelatedMatching
<1> QED BY <1>1, <1>2 DEF Related

-----------------------------------------------------------------------------
(* The content hash                                                         *)

\* What the serialisation writes of an item.
LEMMA SerializedItem ==
  ASSUME NEW v \in CanonicalItem, NEW w \in CanonicalItem
  PROVE  canonical_item(v) = canonical_item(w)
         <=> /\ v.command = w.command /\ v.frame = w.frame /\ v.x = w.x
             /\ Unsigned(v.z) = Unsigned(w.z) /\ Unsigned(v.param) = Unsigned(w.param)
<1> DEFINE s(u) == [command |-> u.command, frame |-> u.frame, x |-> u.x,
                    z |-> Unsigned(u.z), param |-> Unsigned(u.param)]
<1>1. ASSUME NEW u \in CanonicalItem
      PROVE  canonical_item(u) = s(u)
  <2> DEFINE z == Unsigned(u.z)
             t == [command |-> u.command, frame |-> u.frame, x |-> u.x, z |-> z,
                   param |-> u.param]
  <2>1. [u EXCEPT !.z = z] = t
    BY DEF CanonicalItem
  <2>2. canonical_item(u) = [[u EXCEPT !.z = z] EXCEPT !.param = Unsigned(u.param)]
    BY <2>1 DEF canonical_item, canonical_float
  <2>3. [t EXCEPT !.param = Unsigned(u.param)] = s(u)
    OBVIOUS
  <2> QED BY <2>1, <2>2, <2>3
<1>2. s(v) = s(w) <=> /\ v.command = w.command /\ v.frame = w.frame /\ v.x = w.x
                      /\ Unsigned(v.z) = Unsigned(w.z)
                      /\ Unsigned(v.param) = Unsigned(w.param)
  OBVIOUS
<1> QED BY <1>1, <1>2

\* Two missions hash alike when they have as many items, and items at the same
\* place only differ in the sign of a zero or are NaN both.
LEMMA SameHash ==
  ASSUME NEW type, NEW a \in CanonicalMissions(type), NEW b \in CanonicalMissions(type)
  PROVE  compute_mission_hash(a) = compute_mission_hash(b)
         <=> /\ Len(a.items) = Len(b.items)
             /\ \A i \in DOMAIN a.items :
                  LET v == a.items[i]  w == b.items[i] IN
                  /\ v.command = w.command /\ v.frame = w.frame /\ v.x = w.x
                  /\ Unsigned(v.z) = Unsigned(w.z) /\ Unsigned(v.param) = Unsigned(w.param)
<1> DEFINE text(mission) == [i \in DOMAIN mission.items |-> canonical_item(mission.items[i])]
           alike(v, w) == /\ v.command = w.command /\ v.frame = w.frame /\ v.x = w.x
                          /\ Unsigned(v.z) = Unsigned(w.z)
                          /\ Unsigned(v.param) = Unsigned(w.param)
<1>1. ASSUME NEW m \in CanonicalMissions(type)
      PROVE  compute_mission_hash(m) = [mission_type |-> type, items |-> text(m)]
  <2>1. compute_mission_hash(m) = [m EXCEPT !.items = text(m)]
    BY DEF compute_mission_hash, serialize_canonical_mission
  <2> HIDE DEF text
  <2> QED BY <2>1 DEF CanonicalMissions
<1>2. /\ a.items \in Seq(CanonicalItem) /\ b.items \in Seq(CanonicalItem)
      /\ DOMAIN a.items = 1..Len(a.items) /\ DOMAIN b.items = 1..Len(b.items)
      /\ Len(a.items) \in Nat /\ Len(b.items) \in Nat
  BY DEF CanonicalMissions
<1>3. ASSUME NEW i \in DOMAIN a.items, i \in DOMAIN b.items
      PROVE  text(a)[i] = text(b)[i] <=> alike(a.items[i], b.items[i])
  <2>1. a.items[i] \in CanonicalItem /\ b.items[i] \in CanonicalItem
    BY <1>2, <1>3
  <2>2. text(a)[i] = canonical_item(a.items[i])
    OBVIOUS
  <2>3. text(b)[i] = canonical_item(b.items[i])
    BY <1>3
  <2> QED BY <2>1, <2>2, <2>3, SerializedItem
<1>4. /\ DOMAIN text(a) = DOMAIN a.items /\ DOMAIN text(b) = DOMAIN b.items
      /\ text(a) = [i \in DOMAIN text(a) |-> text(a)[i]]
      /\ text(b) = [i \in DOMAIN text(b) |-> text(b)[i]]
  OBVIOUS
<1>5. compute_mission_hash(a) = compute_mission_hash(b) <=> text(a) = text(b)
  <2>1. compute_mission_hash(a) = [mission_type |-> type, items |-> text(a)]
    BY <1>1
  <2>2. compute_mission_hash(b) = [mission_type |-> type, items |-> text(b)]
    BY <1>1
  <2> HIDE DEF text
  <2> QED BY <2>1, <2>2
<1> HIDE DEF text, alike
<1>6. Len(a.items) = Len(b.items) <=> DOMAIN a.items = DOMAIN b.items
  BY <1>2
<1>7. text(a) = text(b)
        <=> /\ DOMAIN a.items = DOMAIN b.items
            /\ \A i \in DOMAIN a.items : alike(a.items[i], b.items[i])
  BY <1>3, <1>4
<1> QED BY <1>5, <1>6, <1>7, Zenon DEF alike

\* A no-op proposal has the hash of the committed mission.
LEMMA NoOpHash ==
  ASSUME NEW type, NEW a \in CanonicalMissions(type), NEW b \in CanonicalMissions(type),
         compute_mission_delta(a, b).no_op
  PROVE  compute_mission_hash(a) = compute_mission_hash(b)
<1>1. a.items \in Seq(CanonicalItem) /\ b.items \in Seq(CanonicalItem)
  BY DEF CanonicalMissions
<1>2. SameItems(a.items, b.items)
  BY <1>1, NoOpKeepsItems
<1> QED BY <1>2, SameHash DEF SameItems, Same, same_semantic_item, float_equal

\* No float of the mission is NaN.
FloatsAreNumbers(mission) ==
  \A i \in DOMAIN mission.items :
    mission.items[i].z # NaN /\ mission.items[i].param # NaN

\* Without a NaN, a proposal with the hash of the committed mission is a no-op.
LEMMA HashNoOp ==
  ASSUME NEW type, NEW a \in CanonicalMissions(type), NEW b \in CanonicalMissions(type),
         FloatsAreNumbers(a),
         compute_mission_hash(a) = compute_mission_hash(b)
  PROVE  compute_mission_delta(a, b).no_op
<1>1. a.items \in Seq(CanonicalItem) /\ b.items \in Seq(CanonicalItem)
  BY DEF CanonicalMissions
<1>2. ASSUME NEW v \in FloatValue, NEW w \in FloatValue,
             v # NaN, Unsigned(v) = Unsigned(w)
      PROVE  float_equal(v, w)
  BY <1>2, FloatAssumption DEF FloatValue, Unsigned, float_equal
<1>3. Len(a.items) = Len(b.items)
  BY SameHash
<1>4. ASSUME NEW i \in DOMAIN a.items PROVE Same(a.items, b.items, <<i, i>>)
  <2> DEFINE v == a.items[i]
             w == b.items[i]
  <2>1. v \in CanonicalItem /\ w \in CanonicalItem
    BY <1>1, <1>3
  <2>2. /\ v.z \in FloatValue /\ w.z \in FloatValue
        /\ v.param \in FloatValue /\ w.param \in FloatValue
    BY <2>1 DEF CanonicalItem
  <2>3. /\ v.command = w.command /\ v.frame = w.frame /\ v.x = w.x
        /\ Unsigned(v.z) = Unsigned(w.z) /\ v.z # NaN
        /\ Unsigned(v.param) = Unsigned(w.param) /\ v.param # NaN
    BY SameHash DEF FloatsAreNumbers
  <2>4. float_equal(v.z, w.z) /\ float_equal(v.param, w.param)
    <3> HIDE DEF v, w
    <3> QED BY <1>2, <2>2, <2>3
  <2>5. same_semantic_item(v, w)
    BY <2>3, <2>4 DEF same_semantic_item
  <2> QED BY <2>5 DEF Same
<1> QED BY <1>1, <1>3, <1>4, SameItemsNoOp DEF SameItems
=============================================================================
