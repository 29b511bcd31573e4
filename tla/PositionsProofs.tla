---------------------------- MODULE PositionsProofs ----------------------------
(***************************************************************************)
(* Facts about lists for every length: what a list of positions in order   *)
(* holds (module Positions), that a total order ranks a finite set without *)
(* gaps, and that a definition by recursion over a list exists and is      *)
(* reasoned about by induction.  The library states induction over an      *)
(* operator; here it is over a set of naturals, which the least-member     *)
(* theorem of WellFoundedInduction yields.                                 *)
(***************************************************************************)
EXTENDS Positions, Integers, Sequences, FiniteSetTheorems, FunctionTheorems, WellFoundedInduction, TLAPS

LEMMA MapletKey == \A key, value : (\A k : k \in DOMAIN Maplet(key, value) <=> k = key) /\ Maplet(key, value)[key] = value
  BY DEF Maplet

\* What stands in front decides.
LEMMA Over ==
  \A f, g : /\ \A k : k \in DOMAIN (f ++ g) <=> (k \in DOMAIN f \/ k \in DOMAIN g)
            /\ \A k \in DOMAIN f : (f ++ g)[k] = f[k]
            /\ \A k \in DOMAIN g : k \notin DOMAIN f => (f ++ g)[k] = g[k]
  BY DEF ++

(* Positions: finite sets of naturals listed in order.                      *)

\* A nonempty set of naturals has a least member.
LEMMA LeastNat ==
  ASSUME NEW T \in SUBSET Nat, T # {}
  PROVE  \E m \in T : \A x \in T : m <= x
<1>1. IsWellFoundedOn(OpToRel(<, Nat), Nat)
  BY NatLessThanWellFounded
<1>2. PICK m \in T : \A y \in T : ~(<<y, m>> \in OpToRel(<, Nat))
  BY <1>1, WFMin
<1>3. \A y \in T : ~(y < m)
  BY <1>2 DEF OpToRel
<1> QED  BY <1>3

\* Of a finite set I of positions, the members are ranked 1..Cardinality(I)
\* in their order.
LEMMA RankIsPosition ==
  ASSUME NEW I \in SUBSET Nat, IsFiniteSet(I), NEW i \in I
  PROVE  Rank(I, i) \in 1..Cardinality(I)
<1> DEFINE upTo == {j \in I : j <= i}
<1>1. upTo \in SUBSET I /\ i \in upTo
  OBVIOUS
<1>2. IsFiniteSet(upTo) /\ Cardinality(upTo) <= Cardinality(I)
  BY <1>1, FS_Subset
<1>3. Cardinality(upTo) \in Nat /\ Cardinality(upTo) # 0 /\ Cardinality(I) \in Nat
  BY <1>1, <1>2, FS_CardinalityType, FS_EmptySet
<1> QED  BY <1>2, <1>3 DEF Rank

\* A later member has a higher rank.
LEMMA RankFollowsOrder ==
  ASSUME NEW I \in SUBSET Nat, IsFiniteSet(I), NEW i \in I, NEW j \in I, i < j
  PROVE  Rank(I, i) < Rank(I, j)
<1> DEFINE upTo(n) == {m \in I : m <= n}
<1>0. i \in Nat /\ j \in Nat /\ \A m \in I : m \in Nat
  OBVIOUS
<1>1. /\ {m \in I : m <= i} \in SUBSET {m \in I : m <= j}
      /\ j \in {m \in I : m <= j} /\ j \notin {m \in I : m <= i}
  <2>1. \A m \in I : m <= i => m <= j
    BY <1>0
  <2>2. {m \in I : m <= i} \in SUBSET {m \in I : m <= j}
    BY <2>1, Zenon
  <2>3. j <= j /\ ~(j <= i)
    BY <1>0
  <2>4. j \in {m \in I : m <= j} /\ j \notin {m \in I : m <= i}
    BY <2>3, Zenon
  <2> QED  BY <2>2, <2>4
<1>2. IsFiniteSet(upTo(j))
  BY FS_Subset
<1>3. Cardinality(upTo(i)) <= Cardinality(upTo(j)) /\ Cardinality(upTo(i)) # Cardinality(upTo(j))
  BY <1>1, <1>2, FS_Subset
<1>4. Rank(I, i) \in 1..Cardinality(I) /\ Rank(I, j) \in 1..Cardinality(I) /\ Cardinality(I) \in Nat
  BY RankIsPosition, FS_CardinalityType
<1> QED  BY <1>3, <1>4 DEF Rank

\* No two members share a rank.
LEMMA RankInjective ==
  ASSUME NEW I \in SUBSET Nat, IsFiniteSet(I), NEW i \in I, NEW j \in I, Rank(I, i) = Rank(I, j)
  PROVE  i = j
<1>1. Rank(I, i) \in 1..Cardinality(I) /\ Cardinality(I) \in Nat
  BY RankIsPosition, FS_CardinalityType
<1>2. ~(i < j) /\ ~(j < i)
  BY <1>1, RankFollowsOrder
<1> QED  BY <1>2

\* The ranks leave no gap: there are as many as members.
LEMMA EveryRankIsTaken ==
  ASSUME NEW I \in SUBSET Nat, IsFiniteSet(I), NEW k \in 1..Cardinality(I)
  PROVE  \E i \in I : Rank(I, i) = k
<1> DEFINE n == Cardinality(I)
           f == [i \in I |-> Rank(I, i)]
<1>1. n \in Nat
  BY FS_CardinalityType
<1>2. f \in Injection(I, 1..n)
  <2>1. f \in [I -> 1..n] /\ \A i, j \in I : f[i] = f[j] => i = j
    BY RankIsPosition, RankInjective
  <2> QED  BY <2>1 DEF Injection, IsInjective
<1>3. IsFiniteSet(1..n) /\ Cardinality(1..n) = n
  BY <1>1, FS_Interval
<1>4. f \in Surjection(I, 1..n)
  BY <1>2, <1>3, FS_Injection
<1> QED  BY <1>4 DEF Surjection

\* Ascending lists the members of I, each at its rank.
LEMMA AscendingLists ==
  ASSUME NEW I \in SUBSET Nat, IsFiniteSet(I)
  PROVE  /\ DOMAIN Ascending(I) = 1..Cardinality(I)
         /\ \A k \in 1..Cardinality(I) : Ascending(I)[k] \in I /\ Rank(I, Ascending(I)[k]) = k
         /\ \A i \in I : Rank(I, i) \in 1..Cardinality(I) /\ Ascending(I)[Rank(I, i)] = i
         /\ \A k, l \in 1..Cardinality(I) : k < l => Ascending(I)[k] < Ascending(I)[l]
<1>1. \A k \in 1..Cardinality(I) : Ascending(I)[k] \in I /\ Rank(I, Ascending(I)[k]) = k
  BY EveryRankIsTaken DEF Ascending
<1>2. \A i \in I : Rank(I, i) \in 1..Cardinality(I) /\ Ascending(I)[Rank(I, i)] = i
  BY <1>1, RankIsPosition, RankInjective
<1>3. ASSUME NEW k \in 1..Cardinality(I), NEW l \in 1..Cardinality(I), k < l
      PROVE  Ascending(I)[k] < Ascending(I)[l]
  <2> DEFINE i == Ascending(I)[k]
             j == Ascending(I)[l]
  <2>1. i \in I /\ j \in I /\ Rank(I, i) = k /\ Rank(I, j) = l
    BY <1>1
  <2>2. Cardinality(I) \in Nat
    BY FS_CardinalityType
  <2>3. i # j /\ ~(j < i)
    <3>1. j < i => Rank(I, j) < Rank(I, i)
      BY <2>1, RankFollowsOrder
    <3> QED  BY <1>3, <2>1, <2>2, <3>1
  <2>4. i \in Nat /\ j \in Nat
    BY <2>1
  <2> HIDE DEF i, j
  <2>5. i < j
    BY <2>3, <2>4
  <2> QED  BY <2>5 DEF i, j
<1>4. DOMAIN Ascending(I) = 1..Cardinality(I)
  BY DEF Ascending
<1> QED  BY <1>1, <1>2, <1>3, <1>4

\* The first n members are at most n.
LEMMA FirstsAreFew ==
  ASSUME NEW I \in SUBSET Nat, IsFiniteSet(I), NEW n \in Nat
  PROVE  IsFiniteSet(Firsts(I, n)) /\ Cardinality(Firsts(I, n)) <= n
<1> DEFINE f == [i \in Firsts(I, n) |-> Rank(I, i)]
<1>1. \A i \in Firsts(I, n) : i \in I /\ Rank(I, i) \in 1..n
  BY RankIsPosition, FS_CardinalityType DEF Firsts
<1>2. f \in Injection(Firsts(I, n), 1..n)
  <2>1. f \in [Firsts(I, n) -> 1..n] /\ \A i, j \in Firsts(I, n) : f[i] = f[j] => i = j
    BY <1>1, RankInjective
  <2> QED  BY <2>1 DEF Injection, IsInjective
<1>3. IsFiniteSet(1..n) /\ Cardinality(1..n) = n
  BY FS_Interval
<1> QED  BY <1>2, <1>3, FS_Injection

\* The entries of a list at some of its positions are entries of the list.
LEMMA EntriesAreEntries ==
  ASSUME NEW S, NEW list \in Seq(S), NEW I \in SUBSET DOMAIN list
  PROVE  /\ IsFiniteSet(I) /\ I \in SUBSET Nat
         /\ Cardinality(I) \in Nat /\ Cardinality(I) <= Len(list)
         /\ Entries(list, I) \in Seq(S) /\ Len(Entries(list, I)) = Cardinality(I)
         /\ \A k \in 1..Cardinality(I) : Entries(list, I)[k] = list[Ascending(I)[k]] /\ Ascending(I)[k] \in I
         /\ \A i \in I : Rank(I, i) \in 1..Cardinality(I) /\ Entries(list, I)[Rank(I, i)] = list[i]
<1>1. Len(list) \in Nat /\ DOMAIN list = 1..Len(list) /\ \A i \in 1..Len(list) : list[i] \in S
  OBVIOUS
<1>2. IsFiniteSet(1..Len(list)) /\ Cardinality(1..Len(list)) = Len(list)
  BY <1>1, FS_Interval
<1>3. IsFiniteSet(I) /\ Cardinality(I) <= Len(list) /\ I \in SUBSET Nat
  BY <1>1, <1>2, FS_Subset
<1>4. Cardinality(I) \in Nat
  BY <1>3, FS_CardinalityType
<1>5. \A k \in 1..Cardinality(I) : Ascending(I)[k] \in I
  BY <1>3, AscendingLists
<1>6. \A i \in I : Rank(I, i) \in 1..Cardinality(I) /\ Ascending(I)[Rank(I, i)] = i
  BY <1>3, AscendingLists
<1>7. Entries(list, I) \in [1..Cardinality(I) -> S]
  BY <1>1, <1>5 DEF Entries
<1>8. Entries(list, I) \in Seq(S) /\ Len(Entries(list, I)) = Cardinality(I)
  BY <1>4, <1>7
<1>9. \A k \in 1..Cardinality(I) : Entries(list, I)[k] = list[Ascending(I)[k]]
  BY DEF Entries
<1> QED  BY <1>3, <1>4, <1>5, <1>6, <1>8, <1>9

\* The first members reach as far as the last of them, and are all of them
\* when there are fewer than asked for.
LEMMA FirstsReach ==
  ASSUME NEW I \in SUBSET Nat, IsFiniteSet(I), NEW n \in Nat
  PROVE  /\ Firsts(I, n) \in SUBSET I
         /\ \A i \in I, j \in Firsts(I, n) : i <= j => i \in Firsts(I, n)
         /\ Cardinality(Firsts(I, n)) # n => Firsts(I, n) = I
         /\ n # 0 /\ I # {} => Firsts(I, n) # {}
<1>1. \A i \in I : Rank(I, i) \in Nat /\ Rank(I, i) \in 1..Cardinality(I)
  BY RankIsPosition, FS_CardinalityType
<1>2. Cardinality(I) \in Nat
  BY FS_CardinalityType
<1>3. ASSUME NEW i \in I, NEW j \in Firsts(I, n), i <= j
      PROVE  i \in Firsts(I, n)
  <2>1. j \in I /\ Rank(I, j) <= n
    BY DEF Firsts
  <2>2. i = j \/ Rank(I, i) < Rank(I, j)
    BY <1>3, <2>1, RankFollowsOrder
  <2> QED  BY <1>1, <2>1, <2>2 DEF Firsts
<1>4. ASSUME Firsts(I, n) # I
      PROVE  Cardinality(Firsts(I, n)) = n
  <2>1. n < Cardinality(I)
    <3>1. PICK i \in I : ~(Rank(I, i) <= n)
      BY <1>4 DEF Firsts
    <3> QED  BY <1>1, <1>2, <3>1
  <2> DEFINE f == [k \in 1..n |-> Ascending(I)[k]]
             g == [i \in Firsts(I, n) |-> Rank(I, i)]
  <2>2. \A k \in 1..n : Ascending(I)[k] \in I /\ Rank(I, Ascending(I)[k]) = k
    <3>1. \A k \in 1..n : k \in 1..Cardinality(I)
      BY <1>2, <2>1
    <3> QED  BY <3>1, AscendingLists
  <2>3. IsFiniteSet(Firsts(I, n)) /\ Cardinality(Firsts(I, n)) <= n /\ Cardinality(Firsts(I, n)) \in Nat
    BY FirstsAreFew, FS_CardinalityType
  <2>4. f \in Injection(1..n, Firsts(I, n))
    <3>1. f \in [1..n -> Firsts(I, n)]
      BY <2>2 DEF Firsts
    <3>2. \A k, l \in 1..n : f[k] = f[l] => k = l
      BY <2>2
    <3> HIDE DEF f
    <3> QED  BY <3>1, <3>2 DEF Injection, IsInjective
  <2>5. IsFiniteSet(1..n) /\ Cardinality(1..n) = n
    BY FS_Interval
  <2>6. Cardinality(1..n) <= Cardinality(Firsts(I, n))
    BY <2>3, <2>4, FS_Injection
  <2> QED  BY <2>3, <2>5, <2>6
<1>5. ASSUME n # 0, I # {}
      PROVE  Firsts(I, n) # {}
  <2>1. Cardinality(I) # 0
    BY <1>5, FS_EmptySet
  <2>2. 1 \in 1..Cardinality(I)
    BY <1>2, <2>1
  <2>3. Ascending(I)[1] \in I /\ Rank(I, Ascending(I)[1]) = 1
    BY <2>2, AscendingLists
  <2> QED  BY <1>5, <2>3 DEF Firsts
<1> QED  BY <1>3, <1>4, <1>5 DEF Firsts

\* A page of a walk in order: the first n members, none twice, its last entry
\* the furthest (list_missing_geo).
LEMMA PageLists ==
  ASSUME NEW I \in SUBSET Nat, IsFiniteSet(I), NEW n \in Nat \ {0}
  PROVE  LET page == Ascending(Firsts(I, n))
         IN  /\ page \in Seq(I) /\ Len(page) \in Nat /\ DOMAIN page = 1..Len(page)
             /\ \A i, j \in DOMAIN page : page[i] = page[j] => i = j
             /\ page = << >> => I = {}
             /\ \A i \in DOMAIN page : page[i] <= page[Len(page)]
             /\ page # << >> => \A r \in I : r <= page[Len(page)] \/ Len(page) # n => \E i \in DOMAIN page : page[i] = r
<1> DEFINE F == Firsts(I, n)
           page == Ascending(F)
           m == Cardinality(F)
<1>1. F \in SUBSET I /\ F \in SUBSET Nat /\ IsFiniteSet(F) /\ m \in Nat
  BY FirstsReach, FirstsAreFew, FS_CardinalityType
<1>1a. /\ \A i \in I, j \in F : i <= j => i \in F
       /\ m # n => F = I
       /\ I # {} => F # {}
  BY FirstsReach
<1> HIDE DEF F
<1>2. /\ DOMAIN page = 1..m
      /\ \A k \in 1..m : page[k] \in F
      /\ \A i \in F : \E k \in 1..m : page[k] = i
      /\ \A k, l \in 1..m : k < l => page[k] < page[l]
  BY <1>1, AscendingLists
<1>3. page = [k \in 1..m |-> page[k]]
  BY DEF Ascending
<1>4. \A k \in 1..m : page[k] \in I /\ page[k] \in Nat
  BY <1>1, <1>2
<1> HIDE DEF page, m
<1>5. page \in Seq(I) /\ Len(page) = m
  <2>1. page \in [1..m -> I]
    BY <1>3, <1>4
  <2> QED  BY <1>1, <2>1
<1>6. \A i, j \in 1..m : page[i] = page[j] => i = j
  <2>1. \A i, j \in 1..m : i = j \/ i < j \/ j < i
    BY <1>1
  <2> QED  BY <1>2, <1>4, <2>1
<1>7. \A i \in 1..m : page[i] <= page[m]
  <2>1. \A i \in 1..m : m \in 1..m /\ (i = m \/ i < m)
    BY <1>1
  <2> QED  BY <1>2, <1>4, <2>1
<1>8. page = << >> => I = {}
  <2>1. page = << >> => m = 0
    BY <1>5
  <2>2. m = 0 => F = {}
    BY <1>2
  <2> QED  BY <1>1a, <2>1, <2>2
<1>9. ASSUME page # << >>, NEW r \in I, r <= page[m] \/ m # n
      PROVE  \E i \in 1..m : page[i] = r
  <2>1. m # 0
    BY <1>5, <1>9
  <2>2. page[m] \in F
    BY <1>1, <1>2, <2>1
  <2>3. r \in F
    BY <1>1a, <1>9, <2>2
  <2> QED  BY <1>2, <2>3
<1> QED  BY <1>1, <1>2, <1>5, <1>6, <1>7, <1>8, <1>9 DEF page, F

-----------------------------------------------------------------------------
(* Recursion and induction over the positions of a list.                    *)

\* A set of naturals that has 0 and with k - 1 also k has all up to n.
LEMMA SetInduction ==
  ASSUME NEW n \in Nat, NEW S, 0 \in S, \A k \in 1..n : k - 1 \in S => k \in S
  PROVE  \A k \in 0..n : k \in S
<1> DEFINE T == {k \in 0..n : k \notin S}
<1>1. SUFFICES ASSUME T # {} PROVE FALSE
  OBVIOUS
<1>2. T \in SUBSET Nat
  OBVIOUS
<1>3. PICK m \in T : \A x \in T : m <= x
  BY <1>1, <1>2, LeastNat
<1>4. m # 0 /\ m \in 1..n /\ m - 1 \in 0..n /\ ~(m <= m - 1)
  BY <1>3
<1>5. m - 1 \notin T
  BY <1>3, <1>4
<1> QED  BY <1>3, <1>4, <1>5

\* The steps of a loop over n entries that keeps its accumulator in T, and
\* its runs from a first value.
LoopBodies(n, T) == [1..n -> [T -> T]]
Runs(n, T, init, step) == {f \in [0..n -> T] : f[0] = init /\ \A k \in 1..n : f[k] = step[k][f[k - 1]]}

\* Such a loop has a run.
LEMMA RunExists ==
  ASSUME NEW n \in Nat, NEW T, NEW init \in T, NEW step \in LoopBodies(n, T)
  PROVE  \E f : f \in Runs(n, T, init, step)
<1> DEFINE Run(m, f) == f[0] = init /\ \A k \in 1..m : f[k] = step[k][f[k - 1]]
           S == {m \in 0..n : \E f \in [0..m -> T] : Run(m, f)}
<1>0. step \in [1..n -> [T -> T]]
  BY DEF LoopBodies
<1>1. 0 \in S
  <2> DEFINE g == [k \in 0..0 |-> init]
  <2>1. g \in [0..0 -> T]
    OBVIOUS
  <2>2. g[0] = init /\ \A k \in 1..0 : g[k] = step[k][g[k - 1]]
    OBVIOUS
  <2> HIDE DEF g
  <2>3. 0 \in 0..n
    OBVIOUS
  <2> QED  BY <2>1, <2>2, <2>3
<1>2. ASSUME NEW m \in 1..n, m - 1 \in S
      PROVE  m \in S
  <2>1. PICK f \in [0..(m - 1) -> T] : Run(m - 1, f)
    BY <1>2
  <2> DEFINE last == step[m][f[m - 1]]
             g == [k \in 0..m |-> IF k = m THEN last ELSE f[k]]
  <2>2. last \in T
    <3>1. f[m - 1] \in T
      BY <2>1
    <3> QED  BY <1>0, <3>1
  <2> HIDE DEF last
  <2>3. \A k \in 0..m : k # m => k \in 0..(m - 1)
    OBVIOUS
  <2>4. g \in [0..m -> T]
    BY <2>2, <2>3
  <2>5. g[0] = init
    BY <2>1
  <2>6. ASSUME NEW k \in 1..m
        PROVE  g[k] = step[k][g[k - 1]]
    <3>1. k - 1 \in 0..m /\ k - 1 # m /\ g[k - 1] = f[k - 1] /\ k \in 0..m
      OBVIOUS
    <3>2. CASE k = m
      BY <3>1, <3>2 DEF last
    <3>3. CASE k # m
      <4>1. k \in 1..(m - 1) /\ g[k] = f[k]
        BY <3>1, <3>3
      <4> QED  BY <2>1, <3>1, <4>1
    <3> QED  BY <3>2, <3>3
  <2> HIDE DEF g
  <2>7. Run(m, g)
    BY <2>5, <2>6
  <2>8. m \in 0..n
    OBVIOUS
  <2> HIDE DEF Run
  <2> QED  BY <2>4, <2>7, <2>8
<1>3. \A k \in 0..n : k \in S
  <2> HIDE DEF S
  <2> QED  BY <1>1, <1>2, SetInduction
<1> QED  BY <1>3 DEF Runs

-----------------------------------------------------------------------------
(* Sorting: a strict total order R on a finite set.                         *)

IsStrictOrder(R, S) ==
    /\ \A i \in S : <<i, i>> \notin R
    /\ \A i, j, k \in S : <<i, j>> \in R /\ <<j, k>> \in R => <<i, k>> \in R
    /\ \A i, j \in S : i = j \/ <<i, j>> \in R \/ <<j, i>> \in R
Below(R, S, i) == {j \in S : <<j, i>> \in R}

\* Fewer members come before an earlier one.
LEMMA EarlierHasFewerBelow ==
  ASSUME NEW S, IsFiniteSet(S), NEW R, IsStrictOrder(R, S), NEW i \in S, NEW j \in S, <<i, j>> \in R
  PROVE  Cardinality(Below(R, S, i)) < Cardinality(Below(R, S, j))
<1>1. Below(R, S, i) \in SUBSET Below(R, S, j) /\ i \in Below(R, S, j) /\ i \notin Below(R, S, i)
  BY DEF Below, IsStrictOrder
<1>2. IsFiniteSet(Below(R, S, j)) /\ IsFiniteSet(Below(R, S, i))
  <2>1. Below(R, S, j) \in SUBSET S /\ Below(R, S, i) \in SUBSET S
    BY DEF Below
  <2> QED  BY <2>1, FS_Subset
<1>3. /\ Cardinality(Below(R, S, i)) <= Cardinality(Below(R, S, j))
      /\ Cardinality(Below(R, S, i)) # Cardinality(Below(R, S, j))
  BY <1>1, <1>2, FS_Subset
<1>4. Cardinality(Below(R, S, i)) \in Nat /\ Cardinality(Below(R, S, j)) \in Nat
  BY <1>2, FS_CardinalityType
<1> QED  BY <1>3, <1>4

\* The numbers of members before one are 0 .. n - 1, each once.
LEMMA OrderRanks ==
  ASSUME NEW S, IsFiniteSet(S), NEW R, IsStrictOrder(R, S)
  PROVE  /\ \A i \in S : Cardinality(Below(R, S, i)) \in 0..(Cardinality(S) - 1)
         /\ \A i, j \in S : Cardinality(Below(R, S, i)) = Cardinality(Below(R, S, j)) => i = j
         /\ \A k \in 0..(Cardinality(S) - 1) : \E i \in S : Cardinality(Below(R, S, i)) = k
<1> DEFINE n == Cardinality(S)
           f == [i \in S |-> Cardinality(Below(R, S, i))]
<1>0. n \in Nat
  BY FS_CardinalityType
<1>1. ASSUME NEW i \in S
      PROVE  Cardinality(Below(R, S, i)) \in 0..(n - 1)
  <2>1. Below(R, S, i) \in SUBSET S /\ i \notin Below(R, S, i)
    BY DEF Below, IsStrictOrder
  <2>2. IsFiniteSet(Below(R, S, i)) /\ Cardinality(Below(R, S, i)) <= n /\ Cardinality(Below(R, S, i)) # n
    BY <2>1, FS_Subset
  <2>3. Cardinality(Below(R, S, i)) \in Nat
    BY <2>2, FS_CardinalityType
  <2> QED  BY <1>0, <2>2, <2>3
<1>2. ASSUME NEW i \in S, NEW j \in S, Cardinality(Below(R, S, i)) = Cardinality(Below(R, S, j))
      PROVE  i = j
  <2>1. Cardinality(Below(R, S, i)) \in Nat /\ Cardinality(Below(R, S, j)) \in Nat
    BY <1>0, <1>1
  <2>2. <<i, j>> \notin R /\ <<j, i>> \notin R
    BY <1>2, <2>1, EarlierHasFewerBelow
  <2> QED  BY <2>2 DEF IsStrictOrder
<1>3. f \in Injection(S, 0..(n - 1))
  <2>1. f \in [S -> 0..(n - 1)] /\ \A i, j \in S : f[i] = f[j] => i = j
    BY <1>1, <1>2
  <2> QED  BY <2>1 DEF Injection, IsInjective
<1>4. IsFiniteSet(0..(n - 1)) /\ Cardinality(0..(n - 1)) = n
  BY <1>0, FS_Interval
<1>5. f \in Surjection(S, 0..(n - 1))
  BY <1>3, <1>4, FS_Injection
<1>6. \A k \in 0..(n - 1) : \E i \in S : f[i] = k
  BY <1>5 DEF Surjection
<1> QED  BY <1>1, <1>2, <1>6
=============================================================================
