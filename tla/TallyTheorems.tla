--------------------------- MODULE TallyTheorems ---------------------------
(***************************************************************************)
(* The least of a set of naturals and induction over one, both stated of   *)
(* a set; then the laws of Tally that the proofs about money and seats     *)
(* need: its type, the tally of the zero function, and how it changes with *)
(* one value of the function.                                              *)
(***************************************************************************)
EXTENDS Tally, FiniteSetTheorems, TLAPS

(* Every set of naturals that is not empty has a minimal element of a      *)
(* well-founded relation; the natural order is one such relation.          *)
LEMMA MinimalElement ==
    ASSUME NEW R, IsWellFoundedOn(R, Nat), NEW T, T \subseteq Nat, T # {}
    PROVE  \E x \in T : \A y \in T : ~ (<<y, x>> \in R)
BY WFMin, Zenon

LEMMA OrderOfNaturals ==
    \E R : /\ IsWellFoundedOn(R, Nat)
          /\ \A x, y \in Nat : x < y => <<x, y>> \in R
<1>1. \A x, y \in Nat : x < y => <<x, y>> \in OpToRel(<, Nat)
    BY Zenon DEF OpToRel
<1>2. QED
    BY <1>1, NatLessThanWellFounded, Zenon

(* So a set of naturals that is not empty has a least one. *)
LEMMA LeastNatural ==
    ASSUME NEW T, T \subseteq Nat, T # {}
    PROVE  \E x \in T : \A y \in T : x <= y
<1>1. PICK R : /\ IsWellFoundedOn(R, Nat)
               /\ \A x, y \in Nat : x < y => <<x, y>> \in R
    BY OrderOfNaturals, Zenon
<1>2. PICK x \in T : \A y \in T : ~ (<<y, x>> \in R)
    BY <1>1, MinimalElement, Zenon
<1>3. ASSUME NEW y \in T
      PROVE  x <= y
    <2>1. x \in Nat /\ y \in Nat
        OBVIOUS
    <2>2. ~ (y < x)
        BY <1>1, <1>2, <2>1, Zenon
    <2>3. QED
        BY <2>1, <2>2
<1>4. QED
    BY <1>3

(* Induction over the naturals, stated for a set instead of a predicate:   *)
(* a set with 0 that has n + 1 whenever it has n has every natural number. *)
(* A counterexample would have a least one, whose predecessor is in.       *)
LEMMA SetInduction ==
    ASSUME NEW S, 0 \in S, \A n \in Nat : n \in S => n + 1 \in S
    PROVE  \A n \in Nat : n \in S
<1>1. SUFFICES ASSUME {n \in Nat : n \notin S} # {} PROVE FALSE
    OBVIOUS
<1>2. PICK R : /\ IsWellFoundedOn(R, Nat)
               /\ \A x, y \in Nat : x < y => <<x, y>> \in R
    BY OrderOfNaturals, Zenon
<1>3. PICK x \in {n \in Nat : n \notin S} :
          \A y \in {n \in Nat : n \notin S} : ~ (<<y, x>> \in R)
    <2>1. {n \in Nat : n \notin S} \subseteq Nat
        OBVIOUS
    <2>2. QED
        BY <1>1, <1>2, <2>1, MinimalElement, Zenon
<1>4. x \in Nat \ {0} /\ x - 1 \in Nat /\ x - 1 < x /\ (x - 1) + 1 = x
    BY <1>3
<1>5. x - 1 \in {n \in Nat : n \notin S}
    BY <1>3, <1>4
<1>6. QED
    BY <1>2, <1>3, <1>4, <1>5

(* The units of a bounded function over a finite set are finitely many. *)
LEMMA UnitsFinite ==
    ASSUME NEW S, IsFiniteSet(S), NEW M \in Nat, NEW f \in [S -> 0..M]
    PROVE  IsFiniteSet(Units(f, S, M))
<1>1. IsFiniteSet(1..M)
    BY FS_Interval
<1>2. IsFiniteSet(S \X (1..M))
    BY <1>1, FS_Product
<1>3. Units(f, S, M) \in SUBSET (S \X (1..M))
    BY DEF Units
<1>4. QED
    BY <1>2, <1>3, FS_Subset

(* A tally is a natural number. *)
LEMMA TallyType ==
    ASSUME NEW S, IsFiniteSet(S), NEW M \in Nat, NEW f \in [S -> 0..M]
    PROVE  Tally(f, S, M) \in Nat
BY UnitsFinite, FS_CardinalityType DEF Tally

(* The zero function tallies to zero. *)
LEMMA TallyZero ==
    ASSUME NEW S, NEW M \in Nat
    PROVE  Tally([x \in S |-> 0], S, M) = 0
<1>1. Units([x \in S |-> 0], S, M) = {}
    BY DEF Units
<1>2. QED
    BY <1>1, FS_EmptySet DEF Tally

(* A column of n units has n of them. *)
LEMMA ColumnSize ==
    ASSUME NEW x, NEW n \in Nat
    PROVE  IsFiniteSet({x} \X (1..n)) /\ Cardinality({x} \X (1..n)) = n
<1>1. IsFiniteSet({x}) /\ Cardinality({x}) = 1
    BY FS_Singleton
<1>2. IsFiniteSet(1..n) /\ Cardinality(1..n) = n
    <2>1. 1 \in Int /\ n \in Int
        OBVIOUS
    <2>2. /\ IsFiniteSet(1..n)
          /\ Cardinality(1..n) = IF 1 > n THEN 0 ELSE n - 1 + 1
        BY <2>1, FS_Interval
    <2>3. QED
        BY <2>2
<1>3. /\ IsFiniteSet({x} \X (1..n))
      /\ Cardinality({x} \X (1..n)) = Cardinality({x}) * Cardinality(1..n)
    BY <1>1, <1>2, FS_Product, Zenon
<1>4. QED
    BY <1>1, <1>2, <1>3

(* Replacing a part of a finite set by something disjoint from the rest. *)
LEMMA ReplacePart ==
    ASSUME NEW A, IsFiniteSet(A), NEW old, old \subseteq A, IsFiniteSet(old),
           NEW new, IsFiniteSet(new), (A \ old) \cap new = {}
    PROVE  Cardinality((A \ old) \cup new)
               = Cardinality(A) - Cardinality(old) + Cardinality(new)
<1>1. A \cap old = old
    OBVIOUS
<1>2. /\ IsFiniteSet(A \ old)
      /\ Cardinality(A \ old) = Cardinality(A) - Cardinality(A \cap old)
    BY FS_Difference
<1>3. Cardinality((A \ old) \cup new)
          = Cardinality(A \ old) + Cardinality(new) - Cardinality((A \ old) \cap new)
    BY <1>2, FS_Union
<1>4. Cardinality((A \ old) \cap new) = 0
    BY FS_EmptySet
<1>5. /\ Cardinality(A) \in Nat
      /\ Cardinality(old) \in Nat
      /\ Cardinality(new) \in Nat
    BY FS_CardinalityType
<1>6. Cardinality(A \ old) = Cardinality(A) - Cardinality(old)
    BY <1>1, <1>2, Zenon
<1>7. QED
    BY <1>3, <1>4, <1>5, <1>6

(* Two functions that agree except at x differ in their tally by what they *)
(* differ by at x.                                                         *)
DiffersAt(f, g, x, S, M) ==
    Tally(g, S, M) = Tally(f, S, M) - f[x] + g[x]

LEMMA TallyAt ==
    ASSUME NEW S, IsFiniteSet(S), NEW M \in Nat,
           NEW f \in [S -> 0..M], NEW g \in [S -> 0..M], NEW x \in S,
           \A y \in S : y # x => g[y] = f[y]
    PROVE  DiffersAt(f, g, x, S, M)
<1> DEFINE v == g[x]
           old == {x} \X (1..f[x])
           new == {x} \X (1..v)
<1>1. f[x] \in 0..M /\ f[x] \in Nat /\ v \in Nat
    OBVIOUS
<1>2. g[x] = v /\ v \in 0..M /\ \A y \in S : y # x => g[y] = f[y]
    OBVIOUS
<1>3. /\ IsFiniteSet(old) /\ Cardinality(old) = f[x]
      /\ IsFiniteSet(new) /\ Cardinality(new) = v
    BY <1>1, ColumnSize
<1>4. IsFiniteSet(Units(f, S, M))
    BY UnitsFinite
<1>5. old \subseteq Units(f, S, M)
    BY <1>1 DEF Units
<1>6. (Units(f, S, M) \ old) \cap new = {}
    <2> SUFFICES ASSUME NEW u \in Units(f, S, M), u \notin old, u \in new
                 PROVE  FALSE
        OBVIOUS
    <2>1. u[1] = x /\ u = <<u[1], u[2]>> /\ u[2] \in 1..M /\ u[2] <= f[u[1]]
        BY DEF Units
    <2>2. QED
        BY <1>1, <2>1
<1>7. Units(g, S, M) = (Units(f, S, M) \ old) \cup new
    <2>1. ASSUME NEW y \in S, NEW i \in 1..M
          PROVE  <<y, i>> \in Units(g, S, M)
                     <=> <<y, i>> \in (Units(f, S, M) \ old) \cup new
        <3>1. CASE y = x
            BY <1>1, <1>2, <3>1 DEF Units
        <3>2. CASE y # x
            BY <1>2, <3>2 DEF Units
        <3>3. QED
            BY <3>1, <3>2
    <2>2. new \subseteq S \X (1..M)
        BY <1>1
    <2>3. /\ Units(g, S, M) \subseteq S \X (1..M)
          /\ Units(f, S, M) \subseteq S \X (1..M)
        BY DEF Units
    <2>4. ASSUME NEW u \in S \X (1..M)
          PROVE  u \in Units(g, S, M)
                     <=> u \in (Units(f, S, M) \ old) \cup new
        <3>1. u = <<u[1], u[2]>> /\ u[1] \in S /\ u[2] \in 1..M
            OBVIOUS
        <3> HIDE DEF v, old, new
        <3>2. <<u[1], u[2]>> \in Units(g, S, M)
                  <=> <<u[1], u[2]>> \in (Units(f, S, M) \ old) \cup new
            BY <2>1, <3>1, Zenon
        <3>3. QED
            BY <3>1, <3>2, Zenon
    <2> HIDE DEF v, old, new
    <2>5. QED
        BY <2>2, <2>3, <2>4, Zenon
<1> HIDE DEF v, old, new
<1>8. Cardinality((Units(f, S, M) \ old) \cup new)
          = Cardinality(Units(f, S, M)) - Cardinality(old) + Cardinality(new)
    BY <1>3, <1>4, <1>5, <1>6, ReplacePart
<1>9. QED
    BY <1>3, <1>7, <1>8 DEF Tally, DiffersAt, v

(* A tally sees nothing of the function outside its set. *)
LEMMA TallyAgree ==
    ASSUME NEW S, NEW M \in Nat, NEW f, NEW g, \A x \in S : f[x] = g[x]
    PROVE  Tally(f, S, M) = Tally(g, S, M)
<1>1. \A u \in S \X (1..M) : f[u[1]] = g[u[1]]
    OBVIOUS
<1>2. Units(f, S, M) = Units(g, S, M)
    BY <1>1 DEF Units
<1>3. QED
    BY <1>2 DEF Tally

(* Disjoint sets add up. *)
LEMMA TallySplit ==
    ASSUME NEW S, IsFiniteSet(S), NEW T, IsFiniteSet(T), S \cap T = {},
           NEW M \in Nat, NEW f, \A x \in S \cup T : f[x] \in 0..M
    PROVE  Tally(f, S \cup T, M) = Tally(f, S, M) + Tally(f, T, M)
<1>1. IsFiniteSet(S \X (1..M)) /\ IsFiniteSet(T \X (1..M))
    <2>1. IsFiniteSet(1..M)
        BY FS_Interval
    <2>2. QED
        BY <2>1, FS_Product
<1>2. IsFiniteSet(Units(f, S, M)) /\ IsFiniteSet(Units(f, T, M))
    <2>1. /\ Units(f, S, M) \in SUBSET (S \X (1..M))
          /\ Units(f, T, M) \in SUBSET (T \X (1..M))
        BY DEF Units
    <2>2. QED
        BY <1>1, <2>1, FS_Subset
<1>3. Units(f, S \cup T, M) = Units(f, S, M) \cup Units(f, T, M)
    BY DEF Units
<1>4. Units(f, S, M) \cap Units(f, T, M) = {}
    BY DEF Units
<1>5. Cardinality(Units(f, S, M) \cup Units(f, T, M))
          = Cardinality(Units(f, S, M)) + Cardinality(Units(f, T, M))
                - Cardinality(Units(f, S, M) \cap Units(f, T, M))
    BY <1>2, FS_Union
<1>6. Cardinality(Units(f, S, M) \cap Units(f, T, M)) = 0
    BY <1>4, FS_EmptySet
<1>7. /\ Cardinality(Units(f, S, M)) \in Nat
      /\ Cardinality(Units(f, T, M)) \in Nat
    BY <1>2, FS_CardinalityType
<1>8. Cardinality(Units(f, S \cup T, M))
          = Cardinality(Units(f, S, M)) + Cardinality(Units(f, T, M))
                - Cardinality(Units(f, S, M) \cap Units(f, T, M))
    BY <1>3, <1>5, Zenon
<1>9. QED
    BY <1>6, <1>7, <1>8 DEF Tally

(* Nothing tallies to zero, and where every value counts only nothing does. *)
LEMMA TallyOfNothing ==
    ASSUME NEW M \in Nat, NEW f
    PROVE  Tally(f, {}, M) = 0
<1>1. Units(f, {}, M) = {}
    BY DEF Units
<1>2. QED
    BY <1>1, FS_EmptySet DEF Tally

LEMMA TallyIsZero ==
    ASSUME NEW S, IsFiniteSet(S), NEW M \in Nat, NEW f \in [S -> 1..M],
           Tally(f, S, M) = 0
    PROVE  S = {}
<1>1. f \in [S -> 0..M]
    OBVIOUS
<1>2. Units(f, S, M) = {}
    BY <1>1, UnitsFinite, FS_EmptySet DEF Tally
<1>3. \A x \in S : <<x, 1>> \in Units(f, S, M)
    BY DEF Units
<1>4. QED
    BY <1>2, <1>3

(* One element more. *)
LEMMA TallyOfOne ==
    ASSUME NEW x, NEW M \in Nat, NEW f, f[x] \in 0..M
    PROVE  Tally(f, {x}, M) = f[x]
<1>1. f[x] \in Nat
    OBVIOUS
<1>2. Units(f, {x}, M) = {x} \X (1..f[x])
    BY DEF Units
<1>3. Cardinality({x} \X (1..f[x])) = f[x]
    BY <1>1, ColumnSize
<1>4. QED
    BY <1>2, <1>3 DEF Tally

(* Renaming the elements changes no tally. *)
LEMMA TallyRename ==
    ASSUME NEW S, IsFiniteSet(S), NEW T, NEW M \in Nat,
           NEW h \in [S -> T], \A x, y \in S : h[x] = h[y] => x = y,
           \A t \in T : \E x \in S : t = h[x],
           NEW f \in [S -> 0..M], NEW g, \A x \in S : g[h[x]] = f[x]
    PROVE  Tally(g, T, M) = Tally(f, S, M)
<1> DEFINE U == Units(f, S, M)
           V == Units(g, T, M)
           b == [u \in U |-> <<h[u[1]], u[2]>>]
<1>1. IsFiniteSet(U)
    BY UnitsFinite
<1>2. \A u \in U : u = <<u[1], u[2]>> /\ u[1] \in S /\ u[2] \in 1..M /\ u[2] <= f[u[1]]
    BY DEF Units
<1>3. b \in [U -> V]
    <2>1. \A u \in U : <<h[u[1]], u[2]>> \in V
        BY <1>2 DEF Units
    <2>2. QED
        BY <2>1
<1>4. \A u, v \in U : b[u] = b[v] => u = v
    BY <1>2
<1>5. \A v \in V : \E u \in U : b[u] = v
    <2> SUFFICES ASSUME NEW v \in V
                 PROVE  \E u \in U : b[u] = v
        OBVIOUS
    <2>1. v = <<v[1], v[2]>> /\ v[1] \in T /\ v[2] \in 1..M /\ v[2] <= g[v[1]]
        BY DEF Units
    <2>2. PICK x \in S : v[1] = h[x]
        BY <2>1
    <2>3. <<x, v[2]>> \in U
        BY <2>1, <2>2 DEF Units
    <2>4. b[<<x, v[2]>>] = v
        BY <2>1, <2>2, <2>3
    <2>5. QED
        BY <2>3, <2>4
<1>6. ExistsBijection(U, V)
    <2> HIDE DEF U, V, b
    <2>1. b \in Injection(U, V) /\ b \in Surjection(U, V)
        BY <1>3, <1>4, <1>5 DEF Injection, Surjection, IsInjective
    <2>2. QED
        BY <2>1 DEF ExistsBijection, Bijection
<1>7. QED
    BY <1>1, <1>6, FS_Bijection DEF Tally
=============================================================================
