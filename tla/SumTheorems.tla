------------------------------ MODULE SumTheorems ------------------------------
(***************************************************************************)
(* Facts about numbers, finite sets and the sums over them                 *)
(* (SumFunctionOnSet) that the proofs share: induction, for a set in place *)
(* of a predicate; that a sum depends neither on the order in which its    *)
(* terms are taken nor on what they are called; and that the ranks in a    *)
(* finite total order number its elements.                                 *)
(***************************************************************************)
EXTENDS Integers, FiniteSetsExt, FiniteSetTheorems, WellFoundedInduction, TLAPS

-----------------------------------------------------------------------------
(* Induction.                                                              *)

(* Numbers of a set have a least one.                                      *)
LEMMA Least ==
  ASSUME NEW S, S \subseteq Nat, S # {}
  PROVE  \E n \in S : \A m \in S : n <= m
  <1>1. IsWellFoundedOn(OpToRel(<, Nat), Nat)
    BY NatLessThanWellFounded
  <1>2. PICK n \in S : \A m \in S : ~(<<m, n>> \in OpToRel(<, Nat))
    BY <1>1, WFMin
  <1>3. \A m \in S : ~(m < n)
    BY <1>2 DEF OpToRel
  <1>4. QED
    BY <1>3

(* Induction over the natural numbers, for a set.                          *)
LEMMA SetInduction ==
  ASSUME NEW S, 0 \in S, \A n \in Nat : n \in S => n + 1 \in S
  PROVE  Nat \subseteq S
  <1>1. SUFFICES ASSUME Nat \ S # {} PROVE FALSE
    OBVIOUS
  <1>2. PICK x \in Nat \ S : \A y \in Nat \ S : x <= y
    BY <1>1, Least
  <1>3. x # 0 /\ x - 1 \in Nat
    OBVIOUS
  <1>4. x - 1 \in S
    BY <1>2, <1>3
  <1>5. QED
    BY <1>3, <1>4

(* Induction over the finite subsets of a set.                             *)
LEMMA FiniteInduction ==
  ASSUME NEW U, IsFiniteSet(U), NEW P, {} \in P,
         \A S \in SUBSET U : S # {} /\ (\A x \in S : S \ {x} \in P) => S \in P
  PROVE  U \in P
  <1> DEFINE Sized(n) == {S \in SUBSET U : Cardinality(S) = n}
             N == {n \in Nat : Sized(n) \subseteq P}
  <1>1. \A S \in SUBSET U : IsFiniteSet(S) /\ Cardinality(S) \in Nat
    BY FS_Subset, FS_CardinalityType
  <1>2. 0 \in N
    <2>1. \A S \in SUBSET U : Cardinality(S) = 0 => S = {}
      BY <1>1, FS_EmptySet
    <2>2. QED
      BY <2>1
  <1>3. ASSUME NEW n \in Nat, n \in N PROVE n + 1 \in N
    <2>1. ASSUME NEW S \in SUBSET U, Cardinality(S) = n + 1 PROVE S \in P
      <3>1. S # {}
        BY <1>1, <2>1, FS_EmptySet
      <3>2. ASSUME NEW x \in S PROVE S \ {x} \in P
        <4>1. IsFiniteSet(S)
          BY <1>1
        <4>2. Cardinality(S \ {x}) = Cardinality(S) - 1
          BY <4>1, FS_RemoveElement
        <4>3. Cardinality(S \ {x}) = n
          BY <2>1, <4>2
        <4>4. QED
          BY <1>3, <4>3
      <3>3. QED
        BY <3>1, <3>2
    <2>2. QED
      BY <2>1
  <1> HIDE DEF N
  <1>4. Nat \subseteq N
    BY <1>2, <1>3, SetInduction
  <1>5. Cardinality(U) \in N
    BY <1>1, <1>4
  <1>6. QED
    BY <1>5 DEF N

-----------------------------------------------------------------------------
(* Sums.                                                                   *)

(* The recursion behind SumFunctionOnSet.                                  *)
Chosen(s) == CHOOSE x \in s : TRUE
SumStep(f, g, s) == IF s = {} THEN 0 ELSE f[Chosen(s)] + g[s \ {Chosen(s)}]
SumTable(f, S) == CHOOSE g : g = [s \in SUBSET S |-> SumStep(f, g, s)]

LEMMA SumIsInTable ==
  ASSUME NEW f, NEW S
  PROVE  SumFunctionOnSet(f, S) = SumTable(f, S)[S]
  BY DEF SumFunctionOnSet, FoldFunctionOnSet, MapThenFoldSet, SumTable, SumStep, Chosen

(* The table exists.                                                       *)
LEMMA TableFacts ==
  ASSUME NEW f, NEW U, IsFiniteSet(U)
  PROVE  \A s \in SUBSET U : SumTable(f, U)[s] = SumStep(f, SumTable(f, U), s)
  <1> DEFINE D(n) == {s \in SUBSET U : Cardinality(s) <= n}
             Has(n) == \E g : g = [s \in D(n) |-> SumStep(f, g, s)]
             N == {n \in Nat : Has(n)}
  <1>1. \A s \in SUBSET U : /\ IsFiniteSet(s) /\ Cardinality(s) \in Nat
                            /\ Cardinality(s) <= Cardinality(U)
    BY FS_Subset, FS_CardinalityType
  <1>2. Has(0)
    <2> DEFINE g == [s \in D(0) |-> 0]
    <2>1. \A s \in D(0) : s = {}
      BY <1>1, FS_EmptySet
    <2>2. \A s \in D(0) : SumStep(f, g, s) = 0
      BY <2>1 DEF SumStep
    <2> HIDE DEF D
    <2>3. g = [s \in D(0) |-> SumStep(f, g, s)]
      BY <2>2
    <2>4. QED
      BY <2>3
  <1>3. ASSUME NEW n \in Nat, Has(n) PROVE Has(n + 1)
    <2>1. PICK g : g = [s \in D(n) |-> SumStep(f, g, s)]
      BY <1>3
    <2> DEFINE h == [s \in D(n + 1) |-> SumStep(f, g, s)]
    <2>2. \A s \in D(n) : s \in D(n + 1)
      BY <1>1
    <2>3. ASSUME NEW s \in D(n + 1), s # {} PROVE s \ {Chosen(s)} \in D(n)
      <3>1. Chosen(s) \in s
        BY <2>3 DEF Chosen
      <3>2. s \in SUBSET U /\ Cardinality(s) <= n + 1 /\ IsFiniteSet(s) /\ Cardinality(s) \in Nat
        BY <1>1
      <3>3. Cardinality(s \ {Chosen(s)}) = Cardinality(s) - 1
        BY <3>1, <3>2, FS_RemoveElement
      <3>4. QED
        BY <3>2, <3>3
    <2> HIDE DEF D
    <2>4. \A s \in D(n) : h[s] = g[s]
      <3>1. \A s \in D(n) : g[s] = SumStep(f, g, s)
        BY <2>1
      <3>2. QED
        BY <2>2, <3>1
    <2> HIDE DEF h
    <2>5. \A s \in D(n + 1) : SumStep(f, g, s) = SumStep(f, h, s)
      BY <2>3, <2>4 DEF SumStep
    <2>6. h = [s \in D(n + 1) |-> SumStep(f, h, s)]
      BY <2>5 DEF h
    <2>7. QED
      BY <2>6
  <1> HIDE DEF Has
  <1>4. 0 \in N /\ \A n \in Nat : n \in N => n + 1 \in N
    BY <1>2, <1>3
  <1>5. Nat \subseteq N
    <2> HIDE DEF N
    <2>1. QED
      BY <1>4, SetInduction
  <1>6. Has(Cardinality(U))
    BY <1>1, <1>5
  <1>7. D(Cardinality(U)) = SUBSET U
    BY <1>1
  <1>8. \E g : g = [s \in SUBSET U |-> SumStep(f, g, s)]
    <2> HIDE DEF D
    <2>1. QED
      BY <1>6, <1>7 DEF Has
  <1> DEFINE t == SumTable(f, U)
  <1>9. t = [s \in SUBSET U |-> SumStep(f, t, s)]
    BY <1>8 DEF SumTable
  <1> HIDE DEF t
  <1>10. \A s \in SUBSET U : t[s] = SumStep(f, t, s)
    BY <1>9
  <1>11. QED
    BY <1>10 DEF t

(* A table for a set holds the sums over its subsets.                      *)
LEMMA TableHoldsSums ==
  ASSUME NEW f, NEW U, IsFiniteSet(U)
  PROVE  \A S \in SUBSET U : SumTable(f, U)[S] = SumFunctionOnSet(f, S)
  <1> SUFFICES ASSUME NEW S \in SUBSET U
               PROVE  SumTable(f, U)[S] = SumFunctionOnSet(f, S)
    OBVIOUS
  <1> DEFINE P == {T \in SUBSET S : SumTable(f, U)[T] = SumTable(f, S)[T]}
  <1>1. IsFiniteSet(S)
    BY FS_Subset
  <1>2. /\ \A T \in SUBSET S : SumTable(f, U)[T] = SumStep(f, SumTable(f, U), T)
        /\ \A T \in SUBSET S : SumTable(f, S)[T] = SumStep(f, SumTable(f, S), T)
    <2>1. \A T \in SUBSET U : SumTable(f, U)[T] = SumStep(f, SumTable(f, U), T)
      BY TableFacts
    <2>2. \A T \in SUBSET S : SumTable(f, S)[T] = SumStep(f, SumTable(f, S), T)
      BY <1>1, TableFacts
    <2>3. QED
      BY <2>1, <2>2
  <1>3. {} \in P
    BY <1>2 DEF SumStep
  <1>4. ASSUME NEW T \in SUBSET S, T # {}, \A x \in T : T \ {x} \in P PROVE T \in P
    <2>1. Chosen(T) \in T
      BY <1>4 DEF Chosen
    <2>2. SumTable(f, U)[T \ {Chosen(T)}] = SumTable(f, S)[T \ {Chosen(T)}]
      BY <1>4, <2>1
    <2>3. QED
      BY <1>2, <1>4, <2>2 DEF SumStep
  <1>5. S \in P
    <2> HIDE DEF P
    <2>1. QED
      BY <1>1, <1>3, <1>4, FiniteInduction
  <1>6. QED
    BY <1>5, SumIsInTable

LEMMA SumEmpty ==
  ASSUME NEW f
  PROVE  SumFunctionOnSet(f, {}) = 0
  <1>1. SumTable(f, {})[{}] = SumStep(f, SumTable(f, {}), {})
    BY FS_EmptySet, TableFacts
  <1>2. QED
    BY <1>1, SumIsInTable DEF SumStep

LEMMA SumAny ==
  ASSUME NEW f, NEW S, IsFiniteSet(S), S # {}
  PROVE  SumFunctionOnSet(f, S) = f[Chosen(S)] + SumFunctionOnSet(f, S \ {Chosen(S)})
  <1>1. SumTable(f, S)[S] = SumStep(f, SumTable(f, S), S)
    BY TableFacts
  <1>2. SumTable(f, S)[S \ {Chosen(S)}] = SumFunctionOnSet(f, S \ {Chosen(S)})
    BY TableHoldsSums
  <1>3. QED
    BY <1>1, <1>2, SumIsInTable DEF SumStep

IntOn(f, S) == \A x \in S : f[x] \in Int

LEMMA SumType ==
  ASSUME NEW f, NEW S, IsFiniteSet(S), IntOn(f, S)
  PROVE  SumFunctionOnSet(f, S) \in Int
  <1> DEFINE P == {T \in SUBSET S : SumFunctionOnSet(f, T) \in Int}
  <1>1. {} \in P
    BY SumEmpty
  <1>2. ASSUME NEW T \in SUBSET S, T # {}, \A x \in T : T \ {x} \in P PROVE T \in P
    <2>1. Chosen(T) \in T /\ IsFiniteSet(T)
      BY <1>2, FS_Subset DEF Chosen
    <2>2. SumFunctionOnSet(f, T) = f[Chosen(T)] + SumFunctionOnSet(f, T \ {Chosen(T)})
      BY <1>2, <2>1, SumAny
    <2>3. f[Chosen(T)] \in Int /\ SumFunctionOnSet(f, T \ {Chosen(T)}) \in Int
      BY <1>2, <2>1 DEF IntOn
    <2>4. QED
      BY <2>2, <2>3
  <1>3. S \in P
    <2> HIDE DEF P
    <2>1. QED
      BY <1>1, <1>2, FiniteInduction
  <1>4. QED
    BY <1>3

(* Any element may be taken out of a sum.                                     *)
LEMMA SumTakeOut ==
  ASSUME NEW f, NEW S, IsFiniteSet(S), IntOn(f, S), NEW x \in S
  PROVE  SumFunctionOnSet(f, S) = f[x] + SumFunctionOnSet(f, S \ {x})
  <1> DEFINE Sum(T) == SumFunctionOnSet(f, T)
             P == {T \in SUBSET S : \A y \in T : Sum(T) = f[y] + Sum(T \ {y})}
  <1>1. {} \in P
    OBVIOUS
  <1>2. ASSUME NEW T \in SUBSET S, T # {}, \A y \in T : T \ {y} \in P PROVE T \in P
    <2> SUFFICES ASSUME NEW y \in T PROVE Sum(T) = f[y] + Sum(T \ {y})
      BY <1>2
    <2> DEFINE z == Chosen(T)
    <2>1. z \in T /\ IsFiniteSet(T)
      BY <1>2, FS_Subset DEF Chosen
    <2>2. Sum(T) = f[z] + Sum(T \ {z})
      BY <1>2, <2>1, SumAny
    <2> HIDE DEF z
    <2>3. CASE y = z
      BY <2>2, <2>3
    <2>4. CASE y # z
      <3>1. Sum(T \ {z}) = f[y] + Sum((T \ {z}) \ {y})
        BY <1>2, <2>1, <2>4
      <3>2. Sum(T \ {y}) = f[z] + Sum((T \ {y}) \ {z})
        BY <1>2, <2>1, <2>4
      <3>3. (T \ {z}) \ {y} = (T \ {y}) \ {z}
        OBVIOUS
      <3>4. f[y] \in Int /\ f[z] \in Int /\ Sum((T \ {y}) \ {z}) \in Int
        <4>1. IsFiniteSet((T \ {y}) \ {z}) /\ IntOn(f, (T \ {y}) \ {z})
          BY <2>1, FS_Subset DEF IntOn
        <4>2. QED
          BY <2>1, <4>1, SumType DEF IntOn
      <3> DEFINE rest == Sum((T \ {y}) \ {z})
      <3>5. Sum(T) = f[z] + (f[y] + rest) /\ Sum(T \ {y}) = f[z] + rest
        BY <2>2, <3>1, <3>2, <3>3
      <3>6. rest \in Int
        BY <3>4
      <3> HIDE DEF rest, Sum
      <3>7. QED
        BY <3>4, <3>5, <3>6
    <2>5. QED
      BY <2>3, <2>4
  <1>3. S \in P
    <2> HIDE DEF P
    <2>1. QED
      BY <1>1, <1>2, FiniteInduction
  <1>4. QED
    BY <1>3

(* A sum depends on the values summed only.                                *)
LEMMA SumSame ==
  ASSUME NEW f, NEW g, NEW S, IsFiniteSet(S), \A x \in S : f[x] = g[x]
  PROVE  SumFunctionOnSet(f, S) = SumFunctionOnSet(g, S)
  <1> DEFINE P == {T \in SUBSET S : SumFunctionOnSet(f, T) = SumFunctionOnSet(g, T)}
  <1>1. {} \in P
    BY SumEmpty
  <1>2. ASSUME NEW T \in SUBSET S, T # {}, \A x \in T : T \ {x} \in P PROVE T \in P
    <2>1. Chosen(T) \in T /\ IsFiniteSet(T)
      BY <1>2, FS_Subset DEF Chosen
    <2>2. /\ SumFunctionOnSet(f, T) = f[Chosen(T)] + SumFunctionOnSet(f, T \ {Chosen(T)})
          /\ SumFunctionOnSet(g, T) = g[Chosen(T)] + SumFunctionOnSet(g, T \ {Chosen(T)})
      BY <1>2, <2>1, SumAny
    <2>3. f[Chosen(T)] = g[Chosen(T)]
      BY <2>1
    <2>4. SumFunctionOnSet(f, T \ {Chosen(T)}) = SumFunctionOnSet(g, T \ {Chosen(T)})
      BY <1>2, <2>1
    <2>5. QED
      BY <2>2, <2>3, <2>4
  <1>3. S \in P
    <2> HIDE DEF P
    <2>1. QED
      BY <1>1, <1>2, FiniteInduction
  <1>4. QED
    BY <1>3

NatOn(f, S) == \A x \in S : f[x] \in Nat

(* A sum of natural numbers is at least each of them.                      *)
LEMMA SumNat ==
  ASSUME NEW f, NEW S, IsFiniteSet(S), NatOn(f, S)
  PROVE  /\ SumFunctionOnSet(f, S) \in Nat
         /\ \A x \in S : f[x] <= SumFunctionOnSet(f, S)
  <1> DEFINE P == {T \in SUBSET S : SumFunctionOnSet(f, T) \in Nat}
  <1>0. \A T \in SUBSET S : IsFiniteSet(T)
    BY FS_Subset
  <1>1. {} \in P
    BY SumEmpty
  <1>2. ASSUME NEW T \in SUBSET S, T # {}, \A x \in T : T \ {x} \in P PROVE T \in P
    <2>1. Chosen(T) \in T /\ IsFiniteSet(T)
      BY <1>0, <1>2 DEF Chosen
    <2>2. SumFunctionOnSet(f, T) = f[Chosen(T)] + SumFunctionOnSet(f, T \ {Chosen(T)})
      BY <1>2, <2>1, SumAny
    <2>3. f[Chosen(T)] \in Nat /\ SumFunctionOnSet(f, T \ {Chosen(T)}) \in Nat
      BY <1>2, <2>1 DEF NatOn
    <2>4. QED
      BY <2>2, <2>3
  <1>3. \A T \in SUBSET S : T \in P
    <2> SUFFICES ASSUME NEW T \in SUBSET S PROVE T \in P
      OBVIOUS
    <2>1. IsFiniteSet(T)
      BY <1>0
    <2>2. \A V \in SUBSET T : V # {} /\ (\A x \in V : V \ {x} \in P) => V \in P
      <3> HIDE DEF P
      <3>1. QED
        BY <1>2
    <2> HIDE DEF P
    <2>3. QED
      BY <1>1, <2>1, <2>2, FiniteInduction
  <1>4. ASSUME NEW x \in S PROVE f[x] <= SumFunctionOnSet(f, S)
    <2>1. IntOn(f, S)
      BY DEF IntOn, NatOn
    <2>2. SumFunctionOnSet(f, S) = f[x] + SumFunctionOnSet(f, S \ {x})
      BY <2>1, SumTakeOut
    <2>3. SumFunctionOnSet(f, S \ {x}) \in Nat /\ f[x] \in Nat
      BY <1>3 DEF NatOn
    <2>4. QED
      BY <2>2, <2>3
  <1>5. QED
    BY <1>3, <1>4

LEMMA SumZero ==
  ASSUME NEW f, NEW S, IsFiniteSet(S), \A x \in S : f[x] = 0
  PROVE  SumFunctionOnSet(f, S) = 0
  <1> DEFINE P == {T \in SUBSET S : SumFunctionOnSet(f, T) = 0}
  <1>1. {} \in P
    BY SumEmpty
  <1>2. ASSUME NEW T \in SUBSET S, T # {}, \A x \in T : T \ {x} \in P PROVE T \in P
    <2>1. Chosen(T) \in T /\ IsFiniteSet(T)
      BY <1>2, FS_Subset DEF Chosen
    <2>2. SumFunctionOnSet(f, T) = f[Chosen(T)] + SumFunctionOnSet(f, T \ {Chosen(T)})
      BY <1>2, <2>1, SumAny
    <2>3. QED
      BY <1>2, <2>1, <2>2
  <1>3. S \in P
    <2> HIDE DEF P
    <2>1. QED
      BY <1>1, <1>2, FiniteInduction
  <1>4. QED
    BY <1>3

(* The sum over two disjoint sets.                                         *)
LEMMA SumSplit ==
  ASSUME NEW f, NEW S, NEW T, IsFiniteSet(S), IsFiniteSet(T), S \cap T = {},
         IntOn(f, S \cup T)
  PROVE  SumFunctionOnSet(f, S \cup T) = SumFunctionOnSet(f, S) + SumFunctionOnSet(f, T)
  <1> DEFINE Sum(V) == SumFunctionOnSet(f, V)
             P == {V \in SUBSET S : Sum(V \cup T) = Sum(V) + Sum(T)}
  <1>1. IsFiniteSet(S \cup T)
    BY FS_Union
  <1>2. \A V \in SUBSET (S \cup T) : IsFiniteSet(V) /\ IntOn(f, V) /\ Sum(V) \in Int
    BY <1>1, FS_Subset, SumType DEF IntOn
  <1>3. {} \in P
    <2>1. Sum({}) = 0 /\ {} \cup T = T /\ Sum(T) \in Int
      BY <1>2, SumEmpty
    <2> HIDE DEF Sum
    <2>2. QED
      BY <2>1
  <1>4. ASSUME NEW V \in SUBSET S, V # {}, \A x \in V : V \ {x} \in P PROVE V \in P
    <2>1. PICK x \in V : TRUE
      BY <1>4
    <2>2. Sum(V) = f[x] + Sum(V \ {x})
      BY <1>2, SumTakeOut
    <2>3. Sum(V \cup T) = f[x] + Sum((V \cup T) \ {x})
      BY <1>2, SumTakeOut
    <2>4. (V \cup T) \ {x} = (V \ {x}) \cup T
      OBVIOUS
    <2>5. Sum((V \ {x}) \cup T) = Sum(V \ {x}) + Sum(T)
      BY <1>4
    <2>6. f[x] \in Int /\ Sum(V \ {x}) \in Int /\ Sum(T) \in Int
      BY <1>2 DEF IntOn
    <2>7. Sum(V \cup T) = f[x] + (Sum(V \ {x}) + Sum(T))
      BY <2>3, <2>4, <2>5
    <2> HIDE DEF Sum
    <2>8. Sum(V \cup T) = Sum(V) + Sum(T)
      BY <2>2, <2>6, <2>7
    <2>9. QED
      BY <2>8
  <1>5. S \in P
    <2> HIDE DEF P
    <2>1. QED
      BY <1>3, <1>4, FiniteInduction
  <1>6. QED
    BY <1>5

(* A sum does not depend on what its terms are called.                     *)
LEMMA SumRenamed ==
  ASSUME NEW S, NEW T, IsFiniteSet(S), NEW p \in Bijection(S, T),
         NEW f, IntOn(f, T), NEW g, \A x \in S : g[x] = f[p[x]]
  PROVE  SumFunctionOnSet(g, S) = SumFunctionOnSet(f, T)
  <1> DEFINE Im(V) == {p[x] : x \in V}
             P == {V \in SUBSET S : SumFunctionOnSet(g, V) = SumFunctionOnSet(f, Im(V))}
  <1>1. /\ p \in [S -> T]
        /\ \A x, y \in S : p[x] = p[y] => x = y
        /\ \A w \in T : \E x \in S : p[x] = w
    BY DEF Bijection, Injection, Surjection, IsInjective
  <1>2. IsFiniteSet(T)
    <2>1. ExistsBijection(S, T)
      BY DEF ExistsBijection
    <2>2. QED
      BY <2>1, FS_Bijection
  <1>3. IntOn(g, S)
    BY <1>1 DEF IntOn
  <1>4. {} \in P
    <2>1. Im({}) = {}
      OBVIOUS
    <2>2. QED
      BY <2>1, SumEmpty
  <1>5. ASSUME NEW V \in SUBSET S, V # {}, \A x \in V : V \ {x} \in P PROVE V \in P
    <2>1. PICK x \in V : TRUE
      BY <1>5
    <2>2. IsFiniteSet(V) /\ IntOn(g, V)
      BY <1>3, FS_Subset DEF IntOn
    <2>3. Im(V) \in SUBSET T /\ p[x] \in Im(V)
      BY <1>1
    <2>4. IsFiniteSet(Im(V)) /\ IntOn(f, Im(V))
      BY <1>2, <2>3, FS_Subset DEF IntOn
    <2>5. Im(V) \ {p[x]} = Im(V \ {x})
      BY <1>1
    <2>6. SumFunctionOnSet(g, V) = g[x] + SumFunctionOnSet(g, V \ {x})
      BY <2>2, SumTakeOut
    <2>7. SumFunctionOnSet(g, V \ {x}) = SumFunctionOnSet(f, Im(V \ {x}))
      BY <1>5
    <2> HIDE DEF Im
    <2>8. SumFunctionOnSet(f, Im(V)) = f[p[x]] + SumFunctionOnSet(f, Im(V) \ {p[x]})
      BY <2>3, <2>4, SumTakeOut
    <2>9. QED
      BY <2>5, <2>6, <2>7, <2>8
  <1>6. S \in P
    <2> HIDE DEF P
    <2>1. QED
      BY <1>4, <1>5, FiniteInduction
  <1>7. Im(S) = T
    BY <1>1
  <1>8. QED
    BY <1>6, <1>7

(* A sum of terms that are all at least c, or all at most c.               *)
LEMMA SumAtLeast ==
  ASSUME NEW f, NEW S, IsFiniteSet(S), IntOn(f, S), NEW c \in Int, \A x \in S : f[x] >= c
  PROVE  SumFunctionOnSet(f, S) >= c * Cardinality(S)
  <1> DEFINE P == {V \in SUBSET S : SumFunctionOnSet(f, V) >= c * Cardinality(V)}
  <1>0. \A V \in SUBSET S : /\ IsFiniteSet(V) /\ IntOn(f, V)
                            /\ SumFunctionOnSet(f, V) \in Int /\ Cardinality(V) \in Nat
    BY FS_Subset, FS_CardinalityType, SumType DEF IntOn
  <1>1. {} \in P
    BY SumEmpty, FS_EmptySet
  <1>2. ASSUME NEW V \in SUBSET S, V # {}, \A x \in V : V \ {x} \in P PROVE V \in P
    <2>1. PICK x \in V : TRUE
      BY <1>2
    <2>2. SumFunctionOnSet(f, V) = f[x] + SumFunctionOnSet(f, V \ {x})
      BY <1>0, SumTakeOut
    <2>3. Cardinality(V \ {x}) = Cardinality(V) - 1
      BY <1>0, FS_RemoveElement
    <2>4. SumFunctionOnSet(f, V \ {x}) >= c * Cardinality(V \ {x})
      BY <1>2
    <2>5. f[x] \in Int /\ f[x] >= c
      BY DEF IntOn
    <2> DEFINE k == Cardinality(V)
               s == SumFunctionOnSet(f, V \ {x})
    <2>6. k \in Nat /\ s \in Int
      BY <1>0
    <2>7. s >= c * (k - 1)
      BY <2>3, <2>4
    <2> HIDE DEF k, s
    <2>8. c * (k - 1) = c * k - c
      BY <2>6
    <2>9. c * k \in Int
      BY <2>6
    <2>10. f[x] + s >= c * k
      BY <2>5, <2>6, <2>7, <2>8, <2>9
    <2>11. QED
      BY <2>2, <2>10 DEF k, s
  <1>3. S \in P
    <2> HIDE DEF P
    <2>1. QED
      BY <1>1, <1>2, FiniteInduction
  <1>4. QED
    BY <1>3

LEMMA SumAtMost ==
  ASSUME NEW f, NEW S, IsFiniteSet(S), IntOn(f, S), NEW c \in Int, \A x \in S : f[x] <= c
  PROVE  SumFunctionOnSet(f, S) <= c * Cardinality(S)
  <1> DEFINE P == {V \in SUBSET S : SumFunctionOnSet(f, V) <= c * Cardinality(V)}
  <1>0. \A V \in SUBSET S : /\ IsFiniteSet(V) /\ IntOn(f, V)
                            /\ SumFunctionOnSet(f, V) \in Int /\ Cardinality(V) \in Nat
    BY FS_Subset, FS_CardinalityType, SumType DEF IntOn
  <1>1. {} \in P
    BY SumEmpty, FS_EmptySet
  <1>2. ASSUME NEW V \in SUBSET S, V # {}, \A x \in V : V \ {x} \in P PROVE V \in P
    <2>1. PICK x \in V : TRUE
      BY <1>2
    <2>2. SumFunctionOnSet(f, V) = f[x] + SumFunctionOnSet(f, V \ {x})
      BY <1>0, SumTakeOut
    <2>3. Cardinality(V \ {x}) = Cardinality(V) - 1
      BY <1>0, FS_RemoveElement
    <2>4. SumFunctionOnSet(f, V \ {x}) <= c * Cardinality(V \ {x})
      BY <1>2
    <2>5. f[x] \in Int /\ f[x] <= c
      BY DEF IntOn
    <2> DEFINE k == Cardinality(V)
               s == SumFunctionOnSet(f, V \ {x})
    <2>6. k \in Nat /\ s \in Int
      BY <1>0
    <2>7. s <= c * (k - 1)
      BY <2>3, <2>4
    <2> HIDE DEF k, s
    <2>8. c * (k - 1) = c * k - c
      BY <2>6
    <2>9. c * k \in Int
      BY <2>6
    <2>10. f[x] + s <= c * k
      BY <2>5, <2>6, <2>7, <2>8, <2>9
    <2>11. QED
      BY <2>2, <2>10 DEF k, s
  <1>3. S \in P
    <2> HIDE DEF P
    <2>1. QED
      BY <1>1, <1>2, FiniteInduction
  <1>4. QED
    BY <1>3

-----------------------------------------------------------------------------
(* Functions                                                               *)

LEMMA BijectionFrom ==
    ASSUME NEW A, NEW B, NEW f \in [A -> B],
           \A i, j \in A : f[i] = f[j] => i = j,
           \A b \in B : \E i \in A : f[i] = b
    PROVE  f \in Bijection(A, B)
  <1>1. f \in Injection(A, B)
    BY DEF Injection, IsInjective
  <1>2. f \in Surjection(A, B)
    BY DEF Surjection
  <1>3. QED
    BY <1>1, <1>2 DEF Bijection

LEMMA Interval ==
    ASSUME NEW n \in Nat
    PROVE  IsFiniteSet(1 .. n) /\ Cardinality(1 .. n) = n
  BY FS_Interval

-----------------------------------------------------------------------------
(* Sorting by rank                                                         *)

\* up[i]: the elements of D that come no later than i.
TotalOrder(D, up) ==
    /\ up \in [D -> SUBSET D]
    /\ \A i, j \in D : i \in up[j] \/ j \in up[i]
    /\ \A i, j \in D : i \in up[j] /\ j \in up[i] => i = j
    /\ \A i, j, k \in D : i \in up[j] /\ j \in up[k] => i \in up[k]

\* In a total order of n elements the ranks are 1 to n, each taken once.
LEMMA Ranks ==
    ASSUME NEW D, IsFiniteSet(D), NEW up, TotalOrder(D, up)
    PROVE  /\ [i \in D |-> Cardinality(up[i])] \in Bijection(D, 1 .. Cardinality(D))
           /\ \A i, j \in D : Cardinality(up[i]) < Cardinality(up[j])
                                => i \in up[j]
  <1> DEFINE rank == [i \in D |-> Cardinality(up[i])]
             n == Cardinality(D)
  <1>1. n \in Nat /\ IsFiniteSet(1 .. n) /\ Cardinality(1 .. n) = n
    <2>1. n \in Nat
      BY FS_CardinalityType
    <2> HIDE DEF n
    <2>2. QED
      BY <2>1, Interval, Zenon
  <1>2. ASSUME NEW i \in D
        PROVE  /\ IsFiniteSet(up[i]) /\ Cardinality(up[i]) \in Nat
               /\ Cardinality(up[i]) \in 1 .. n
    <2>1. up[i] \in SUBSET D /\ i \in up[i]
      BY DEF TotalOrder
    <2>2. IsFiniteSet(up[i]) /\ Cardinality(up[i]) <= n
      BY <2>1, FS_Subset
    <2>3. Cardinality(up[i]) \in Nat /\ Cardinality(up[i]) # 0
      BY <2>1, <2>2, FS_CardinalityType, FS_EmptySet
    <2>4. QED
      BY <1>1, <2>2, <2>3
  <1>3. ASSUME NEW i \in D, NEW j \in D, i \in up[j]
        PROVE  /\ up[i] \in SUBSET up[j]
               /\ Cardinality(up[i]) <= Cardinality(up[j])
    <2>1. up[i] \in SUBSET up[j]
      BY <1>3 DEF TotalOrder
    <2>2. QED
      BY <1>2, <2>1, FS_Subset
  <1>4. ASSUME NEW i \in D, NEW j \in D,
               Cardinality(up[i]) = Cardinality(up[j]), i \in up[j]
        PROVE  i = j
    <2>1. up[i] = up[j]
      BY <1>2, <1>3, <1>4, FS_Subset
    <2>2. j \in up[j]
      BY DEF TotalOrder
    <2>3. j \in up[i]
      BY <2>1, <2>2
    <2>4. QED
      BY <1>4, <2>3 DEF TotalOrder
  <1>5. rank \in [D -> 1 .. n]
    BY <1>2
  <1>6. \A i, j \in D : rank[i] = rank[j] => i = j
    BY <1>4 DEF TotalOrder
  <1>7. rank \in Injection(D, 1 .. n)
    <2> HIDE DEF rank, n
    <2>1. QED
      BY <1>5, <1>6 DEF Injection, IsInjective
  <1>8. rank \in Surjection(D, 1 .. n)
    <2> HIDE DEF rank
    <2>1. Cardinality(D) = Cardinality(1 .. n)
      BY <1>1
    <2> HIDE DEF n
    <2>2. QED
      BY <1>1, <1>7, <2>1, FS_Injection
  <1>9. ASSUME NEW i \in D, NEW j \in D,
               Cardinality(up[i]) < Cardinality(up[j])
        PROVE  i \in up[j]
    <2>1. CASE j \in up[i]
      <3>1. Cardinality(up[j]) <= Cardinality(up[i])
        BY <1>3, <2>1
      <3>2. QED
        BY <1>2, <1>9, <3>1
    <2>2. QED
      BY <2>1 DEF TotalOrder
  <1>10. QED
    BY <1>7, <1>8, <1>9 DEF Bijection

\* The element of every rank.
LEMMA Unranked ==
    ASSUME NEW D, IsFiniteSet(D), NEW up, TotalOrder(D, up), NEW q,
           q = [k \in 1 .. Cardinality(D) |->
                   CHOOSE i \in D : Cardinality(up[i]) = k]
    PROVE  /\ q \in Bijection(1 .. Cardinality(D), D)
           /\ \A k, l \in 1 .. Cardinality(D) : k < l => q[k] \in up[q[l]]
  <1> DEFINE rank == [i \in D |-> Cardinality(up[i])]
             n == Cardinality(D)
  <1>1. /\ rank \in [D -> 1 .. n]
        /\ \A i, j \in D : rank[i] = rank[j] => i = j
        /\ \A k \in 1 .. n : \E i \in D : rank[i] = k
    <2>1. rank \in Bijection(D, 1 .. n)
      BY Ranks
    <2> HIDE DEF rank, n
    <2>2. QED
      BY <2>1 DEF Bijection, Injection, Surjection, IsInjective
  <1>2. \A i \in D : rank[i] = Cardinality(up[i])
    OBVIOUS
  <1> HIDE DEF rank
  <1>3. ASSUME NEW k \in 1 .. n PROVE q[k] \in D /\ rank[q[k]] = k
    <2>1. q[k] = CHOOSE i \in D : Cardinality(up[i]) = k
      OBVIOUS
    <2>2. \E i \in D : Cardinality(up[i]) = k
      BY <1>1, <1>2
    <2>3. q[k] \in D /\ Cardinality(up[q[k]]) = k
      BY <2>1, <2>2
    <2>4. QED
      BY <1>2, <2>3
  <1>4. q \in [1 .. n -> D]
    BY <1>3
  <1>5. \A k, l \in 1 .. n : q[k] = q[l] => k = l
    BY <1>3
  <1>6. \A i \in D : \E k \in 1 .. n : q[k] = i
    <2> SUFFICES ASSUME NEW i \in D PROVE \E k \in 1 .. n : q[k] = i
      OBVIOUS
    <2>1. rank[i] \in 1 .. n
      BY <1>1
    <2>2. q[rank[i]] \in D /\ rank[q[rank[i]]] = rank[i]
      BY <1>3, <2>1
    <2>3. q[rank[i]] = i
      BY <1>1, <2>2
    <2>4. QED
      BY <2>1, <2>3
  <1>7. ASSUME NEW k \in 1 .. n, NEW l \in 1 .. n, k < l PROVE q[k] \in up[q[l]]
    <2>0. /\ q[k] \in D /\ rank[q[k]] = k
          /\ q[l] \in D /\ rank[q[l]] = l
      BY <1>3
    <2>1. Cardinality(up[q[k]]) = k /\ Cardinality(up[q[l]]) = l
      BY <1>2, <2>0, Zenon
    <2>2. \A i, j \in D : Cardinality(up[i]) < Cardinality(up[j]) => i \in up[j]
      BY Ranks
    <2>3. QED
      BY <1>7, <2>0, <2>1, <2>2
  <1>8. q \in Bijection(1 .. n, D)
    <2> DEFINE A == 1 .. n
    <2>1. /\ q \in [A -> D] /\ \A k, l \in A : q[k] = q[l] => k = l
          /\ \A i \in D : \E k \in A : q[k] = i
      BY <1>4, <1>5, <1>6
    <2> HIDE DEF A
    <2>2. q \in Bijection(A, D)
      BY <2>1, BijectionFrom
    <2>3. QED
      BY <2>2 DEF A
  <1>9. QED
    BY <1>7, <1>8
================================================================================
