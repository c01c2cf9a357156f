----------------------------- MODULE SumTheorems -----------------------------
(***************************************************************************)
(* Sums over finite sets, SumFunctionOnSet(f, S) of module Functions, for  *)
(* the proofs about what the tables add up to.                             *)
(*                                                                         *)
(* A sum is a recursive function over the subsets of S that takes out one  *)
(* element after the other, in an order nobody knows.  All the facts below *)
(* rest on induction over finite sets, in the form "a family of subsets    *)
(* with a member has a minimal member": a family of counterexamples is     *)
(* shown to have none.                                                     *)
(***************************************************************************)
EXTENDS FiniteSetsExt, FiniteSetTheorems, TLAPS

\* A set of numbers with a member has a least member.
LEMMA LeastNumber ==
  ASSUME NEW T, T \subseteq Nat, T # {}
  PROVE  \E x \in T : \A y \in T : x <= y
<1> DEFINE Less == {ss \in Nat \X Nat : ss[1] < ss[2]}
<1>1. IsWellFoundedOn(Less, Nat)
  BY NatLessThanWellFounded, Zenon DEF OpToRel
<1> HIDE DEF Less
<1>2. PICK x \in T : \A y \in T : ~ (<<y, x>> \in Less)
  BY <1>1, WFMin
<1>3. ASSUME NEW y \in T PROVE x <= y
  <2> SUFFICES ASSUME y < x PROVE <<y, x>> \in Less
    BY <1>2
  <2> QED BY DEF Less
<1> QED BY <1>3

\* A family of subsets of a finite set has a member with no other below it.
LEMMA MinimalSubset ==
  ASSUME NEW S, IsFiniteSet(S), NEW F, F \subseteq SUBSET S, F # {}
  PROVE  \E s \in F : \A t \in F : t \subseteq s => t = s
<1>1. IsWellFoundedOn(StrictSubsetOrdering(S), FiniteSubsetsOf(S))
  BY FS_StrictSubsetOrderingWellFounded
<1>2. F \subseteq FiniteSubsetsOf(S)
  BY FS_Subset DEF FiniteSubsetsOf
<1>3. PICK s \in F : \A t \in F : <<t, s>> \notin StrictSubsetOrdering(S)
  BY <1>1, <1>2, WFMin
<1>4. \A t \in F : t \subseteq s => t = s
  <2> SUFFICES ASSUME NEW t \in F, t \subseteq s, t # s
               PROVE  <<t, s>> \in StrictSubsetOrdering(S)
    BY <1>3
  <2> QED BY DEF StrictSubsetOrdering
<1> QED BY <1>4

-----------------------------------------------------------------------------
\* The element that is summed first.
First(s) == CHOOSE x \in s : TRUE

Rest(s) == s \ {First(s)}

LEMMA RestIsSmaller ==
  ASSUME NEW s, s # {}
  PROVE  First(s) \in s /\ Rest(s) \subseteq s /\ Rest(s) # s
BY DEF First, Rest

\* h sums up the subsets of S.
Sums(h, f, S) ==
  h = [s \in SUBSET S |-> IF s = {} THEN 0 ELSE f[First(s)] + h[Rest(s)]]

LEMMA SumsAre ==
  ASSUME NEW h, NEW f, NEW S, Sums(h, f, S)
  PROVE  /\ {} \in SUBSET S /\ h[{}] = 0
         /\ \A s \in SUBSET S : s # {} =>
              /\ Rest(s) \in SUBSET S
              /\ h[s] = f[First(s)] + h[Rest(s)]
<1>1. \A s \in SUBSET S : h[s] = IF s = {} THEN 0 ELSE f[First(s)] + h[Rest(s)]
  BY DEF Sums
<1> QED BY <1>1, RestIsSmaller

\* Two such functions agree on what both sum up.
LEMMA SumsAgree ==
  ASSUME NEW f, NEW S, IsFiniteSet(S), NEW T, NEW g, NEW h, Sums(g, f, S), Sums(h, f, T)
  PROVE  \A s \in SUBSET (S \cap T) : g[s] = h[s]
<1> DEFINE F == {s \in SUBSET (S \cap T) : g[s] # h[s]}
<1> SUFFICES ASSUME F # {} PROVE FALSE
  OBVIOUS
<1>1. PICK s \in F : \A t \in F : t \subseteq s => t = s
  <2>1. F \subseteq SUBSET S
    OBVIOUS
  <2> HIDE DEF F
  <2> QED BY <2>1, MinimalSubset
<1>2. s # {}
  BY SumsAre
<1>3. Rest(s) \in SUBSET (S \cap T) /\ Rest(s) \notin F
  BY <1>1, <1>2, RestIsSmaller
<1>4. g[Rest(s)] = h[Rest(s)]
  BY <1>3
<1>5. g[s] = f[First(s)] + g[Rest(s)] /\ h[s] = f[First(s)] + h[Rest(s)]
  BY <1>2, SumsAre
<1> QED BY <1>4, <1>5

\* Every finite set is summed up by a function.
LEMMA SumsExist ==
  ASSUME NEW f, NEW S, IsFiniteSet(S)
  PROVE  \E h : Sums(h, f, S)
<1> DEFINE F == {s \in SUBSET S : ~ \E h : Sums(h, f, s)}
<1> SUFFICES ASSUME F # {} PROVE FALSE
  OBVIOUS
<1>1. PICK s \in F : \A t \in F : t \subseteq s => t = s
  <2>1. F \subseteq SUBSET S
    OBVIOUS
  <2> HIDE DEF F
  <2> QED BY <2>1, MinimalSubset
<1>2. s \in SUBSET S /\ ~ \E h : Sums(h, f, s)
  OBVIOUS
<1>3. \A t \in SUBSET s : t # s => \E h : Sums(h, f, t)
  BY <1>1
<1> HIDE DEF F
<1> DEFINE part == [t \in (SUBSET s) \ {s} |-> CHOOSE h : Sums(h, f, t)]
           sum == [t \in SUBSET s |->
                     IF t = {} THEN 0 ELSE f[First(t)] + part[Rest(t)][Rest(t)]]
<1>4. \A t \in (SUBSET s) \ {s} : Sums(part[t], f, t)
  <2>1. \A t \in (SUBSET s) \ {s} : part[t] = CHOOSE h : Sums(h, f, t)
    OBVIOUS
  <2> HIDE DEF part
  <2> QED BY <1>3, <2>1
<1>5. ASSUME NEW t \in (SUBSET s) \ {s}
      PROVE  part[t][t] = sum[t]
  <2>1. CASE t = {}
    <3>1. part[t][t] = 0
      <4> HIDE DEF part
      <4> QED BY <1>4, <2>1, SumsAre
    <3> QED BY <2>1, <3>1
  <2>2. CASE t # {}
    <3>1. Rest(t) \in (SUBSET s) \ {s} /\ Rest(t) \in SUBSET (t \cap Rest(t))
      BY <2>2, RestIsSmaller
    <3>2. IsFiniteSet(t)
      BY <1>2, FS_Subset
    <3>3. part[t][Rest(t)] = part[Rest(t)][Rest(t)]
      <4>1. Sums(part[t], f, t) /\ Sums(part[Rest(t)], f, Rest(t))
        <5> HIDE DEF part
        <5> QED BY <1>4, <3>1
      <4> DEFINE g == part[t]
                 h == part[Rest(t)]
      <4>2. Sums(g, f, t) /\ Sums(h, f, Rest(t))
        BY <4>1
      <4> HIDE DEF part, g, h
      <4>3. g[Rest(t)] = h[Rest(t)]
        BY <4>2, <3>1, <3>2, SumsAgree
      <4> QED BY <4>3 DEF g, h
    <3>4. part[t][t] = f[First(t)] + part[t][Rest(t)]
      <4> HIDE DEF part
      <4> QED BY <1>4, <2>2, SumsAre
    <3>5. sum[t] = f[First(t)] + part[Rest(t)][Rest(t)]
      <4> HIDE DEF part
      <4> QED BY <2>2
    <3> HIDE DEF part, sum
    <3> QED BY <3>3, <3>4, <3>5
  <2> QED BY <2>1, <2>2
<1>6. \A t \in SUBSET s : t # {} => part[Rest(t)][Rest(t)] = sum[Rest(t)]
  <2> SUFFICES ASSUME NEW t \in SUBSET s, t # {}
               PROVE  Rest(t) \in (SUBSET s) \ {s}
    BY <1>5
  <2> QED BY RestIsSmaller
<1>7. sum = [t \in SUBSET s |-> IF t = {} THEN 0 ELSE f[First(t)] + sum[Rest(t)]]
  <2>1. sum = [t \in SUBSET s |-> IF t = {} THEN 0 ELSE f[First(t)] + part[Rest(t)][Rest(t)]]
    OBVIOUS
  <2> HIDE DEF part, sum
  <2> QED BY <1>6, <2>1
<1> HIDE DEF sum
<1> QED BY <1>2, <1>7 DEF Sums

LEMMA SumIsOfSums ==
  ASSUME NEW f, NEW S, IsFiniteSet(S)
  PROVE  \E h : Sums(h, f, S) /\ SumFunctionOnSet(f, S) = h[S]
<1> DEFINE h == CHOOSE g : Sums(g, f, S)
<1>1. SumFunctionOnSet(f, S) = h[S]
  BY DEF SumFunctionOnSet, FoldFunctionOnSet, MapThenFoldSet, Sums, First, Rest
<1>2. Sums(h, f, S)
  <2>1. h = CHOOSE g : Sums(g, f, S)
    OBVIOUS
  <2> HIDE DEF h
  <2> QED BY <2>1, SumsExist
<1> HIDE DEF h
<1> QED BY <1>1, <1>2

-----------------------------------------------------------------------------
(* What a sum is. *)

LEMMA SumOfNothing ==
  ASSUME NEW f
  PROVE  SumFunctionOnSet(f, {}) = 0
<1>1. IsFiniteSet({})
  BY FS_EmptySet
<1>2. PICK h : Sums(h, f, {}) /\ SumFunctionOnSet(f, {}) = h[{}]
  BY <1>1, SumIsOfSums
<1> QED BY <1>2, SumsAre

\* The element summed first, and the others.
LEMMA SumOfFirstAndRest ==
  ASSUME NEW f, NEW S, IsFiniteSet(S), S # {}
  PROVE  SumFunctionOnSet(f, S) = f[First(S)] + SumFunctionOnSet(f, Rest(S))
<1>1. IsFiniteSet(Rest(S)) /\ Rest(S) \in SUBSET (S \cap Rest(S))
  BY RestIsSmaller, FS_Subset
<1>2. PICK g : Sums(g, f, S) /\ SumFunctionOnSet(f, S) = g[S]
  BY SumIsOfSums
<1>3. PICK h : Sums(h, f, Rest(S)) /\ SumFunctionOnSet(f, Rest(S)) = h[Rest(S)]
  BY <1>1, SumIsOfSums
<1>4. g[Rest(S)] = h[Rest(S)]
  BY <1>1, <1>2, <1>3, SumsAgree
<1>5. g[S] = f[First(S)] + g[Rest(S)]
  BY <1>2, SumsAre
<1> QED BY <1>2, <1>3, <1>4, <1>5

LEMMA SumIsInt ==
  ASSUME NEW f, NEW S, IsFiniteSet(S), \A x \in S : f[x] \in Int
  PROVE  SumFunctionOnSet(f, S) \in Int
<1> DEFINE F == {s \in SUBSET S : SumFunctionOnSet(f, s) \notin Int}
<1> SUFFICES ASSUME F # {} PROVE FALSE
  OBVIOUS
<1>1. PICK s \in F : \A t \in F : t \subseteq s => t = s
  <2>1. F \subseteq SUBSET S
    OBVIOUS
  <2> HIDE DEF F
  <2> QED BY <2>1, MinimalSubset
<1>2. s # {} /\ IsFiniteSet(s)
  <2>1. SumFunctionOnSet(f, {}) \in Int
    BY SumOfNothing
  <2>2. IsFiniteSet(s)
    BY FS_Subset
  <2> QED BY <2>1, <2>2, Zenon
<1>3. First(s) \in S /\ Rest(s) \in SUBSET S /\ Rest(s) \notin F
  BY <1>1, <1>2, RestIsSmaller
<1>4. SumFunctionOnSet(f, s) = f[First(s)] + SumFunctionOnSet(f, Rest(s))
  BY <1>2, SumOfFirstAndRest
<1> QED BY <1>3, <1>4

\* Any element can be taken out.
LEMMA SumWithout ==
  ASSUME NEW f, NEW S, IsFiniteSet(S), \A x \in S : f[x] \in Int, NEW x \in S
  PROVE  SumFunctionOnSet(f, S) = f[x] + SumFunctionOnSet(f, S \ {x})
<1> DEFINE F == {s \in SUBSET S : \E y \in s :
                   SumFunctionOnSet(f, s) # f[y] + SumFunctionOnSet(f, s \ {y})}
<1> SUFFICES ASSUME F # {} PROVE FALSE
  BY Zenon
<1>1. PICK s \in F : \A t \in F : t \subseteq s => t = s
  <2>1. F \subseteq SUBSET S
    OBVIOUS
  <2> HIDE DEF F
  <2> QED BY <2>1, MinimalSubset
<1>2. PICK y \in s : SumFunctionOnSet(f, s) # f[y] + SumFunctionOnSet(f, s \ {y})
  OBVIOUS
<1> DEFINE z == First(s)
<1>3. z \in s /\ Rest(s) = s \ {z}
  BY <1>2, RestIsSmaller DEF Rest
<1>4. IsFiniteSet(s) /\ IsFiniteSet(s \ {y})
  BY FS_Subset
<1>5. \A a, b \in s : s \ {a} # s /\ (s \ {a}) \ {b} = (s \ {b}) \ {a}
  OBVIOUS
<1>6. SumFunctionOnSet(f, s) = f[z] + SumFunctionOnSet(f, s \ {z})
  BY <1>2, <1>3, <1>4, SumOfFirstAndRest
<1>7. y # z
  BY <1>2, <1>6
<1>8. SumFunctionOnSet(f, s \ {z}) = f[y] + SumFunctionOnSet(f, (s \ {y}) \ {z})
  <2>1. s \ {z} \notin F
    BY <1>1, <1>3
  <2>2. SumFunctionOnSet(f, s \ {z}) = f[y] + SumFunctionOnSet(f, (s \ {z}) \ {y})
    BY <1>7, <2>1
  <2>3. (s \ {z}) \ {y} = (s \ {y}) \ {z}
    OBVIOUS
  <2> QED BY <2>2, <2>3, Zenon
<1>9. SumFunctionOnSet(f, s \ {y}) = f[z] + SumFunctionOnSet(f, (s \ {y}) \ {z})
  <2>1. s \ {y} \notin F
    BY <1>1, <1>2
  <2> QED BY <1>3, <1>7, <2>1
<1>10. SumFunctionOnSet(f, (s \ {y}) \ {z}) \in Int
  <2>1. IsFiniteSet((s \ {y}) \ {z})
    BY <1>4, FS_RemoveElement
  <2> QED BY <2>1, SumIsInt
<1>11. f[y] \in Int /\ f[z] \in Int
  BY <1>2, <1>3
<1> HIDE DEF F, z
<1> QED BY <1>2, <1>6, <1>8, <1>9, <1>10, <1>11

\* ... and a new one added.
LEMMA SumWith ==
  ASSUME NEW f, NEW S, IsFiniteSet(S), \A x \in S : f[x] \in Int,
         NEW x, x \notin S, f[x] \in Int
  PROVE  SumFunctionOnSet(f, S \cup {x}) = SumFunctionOnSet(f, S) + f[x]
<1>1. IsFiniteSet(S \cup {x}) /\ (S \cup {x}) \ {x} = S
  BY FS_AddElement
<1>2. SumFunctionOnSet(f, S \cup {x}) = f[x] + SumFunctionOnSet(f, S)
  <2>1. SumFunctionOnSet(f, S \cup {x}) = f[x] + SumFunctionOnSet(f, (S \cup {x}) \ {x})
    BY <1>1, SumWithout
  <2> QED BY <1>1, <2>1, Zenon
<1>3. SumFunctionOnSet(f, S) \in Int
  BY SumIsInt
<1> QED BY <1>2, <1>3

\* The sum depends on the values on the set only.
LEMMA SumOfEqual ==
  ASSUME NEW f, NEW g, NEW S, IsFiniteSet(S), \A x \in S : f[x] = g[x]
  PROVE  SumFunctionOnSet(f, S) = SumFunctionOnSet(g, S)
<1> DEFINE F == {s \in SUBSET S : SumFunctionOnSet(f, s) # SumFunctionOnSet(g, s)}
<1> SUFFICES ASSUME F # {} PROVE FALSE
  OBVIOUS
<1>1. PICK s \in F : \A t \in F : t \subseteq s => t = s
  <2>1. F \subseteq SUBSET S
    OBVIOUS
  <2> HIDE DEF F
  <2> QED BY <2>1, MinimalSubset
<1>2. s # {} /\ IsFiniteSet(s)
  BY SumOfNothing, FS_Subset
<1>3. First(s) \in S /\ Rest(s) \in SUBSET S /\ Rest(s) \notin F
  BY <1>1, <1>2, RestIsSmaller
<1> QED BY <1>2, <1>3, SumOfFirstAndRest

LEMMA SumOfLess ==
  ASSUME NEW f, NEW g, NEW S, IsFiniteSet(S),
         \A x \in S : f[x] \in Int /\ g[x] \in Int /\ f[x] <= g[x]
  PROVE  SumFunctionOnSet(f, S) <= SumFunctionOnSet(g, S)
<1> DEFINE F == {s \in SUBSET S : ~ SumFunctionOnSet(f, s) <= SumFunctionOnSet(g, s)}
<1> SUFFICES ASSUME F # {} PROVE FALSE
  OBVIOUS
<1>1. PICK s \in F : \A t \in F : t \subseteq s => t = s
  <2>1. F \subseteq SUBSET S
    OBVIOUS
  <2> HIDE DEF F
  <2> QED BY <2>1, MinimalSubset
<1>2. s # {} /\ IsFiniteSet(s)
  <2>1. SumFunctionOnSet(f, {}) <= SumFunctionOnSet(g, {})
    BY SumOfNothing
  <2>2. IsFiniteSet(s)
    BY FS_Subset
  <2> QED BY <2>1, <2>2, Zenon
<1>3. First(s) \in S /\ Rest(s) \in SUBSET S /\ Rest(s) \notin F /\ IsFiniteSet(Rest(s))
  BY <1>1, <1>2, RestIsSmaller, FS_Subset
<1>4. /\ SumFunctionOnSet(f, s) = f[First(s)] + SumFunctionOnSet(f, Rest(s))
      /\ SumFunctionOnSet(g, s) = g[First(s)] + SumFunctionOnSet(g, Rest(s))
  BY <1>2, SumOfFirstAndRest
<1>5. SumFunctionOnSet(f, Rest(s)) \in Int /\ SumFunctionOnSet(g, Rest(s)) \in Int
  BY <1>3, SumIsInt
<1> QED BY <1>3, <1>4, <1>5

LEMMA SumOfZeros ==
  ASSUME NEW f, NEW S, IsFiniteSet(S), \A x \in S : f[x] = 0
  PROVE  SumFunctionOnSet(f, S) = 0
<1> DEFINE F == {s \in SUBSET S : SumFunctionOnSet(f, s) # 0}
<1> SUFFICES ASSUME F # {} PROVE FALSE
  OBVIOUS
<1>1. PICK s \in F : \A t \in F : t \subseteq s => t = s
  <2>1. F \subseteq SUBSET S
    OBVIOUS
  <2> HIDE DEF F
  <2> QED BY <2>1, MinimalSubset
<1>2. s # {} /\ IsFiniteSet(s)
  BY SumOfNothing, FS_Subset
<1>3. First(s) \in S /\ Rest(s) \in SUBSET S /\ Rest(s) \notin F
  BY <1>1, <1>2, RestIsSmaller
<1> QED BY <1>2, <1>3, SumOfFirstAndRest

\* One value is another, the rest is the same.
LEMMA SumOfChanged ==
  ASSUME NEW f, NEW g, NEW S, IsFiniteSet(S), NEW x \in S,
         \A y \in S : f[y] \in Int /\ g[y] \in Int,
         \A y \in S \ {x} : f[y] = g[y]
  PROVE  SumFunctionOnSet(g, S) = SumFunctionOnSet(f, S) - f[x] + g[x]
<1>1. IsFiniteSet(S \ {x})
  BY FS_RemoveElement
<1>2. SumFunctionOnSet(f, S \ {x}) = SumFunctionOnSet(g, S \ {x})
  BY <1>1, SumOfEqual
<1>3. /\ SumFunctionOnSet(f, S) = f[x] + SumFunctionOnSet(f, S \ {x})
      /\ SumFunctionOnSet(g, S) = g[x] + SumFunctionOnSet(g, S \ {x})
  BY SumWithout
<1>4. SumFunctionOnSet(f, S \ {x}) \in Int
  BY <1>1, SumIsInt
<1> QED BY <1>2, <1>3, <1>4

LEMMA SumIsNat ==
  ASSUME NEW f, NEW S, IsFiniteSet(S), \A x \in S : f[x] \in Nat
  PROVE  SumFunctionOnSet(f, S) \in Nat
<1> DEFINE zero == [x \in S |-> 0]
<1>1. SumFunctionOnSet(zero, S) = 0
  BY SumOfZeros
<1>2. \A x \in S : zero[x] \in Int /\ f[x] \in Int /\ zero[x] <= f[x]
  OBVIOUS
<1> HIDE DEF zero
<1>3. SumFunctionOnSet(zero, S) <= SumFunctionOnSet(f, S)
  BY <1>2, SumOfLess
<1>4. SumFunctionOnSet(f, S) \in Int
  BY <1>2, SumIsInt
<1> QED BY <1>1, <1>3, <1>4
=============================================================================
