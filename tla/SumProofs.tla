----------------------------- MODULE SumProofs -----------------------------
(***************************************************************************)
(* Sums over finite sets, and the shares of a pool.                        *)
(*                                                                         *)
(* SumFunctionOnSet of the community modules is recursive.  What it        *)
(* computes is proved here from the well-foundedness of strict inclusion   *)
(* among the subsets of a finite set: SumsExist shows, for a minimal       *)
(* counterexample, that the recursive equation has a solution, and         *)
(* SetInduction is the same argument for a set B of good subsets, so that  *)
(* no lemma takes an operator as a parameter.                              *)
(***************************************************************************)
EXTENDS RevenueSplit, FiniteSetsExt, FiniteSetTheorems, WellFoundedInduction, TLAPS

Chosen(s) == CHOOSE x \in s : TRUE

(* The equation of the recursive function inside SumFunctionOnSet. *)
SumTerm(f, g, s) == IF s = {} THEN 0 ELSE f[Chosen(s)] + g[s \ {Chosen(s)}]
Sums(f, S, g) == g = [s \in SUBSET S |-> SumTerm(f, g, s)]

LEMMA SumDef ==
  ASSUME NEW f, NEW S
  PROVE  SumFunctionOnSet(f, S) = (CHOOSE g : Sums(f, S, g))[S]
  BY DEF SumFunctionOnSet, FoldFunctionOnSet, MapThenFoldSet, Sums, SumTerm, Chosen

(* A collection of subsets of a finite set has a member with no smaller one. *)
LEMMA MinimalSet ==
  ASSUME NEW S, IsFiniteSet(S), NEW T \in SUBSET (SUBSET S), T # {}
  PROVE  \E m \in T : \A y \in T : ~(y \subseteq m /\ y # m)
<1>1. T \subseteq FiniteSubsetsOf(S)
  BY FS_FiniteSubsetsOfFinite
<1>2. \E m \in T : \A y \in T : <<y, m>> \notin StrictSubsetOrdering(S)
  BY <1>1, FS_StrictSubsetOrderingWellFounded, WFMin
<1> QED
  BY <1>2 DEF StrictSubsetOrdering

LEMMA ChosenMember == ASSUME NEW s, s # {} PROVE Chosen(s) \in s
  BY DEF Chosen

(* On a set that both cover, two solutions of the equation agree. *)
LEMMA SumsAgree ==
  ASSUME NEW f, NEW S, IsFiniteSet(S), NEW A \in SUBSET S, NEW B \in SUBSET S,
         NEW g, Sums(f, A, g), NEW h, Sums(f, B, h), NEW s, s \subseteq A, s \subseteq B
  PROVE  g[s] = h[s]
<1> DEFINE Bad == {x \in SUBSET s : g[x] # h[x]}
<1>1. SUFFICES ASSUME Bad # {}
               PROVE  FALSE
  OBVIOUS
<1>2. IsFiniteSet(s)
  BY FS_Subset
<1>3. PICK m \in Bad : \A y \in Bad : ~(y \subseteq m /\ y # m)
  <2>1. Bad \in SUBSET (SUBSET s)
    OBVIOUS
  <2> HIDE DEF Bad
  <2> QED
    BY <1>1, <1>2, <2>1, MinimalSet
<1>4. m \in SUBSET A /\ m \in SUBSET B
  OBVIOUS
<1>5. g[m] = SumTerm(f, g, m) /\ h[m] = SumTerm(f, h, m)
  BY <1>4 DEF Sums
<1>6. CASE m = {}
  BY <1>3, <1>5, <1>6 DEF SumTerm
<1>7. CASE m # {}
  <2>1. Chosen(m) \in m
    BY <1>7, ChosenMember
  <2>2. m \ {Chosen(m)} \notin Bad
    BY <2>1, <1>3
  <2>3. g[m \ {Chosen(m)}] = h[m \ {Chosen(m)}]
    BY <2>2
  <2> QED
    BY <1>3, <1>5, <1>7, <2>3 DEF SumTerm
<1> QED
  BY <1>6, <1>7

(* There is one: a minimal set without would be extended from a smaller. *)
LEMMA SumsExist ==
  ASSUME NEW f, NEW S, IsFiniteSet(S)
  PROVE  \E g : Sums(f, S, g)
<1> DEFINE Bad == {A \in SUBSET S : ~ \E g : Sums(f, A, g)}
           H(A) == CHOOSE g : Sums(f, A, g)
<1>1. SUFFICES ASSUME Bad # {}
               PROVE  FALSE
  BY DEF Sums
<1>2. PICK A \in Bad : \A y \in Bad : ~(y \subseteq A /\ y # A)
  <2>1. Bad \in SUBSET (SUBSET S)
    OBVIOUS
  <2> HIDE DEF Bad
  <2> QED
    BY <1>1, <2>1, MinimalSet
<1>3. ASSUME NEW s \in SUBSET A, s # A
      PROVE  Sums(f, s, H(s))
  <2>1. \E g : Sums(f, s, g)
    BY <1>2, <1>3
  <2> QED
    BY <2>1
<1>4. ASSUME NEW s \in SUBSET A, s # {}
      PROVE  s \ {Chosen(s)} \in SUBSET A /\ s \ {Chosen(s)} # A /\ s \ {Chosen(s)} # s
  BY <1>4, ChosenMember
<1> DEFINE Before(s) == H(s \ {Chosen(s)})
           G == [s \in SUBSET A |-> IF s = {} THEN 0 ELSE SumTerm(f, Before(s), s)]
<1>5. ASSUME NEW s \in SUBSET A, s # {}
      PROVE  G[s \ {Chosen(s)}] = Before(s)[s \ {Chosen(s)}]
  <2> DEFINE t == s \ {Chosen(s)}
  <2>1. t \in SUBSET A /\ t # A /\ Sums(f, t, Before(s))
    BY <1>3, <1>4, <1>5
  <2>2. Before(s)[t] = SumTerm(f, Before(s), t)
    BY <2>1 DEF Sums
  <2>3. CASE t = {}
    BY <2>1, <2>2, <2>3 DEF SumTerm
  <2>4. CASE t # {}
    <3> DEFINE u == t \ {Chosen(t)}
    <3>1. u \in SUBSET A /\ u # A /\ Sums(f, u, Before(t)) /\ u \subseteq t
      BY <1>3, <1>4, <2>1, <2>4
    <3>2. IsFiniteSet(A)
      BY FS_Subset
    <3>3. Before(t)[u] = Before(s)[u]
      BY <2>1, <3>1, <3>2, SumsAgree
    <3>4. G[t] = SumTerm(f, Before(t), t)
      BY <2>1, <2>4
    <3> QED
      BY <2>2, <2>4, <3>3, <3>4 DEF SumTerm
  <2> QED
    BY <2>3, <2>4
<1>6. ASSUME NEW s \in SUBSET A
      PROVE  G[s] = SumTerm(f, G, s)
  <2>1. CASE s = {}
    BY <2>1 DEF SumTerm
  <2>2. CASE s # {}
    <3>1. G[s] = SumTerm(f, Before(s), s)
      BY <2>2
    <3>2. G[s \ {Chosen(s)}] = Before(s)[s \ {Chosen(s)}]
      BY <1>5, <2>2
    <3> HIDE DEF G, Before
    <3> QED
      BY <2>2, <3>1, <3>2 DEF SumTerm
  <2> QED
    BY <2>1, <2>2
<1>7. Sums(f, A, G)
  BY <1>6 DEF Sums
<1> QED
  BY <1>2, <1>7

(* The sums over the empty set and over any other. *)
LEMMA SumsOf ==
  ASSUME NEW f, NEW S, IsFiniteSet(S)
  PROVE  \E g : /\ Sums(f, S, g)
                /\ \A T \in SUBSET S : SumFunctionOnSet(f, T) = g[T]
<1>1. PICK g : Sums(f, S, g)
  BY SumsExist
<1>2. ASSUME NEW T \in SUBSET S
      PROVE  SumFunctionOnSet(f, T) = g[T]
  <2>1. IsFiniteSet(T)
    BY FS_Subset
  <2> DEFINE h == CHOOSE h : Sums(f, T, h)
  <2>2. Sums(f, T, h)
    BY <2>1, SumsExist
  <2>3. h[T] = g[T]
    BY <1>1, <2>2, SumsAgree
  <2> QED
    BY <2>3, SumDef
<1> QED
  BY <1>1, <1>2

-----------------------------------------------------------------------------
(* Induction over the subsets of a finite set, by their collection. *)
LEMMA SetInduction ==
  ASSUME NEW S, IsFiniteSet(S), NEW B, {} \in B,
         \A T \in SUBSET S : T # {} /\ (\A x \in T : T \ {x} \in B) => T \in B
  PROVE  S \in B
<1> DEFINE Bad == {T \in SUBSET S : T \notin B}
<1>1. SUFFICES ASSUME Bad # {}
               PROVE  FALSE
  OBVIOUS
<1>2. PICK m \in Bad : \A y \in Bad : ~(y \subseteq m /\ y # m)
  <2>1. Bad \in SUBSET (SUBSET S)
    OBVIOUS
  <2> HIDE DEF Bad
  <2> QED
    BY <1>1, <2>1, MinimalSet
<1>3. PICK x : x \in m
  BY <1>2
<1> QED
  BY <1>2, <1>3

LEMMA SumEmpty == ASSUME NEW f PROVE SumFunctionOnSet(f, {}) = 0
<1>1. PICK g : /\ Sums(f, {}, g)
               /\ \A T \in SUBSET {} : SumFunctionOnSet(f, T) = g[T]
  BY SumsOf, FS_EmptySet
<1> QED
  BY <1>1 DEF Sums, SumTerm

(* The equation holds of SumFunctionOnSet itself. *)
LEMMA SumPick ==
  ASSUME NEW f, NEW S, IsFiniteSet(S), S # {}
  PROVE  SumFunctionOnSet(f, S) = f[Chosen(S)] + SumFunctionOnSet(f, S \ {Chosen(S)})
<1>1. PICK g : /\ Sums(f, S, g)
               /\ \A T \in SUBSET S : SumFunctionOnSet(f, T) = g[T]
  BY SumsOf
<1>2. g[S] = SumTerm(f, g, S)
  BY <1>1 DEF Sums
<1> QED
  BY <1>1, <1>2 DEF SumTerm

LEMMA SumInt ==
  ASSUME NEW f, NEW S, IsFiniteSet(S), \A x \in S : f[x] \in Int
  PROVE  SumFunctionOnSet(f, S) \in Int
<1> DEFINE B == {T \in SUBSET S : SumFunctionOnSet(f, T) \in Int}
<1>1. {} \in B
  BY SumEmpty
<1>2. ASSUME NEW T \in SUBSET S, T # {}, \A y \in T : T \ {y} \in B
      PROVE  T \in B
  <2>1. IsFiniteSet(T) /\ Chosen(T) \in T
    BY <1>2, FS_Subset, ChosenMember
  <2>2. SumFunctionOnSet(f, T) = f[Chosen(T)] + SumFunctionOnSet(f, T \ {Chosen(T)})
    BY <1>2, <2>1, SumPick
  <2> QED
    BY <1>2, <2>1, <2>2
<1>3. S \in B
  <2> HIDE DEF B
  <2> QED
    BY <1>1, <1>2, SetInduction
<1> QED
  BY <1>3

(* It does not matter which element is taken out first. *)
LEMMA SumRemove ==
  ASSUME NEW f, NEW S, IsFiniteSet(S), \A x \in S : f[x] \in Int, NEW a \in S
  PROVE  SumFunctionOnSet(f, S) = f[a] + SumFunctionOnSet(f, S \ {a})
<1> DEFINE B == {T \in SUBSET S : \A x \in T :
                   SumFunctionOnSet(f, T) = f[x] + SumFunctionOnSet(f, T \ {x})}
<1>1. {} \in B
  OBVIOUS
<1>2. ASSUME NEW T \in SUBSET S, T # {}, \A y \in T : T \ {y} \in B
      PROVE  T \in B
  <2> SUFFICES ASSUME NEW x \in T
               PROVE  SumFunctionOnSet(f, T) = f[x] + SumFunctionOnSet(f, T \ {x})
    OBVIOUS
  <2> DEFINE p == Chosen(T)
  <2>1. IsFiniteSet(T) /\ p \in T
    BY <1>2, FS_Subset, ChosenMember
  <2>2. SumFunctionOnSet(f, T) = f[p] + SumFunctionOnSet(f, T \ {p})
    BY <1>2, <2>1, SumPick
  <2>3. CASE x = p
    BY <2>2, <2>3
  <2>4. CASE x # p
    <3>1. T \ {p} \in B /\ T \ {x} \in B
      BY <1>2, <2>1
    <3>2. SumFunctionOnSet(f, T \ {p}) = f[x] + SumFunctionOnSet(f, (T \ {p}) \ {x})
      BY <2>4, <3>1
    <3>3. SumFunctionOnSet(f, T \ {x}) = f[p] + SumFunctionOnSet(f, (T \ {x}) \ {p})
      BY <2>1, <2>4, <3>1
    <3>4. (T \ {x}) \ {p} = (T \ {p}) \ {x}
      OBVIOUS
    <3>5. IsFiniteSet((T \ {p}) \ {x}) /\ (T \ {p}) \ {x} \subseteq S
      BY FS_Subset
    <3>6. SumFunctionOnSet(f, (T \ {p}) \ {x}) \in Int
      BY <3>5, SumInt
    <3>7. f[x] \in Int /\ f[p] \in Int
      BY <2>1
    <3> DEFINE rest == SumFunctionOnSet(f, (T \ {p}) \ {x})
    <3>8. /\ SumFunctionOnSet(f, T) = f[p] + (f[x] + rest)
          /\ SumFunctionOnSet(f, T \ {x}) = f[p] + rest
      BY <2>2, <3>2, <3>3, <3>4
    <3>9. f[p] + (f[x] + rest) = f[x] + (f[p] + rest)
      <4> HIDE DEF p, rest
      <4> QED
        BY <3>6, <3>7 DEF rest
    <3> QED
      BY <3>8, <3>9
  <2> QED
    BY <2>3, <2>4
<1>3. S \in B
  <2> HIDE DEF B
  <2> QED
    BY <1>1, <1>2, SetInduction
<1> QED
  BY <1>3

(* Smaller terms, a smaller sum. *)
LEMMA SumMonotone ==
  ASSUME NEW f, NEW g, NEW S, IsFiniteSet(S),
         \A x \in S : f[x] \in Int /\ g[x] \in Int /\ f[x] <= g[x]
  PROVE  SumFunctionOnSet(f, S) <= SumFunctionOnSet(g, S)
<1> DEFINE B == {T \in SUBSET S : SumFunctionOnSet(f, T) <= SumFunctionOnSet(g, T)}
<1>1. {} \in B
  BY SumEmpty
<1>2. ASSUME NEW T \in SUBSET S, T # {}, \A y \in T : T \ {y} \in B
      PROVE  T \in B
  <2>1. PICK x : x \in T
    BY <1>2
  <2>2. IsFiniteSet(T) /\ IsFiniteSet(T \ {x})
    BY FS_Subset
  <2>3. /\ SumFunctionOnSet(f, T) = f[x] + SumFunctionOnSet(f, T \ {x})
        /\ SumFunctionOnSet(g, T) = g[x] + SumFunctionOnSet(g, T \ {x})
    BY <2>1, <2>2, SumRemove
  <2>4. SumFunctionOnSet(f, T \ {x}) \in Int /\ SumFunctionOnSet(g, T \ {x}) \in Int
    BY <2>2, SumInt
  <2>5. SumFunctionOnSet(f, T \ {x}) <= SumFunctionOnSet(g, T \ {x})
    BY <1>2, <2>1
  <2>6. f[x] \in Int /\ g[x] \in Int /\ f[x] <= g[x]
    BY <2>1
  <2>7. SumFunctionOnSet(f, T) <= SumFunctionOnSet(g, T)
    BY <2>3, <2>4, <2>5, <2>6
  <2> QED
    BY <2>7
<1>3. S \in B
  <2> HIDE DEF B
  <2> QED
    BY <1>1, <1>2, SetInduction
<1> QED
  BY <1>3

LEMMA SumNat ==
  ASSUME NEW f, NEW S, IsFiniteSet(S), \A x \in S : f[x] \in Nat
  PROVE  SumFunctionOnSet(f, S) \in Nat
<1> DEFINE B == {T \in SUBSET S : SumFunctionOnSet(f, T) \in Nat}
<1>1. {} \in B
  BY SumEmpty
<1>2. ASSUME NEW T \in SUBSET S, T # {}, \A y \in T : T \ {y} \in B
      PROVE  T \in B
  <2>1. IsFiniteSet(T) /\ Chosen(T) \in T
    BY <1>2, FS_Subset, ChosenMember
  <2>2. SumFunctionOnSet(f, T) = f[Chosen(T)] + SumFunctionOnSet(f, T \ {Chosen(T)})
    BY <1>2, <2>1, SumPick
  <2> QED
    BY <1>2, <2>1, <2>2
<1>3. S \in B
  <2> HIDE DEF B
  <2> QED
    BY <1>1, <1>2, SetInduction
<1> QED
  BY <1>3

(* Equal terms, equal sums. *)
LEMMA SumSame ==
  ASSUME NEW f, NEW g, NEW S, IsFiniteSet(S), \A x \in S : f[x] \in Int /\ f[x] = g[x]
  PROVE  SumFunctionOnSet(f, S) = SumFunctionOnSet(g, S)
<1>1. SumFunctionOnSet(f, S) <= SumFunctionOnSet(g, S) /\ SumFunctionOnSet(g, S) <= SumFunctionOnSet(f, S)
  BY SumMonotone
<1>2. SumFunctionOnSet(f, S) \in Int /\ SumFunctionOnSet(g, S) \in Int
  BY SumInt
<1> QED
  BY <1>1, <1>2
(* A sum splits into those over a part and over the rest. *)
LEMMA SumSplit ==
  ASSUME NEW f, NEW S, IsFiniteSet(S), \A x \in S : f[x] \in Int, NEW R \in SUBSET S
  PROVE  SumFunctionOnSet(f, S) = SumFunctionOnSet(f, R) + SumFunctionOnSet(f, S \ R)
<1> DEFINE B == {T \in SUBSET S : SumFunctionOnSet(f, T)
                   = SumFunctionOnSet(f, R \cap T) + SumFunctionOnSet(f, T \ R)}
<1>1. {} \in B
  <2>1. R \cap {} = {} /\ {} \ R = {}
    OBVIOUS
  <2> QED
    BY <2>1, SumEmpty
<1>2. ASSUME NEW T \in SUBSET S, T # {}, \A y \in T : T \ {y} \in B
      PROVE  T \in B
  <2>1. PICK x : x \in T
    BY <1>2
  <2> DEFINE rest == T \ {x}
  <2>2. /\ IsFiniteSet(T) /\ IsFiniteSet(R \cap T) /\ IsFiniteSet(T \ R)
        /\ IsFiniteSet(R \cap rest) /\ IsFiniteSet(rest \ R)
    BY FS_Subset
  <2>3. SumFunctionOnSet(f, T) = f[x] + SumFunctionOnSet(f, rest)
    BY <2>1, <2>2, SumRemove
  <2>4. SumFunctionOnSet(f, R \cap rest) \in Int /\ SumFunctionOnSet(f, rest \ R) \in Int
    BY <2>2, SumInt
  <2>5. SumFunctionOnSet(f, rest) = SumFunctionOnSet(f, R \cap rest) + SumFunctionOnSet(f, rest \ R)
    BY <1>2, <2>1
  <2>6. f[x] \in Int
    BY <2>1
  <2>7. CASE x \in R
    <3>1. (R \cap T) \ {x} = R \cap rest /\ x \in R \cap T /\ T \ R = rest \ R
      BY <2>1, <2>7
    <3>2. SumFunctionOnSet(f, R \cap T) = f[x] + SumFunctionOnSet(f, (R \cap T) \ {x})
      BY <2>2, <3>1, SumRemove
    <3>3. /\ SumFunctionOnSet(f, R \cap T) = f[x] + SumFunctionOnSet(f, R \cap rest)
          /\ SumFunctionOnSet(f, T \ R) = SumFunctionOnSet(f, rest \ R)
      BY <3>1, <3>2
    <3>4. SumFunctionOnSet(f, T) = SumFunctionOnSet(f, R \cap T) + SumFunctionOnSet(f, T \ R)
      <4> HIDE DEF rest
      <4> QED
        BY <2>3, <2>4, <2>5, <2>6, <3>3
    <3> QED
      BY <3>4
  <2>8. CASE x \notin R
    <3>1. (T \ R) \ {x} = rest \ R /\ x \in T \ R /\ R \cap T = R \cap rest
      BY <2>1, <2>8
    <3>2. SumFunctionOnSet(f, T \ R) = f[x] + SumFunctionOnSet(f, (T \ R) \ {x})
      BY <2>2, <3>1, SumRemove
    <3>3. /\ SumFunctionOnSet(f, T \ R) = f[x] + SumFunctionOnSet(f, rest \ R)
          /\ SumFunctionOnSet(f, R \cap T) = SumFunctionOnSet(f, R \cap rest)
      BY <3>1, <3>2
    <3>4. SumFunctionOnSet(f, T) = SumFunctionOnSet(f, R \cap T) + SumFunctionOnSet(f, T \ R)
      <4> HIDE DEF rest
      <4> QED
        BY <2>3, <2>4, <2>5, <2>6, <3>3
    <3> QED
      BY <3>4
  <2> QED
    BY <2>7, <2>8
<1>3. S \in B
  <2> HIDE DEF B
  <2> QED
    BY <1>1, <1>2, SetInduction
<1>4. R \cap S = R
  OBVIOUS
<1> QED
  BY <1>3, <1>4

LEMMA SumSubset ==
  ASSUME NEW f, NEW S, IsFiniteSet(S), \A x \in S : f[x] \in Nat, NEW R \in SUBSET S
  PROVE  SumFunctionOnSet(f, R) <= SumFunctionOnSet(f, S)
<1>1. SumFunctionOnSet(f, S) = SumFunctionOnSet(f, R) + SumFunctionOnSet(f, S \ R)
  BY SumSplit
<1>2. IsFiniteSet(R) /\ IsFiniteSet(S \ R)
  BY FS_Subset
<1>3. SumFunctionOnSet(f, R) \in Nat /\ SumFunctionOnSet(f, S \ R) \in Nat
  BY <1>2, SumNat
<1> QED
  BY <1>1, <1>3

LEMMA TimesPlus == \A a, b, c \in Int : c * (a + b) = c * a + c * b
  OBVIOUS

(* Sums are linear. *)
LEMMA SumScaled ==
  ASSUME NEW f, NEW g, NEW c \in Int, NEW S, IsFiniteSet(S),
         \A x \in S : f[x] \in Int /\ g[x] = c * f[x]
  PROVE  SumFunctionOnSet(g, S) = c * SumFunctionOnSet(f, S)
<1> DEFINE B == {T \in SUBSET S : SumFunctionOnSet(g, T) = c * SumFunctionOnSet(f, T)}
<1>1. {} \in B
  BY SumEmpty
<1>2. ASSUME NEW T \in SUBSET S, T # {}, \A y \in T : T \ {y} \in B
      PROVE  T \in B
  <2>1. IsFiniteSet(T) /\ IsFiniteSet(T \ {Chosen(T)}) /\ Chosen(T) \in T
    BY <1>2, FS_Subset, ChosenMember
  <2>2. /\ SumFunctionOnSet(f, T) = f[Chosen(T)] + SumFunctionOnSet(f, T \ {Chosen(T)})
        /\ SumFunctionOnSet(g, T) = g[Chosen(T)] + SumFunctionOnSet(g, T \ {Chosen(T)})
    BY <1>2, <2>1, SumPick
  <2>3. SumFunctionOnSet(g, T \ {Chosen(T)}) = c * SumFunctionOnSet(f, T \ {Chosen(T)})
    BY <1>2, <2>1
  <2>4. f[Chosen(T)] \in Int /\ g[Chosen(T)] = c * f[Chosen(T)]
    BY <2>1
  <2>5. SumFunctionOnSet(f, T \ {Chosen(T)}) \in Int
    BY <2>1, SumInt
  <2>6. c * (f[Chosen(T)] + SumFunctionOnSet(f, T \ {Chosen(T)}))
          = c * f[Chosen(T)] + c * SumFunctionOnSet(f, T \ {Chosen(T)})
    BY <2>4, <2>5, TimesPlus
  <2>7. SumFunctionOnSet(g, T) = c * SumFunctionOnSet(f, T)
    BY <2>2, <2>3, <2>4, <2>6
  <2> QED
    BY <2>7
<1>3. S \in B
  <2> HIDE DEF B
  <2> QED
    BY <1>1, <1>2, SetInduction
<1> QED
  BY <1>3

LEMMA SumPlus ==
  ASSUME NEW f, NEW g, NEW h, NEW S, IsFiniteSet(S),
         \A x \in S : f[x] \in Int /\ g[x] \in Int /\ h[x] = f[x] + g[x]
  PROVE  SumFunctionOnSet(h, S) = SumFunctionOnSet(f, S) + SumFunctionOnSet(g, S)
<1> DEFINE B == {T \in SUBSET S :
                   SumFunctionOnSet(h, T) = SumFunctionOnSet(f, T) + SumFunctionOnSet(g, T)}
<1>1. {} \in B
  BY SumEmpty
<1>2. ASSUME NEW T \in SUBSET S, T # {}, \A y \in T : T \ {y} \in B
      PROVE  T \in B
  <2> DEFINE p == Chosen(T)
             rest == T \ {p}
  <2>1. IsFiniteSet(T) /\ IsFiniteSet(rest) /\ p \in T
    BY <1>2, FS_Subset, ChosenMember
  <2>2. /\ SumFunctionOnSet(f, T) = f[p] + SumFunctionOnSet(f, rest)
        /\ SumFunctionOnSet(g, T) = g[p] + SumFunctionOnSet(g, rest)
        /\ SumFunctionOnSet(h, T) = h[p] + SumFunctionOnSet(h, rest)
    BY <1>2, <2>1, SumPick
  <2>3. SumFunctionOnSet(h, rest) = SumFunctionOnSet(f, rest) + SumFunctionOnSet(g, rest)
    BY <1>2, <2>1
  <2>4. f[p] \in Int /\ g[p] \in Int /\ h[p] = f[p] + g[p]
    BY <2>1
  <2>5. SumFunctionOnSet(f, rest) \in Int /\ SumFunctionOnSet(g, rest) \in Int
    BY <2>1, SumInt
  <2>6. SumFunctionOnSet(h, T) = SumFunctionOnSet(f, T) + SumFunctionOnSet(g, T)
    <3> HIDE DEF p, rest
    <3> QED
      BY <2>2, <2>3, <2>4, <2>5
  <2> QED
    BY <2>6
<1>3. S \in B
  <2> HIDE DEF B
  <2> QED
    BY <1>1, <1>2, SetInduction
<1> QED
  BY <1>3

LEMMA SumConstant ==
  ASSUME NEW f, NEW c \in Int, NEW S, IsFiniteSet(S), \A x \in S : f[x] = c
  PROVE  SumFunctionOnSet(f, S) = c * Cardinality(S)
<1> DEFINE B == {T \in SUBSET S : SumFunctionOnSet(f, T) = c * Cardinality(T)}
<1>1. {} \in B
  BY SumEmpty, FS_EmptySet
<1>2. ASSUME NEW T \in SUBSET S, T # {}, \A y \in T : T \ {y} \in B
      PROVE  T \in B
  <2>1. IsFiniteSet(T) /\ IsFiniteSet(T \ {Chosen(T)}) /\ Chosen(T) \in T
    BY <1>2, FS_Subset, ChosenMember
  <2>2. SumFunctionOnSet(f, T) = f[Chosen(T)] + SumFunctionOnSet(f, T \ {Chosen(T)})
    BY <1>2, <2>1, SumPick
  <2>3. SumFunctionOnSet(f, T \ {Chosen(T)}) = c * Cardinality(T \ {Chosen(T)}) /\ f[Chosen(T)] = c
    BY <1>2, <2>1
  <2>4. /\ Cardinality(T) \in Nat /\ Cardinality(T \ {Chosen(T)}) \in Int
        /\ Cardinality(T) = 1 + Cardinality(T \ {Chosen(T)})
    BY <2>1, FS_RemoveElement, FS_CardinalityType
  <2>5. c * (1 + Cardinality(T \ {Chosen(T)})) = c * 1 + c * Cardinality(T \ {Chosen(T)})
    BY <2>4, TimesPlus
  <2>6. SumFunctionOnSet(f, T) = c * Cardinality(T)
    BY <2>2, <2>3, <2>4, <2>5
  <2> QED
    BY <2>6
<1>3. S \in B
  <2> HIDE DEF B
  <2> QED
    BY <1>1, <1>2, SetInduction
<1> QED
  BY <1>3

LEMMA SumZero ==
  ASSUME NEW f, NEW S, IsFiniteSet(S), \A x \in S : f[x] = 0
  PROVE  SumFunctionOnSet(f, S) = 0
<1>1. SumFunctionOnSet(f, S) = 0 * Cardinality(S)
  BY SumConstant
<1> QED
  BY <1>1, FS_CardinalityType

(* Division truncates; multiplication keeps the order. *)
LEMMA DivFacts ==
  ASSUME NEW a \in Nat, NEW b \in Nat \ {0}
  PROVE  a \div b \in Nat /\ b * (a \div b) <= a /\ a < b * (a \div b) + b
  OBVIOUS

LEMMA TimesMonotone ==
  ASSUME NEW a \in Int, NEW b \in Int, NEW c \in Nat, a <= b
  PROVE  a * c <= b * c /\ c * a <= c * b
  OBVIOUS

LEMMA TimesCancel ==
  ASSUME NEW a \in Int, NEW b \in Int, NEW c \in Nat \ {0}, c * a <= c * b
  PROVE  a <= b
  OBVIOUS

(* A larger dividend, or a smaller divisor, gives no smaller quotient. *)
LEMMA DivMonotone ==
  ASSUME NEW a \in Nat, NEW b \in Nat \ {0}, NEW c \in Nat, NEW d \in Nat \ {0}, a <= c, d <= b
  PROVE  a \div b <= c \div d
<1>1. /\ a \div b \in Nat /\ b * (a \div b) <= a
      /\ c \div d \in Nat /\ c < d * (c \div d) + d
  BY DivFacts
<1> DEFINE p == a \div b
           q == c \div d
<1>2. SUFFICES ASSUME q + 1 <= p
               PROVE  FALSE
  BY <1>1
<1> HIDE DEF p, q
<1>3. d * (q + 1) <= d * p /\ d * p <= b * p
  BY <1>1, <1>2, TimesMonotone DEF p, q
<1>4. d * (q + 1) = d * q + d * 1
  BY <1>1, TimesPlus DEF p, q
<1> QED
  BY <1>1, <1>3, <1>4 DEF p, q

-----------------------------------------------------------------------------
(* MemberShares for any scores. *)

ScoresOK(scores) == IsFiniteSet(DOMAIN scores) /\ \A m \in DOMAIN scores : scores[m] \in Nat

LEMMA ScoreTotals ==
  ASSUME NEW scores, ScoresOK(scores)
  PROVE  /\ IsFiniteSet(Scored(scores)) /\ TotalScore(scores) \in Nat
         /\ \A m \in Scored(scores) : scores[m] \in Nat \ {0} /\ TotalScore(scores) >= scores[m]
<1>1. IsFiniteSet(Scored(scores)) /\ \A m \in Scored(scores) : scores[m] \in Nat \ {0}
  BY FS_Subset DEF ScoresOK, Scored
<1>2. TotalScore(scores) \in Nat
  BY <1>1, SumNat DEF TotalScore
<1>3. ASSUME NEW m \in Scored(scores)
      PROVE  TotalScore(scores) >= scores[m]
  <2>1. TotalScore(scores) = scores[m] + SumFunctionOnSet(scores, Scored(scores) \ {m})
    BY <1>1, SumRemove DEF TotalScore
  <2>2. IsFiniteSet(Scored(scores) \ {m})
    BY <1>1, FS_Subset
  <2>3. SumFunctionOnSet(scores, Scored(scores) \ {m}) \in Nat
    BY <1>1, <2>2, SumNat
  <2>4. scores[m] \in Nat
    BY <1>1
  <2> QED
    BY <2>1, <2>3, <2>4
<1> QED
  BY <1>1, <1>2, <1>3

(* Who is sent a share, and which. *)
LEMMA ShareOf ==
  ASSUME NEW pool \in Nat, NEW scores, ScoresOK(scores)
  PROVE  LET shares == MemberShares(pool, scores)
             total  == TotalScore(scores)
         IN  /\ DOMAIN shares \subseteq Scored(scores)
             /\ \A m \in Scored(scores) :
                  /\ total \in Nat \ {0}
                  /\ m \in DOMAIN shares <=> scores[m] * pool >= UnitNano * total
             /\ \A m \in DOMAIN shares : /\ shares[m] = (scores[m] * pool) \div total
                                         /\ shares[m] \in Nat
<1>1. \A m \in Scored(scores) : TotalScore(scores) \in Nat \ {0} /\ scores[m] \in Nat
  BY ScoreTotals
<1>2. \A m \in Scored(scores) : scores[m] * pool \in Nat
  BY <1>1
<1>3. \A m \in Scored(scores) : (scores[m] * pool) \div TotalScore(scores) \in Nat
  BY <1>1, <1>2, DivFacts
<1> QED
  BY <1>1, <1>3 DEF MemberShares

(* More activity is never paid less. *)
LEMMA SharesFollowScores ==
  ASSUME NEW pool \in Nat, NEW scores, ScoresOK(scores),
         NEW m \in DOMAIN scores, NEW n \in DOMAIN MemberShares(pool, scores),
         scores[m] >= scores[n]
  PROVE  /\ m \in DOMAIN MemberShares(pool, scores)
         /\ MemberShares(pool, scores)[m] >= MemberShares(pool, scores)[n]
<1> DEFINE shares == MemberShares(pool, scores)
           total  == TotalScore(scores)
<1>1. n \in Scored(scores) /\ total \in Nat \ {0} /\ scores[n] * pool >= UnitNano * total
  BY ShareOf
<1>2. scores[m] \in Nat /\ scores[n] \in Nat /\ m \in Scored(scores)
  BY <1>1 DEF ScoresOK, Scored
<1>3. scores[n] * pool <= scores[m] * pool /\ scores[n] * pool \in Nat /\ scores[m] * pool \in Nat
  BY <1>2, TimesMonotone
<1>4. UnitNano * total \in Nat
  BY <1>1 DEF UnitNano
<1>5. m \in DOMAIN shares
  <2>1. scores[m] * pool >= UnitNano * total
    <3> HIDE DEF total
    <3> QED
      BY <1>1, <1>3, <1>4
  <2> QED
    BY <1>2, <2>1, ShareOf
<1>6. shares[m] = (scores[m] * pool) \div total /\ shares[n] = (scores[n] * pool) \div total
  BY <1>5, ShareOf
<1>7. (scores[n] * pool) \div total <= (scores[m] * pool) \div total
  BY <1>1, <1>3, DivMonotone
<1>8. shares[m] \in Nat /\ shares[n] \in Nat
  BY <1>5, ShareOf
<1> HIDE DEF shares, total
<1>9. shares[m] >= shares[n]
  BY <1>6, <1>7, <1>8
<1> QED
  BY <1>5, <1>9 DEF shares

(* The shares fit into the pool. *)
LEMMA SharesFit ==
  ASSUME NEW pool \in Nat, NEW scores, ScoresOK(scores)
  PROVE  /\ SumFunction(MemberShares(pool, scores)) \in Nat
         /\ SumFunction(MemberShares(pool, scores)) <= pool
<1> DEFINE shares == MemberShares(pool, scores)
           total  == TotalScore(scores)
           P      == DOMAIN shares
           S      == Scored(scores)
           least  == [m \in P |-> total * shares[m]]
           due    == [m \in S |-> pool * scores[m]]
<1>1. /\ P \subseteq S /\ IsFiniteSet(S) /\ IsFiniteSet(P) /\ total \in Nat
      /\ \A m \in P : shares[m] \in Nat
      /\ \A m \in S : total \in Nat \ {0} /\ scores[m] \in Nat
  BY ShareOf, ScoreTotals, FS_Subset
<1>2. SumFunctionOnSet(shares, P) \in Nat
  BY <1>1, SumNat
<1>3. CASE P = {}
  <2>1. SumFunctionOnSet(shares, P) = 0
    BY <1>3, SumEmpty
  <2> QED
    BY <1>2, <2>1 DEF SumFunction
<1>4. CASE P # {}
  <2>1. total \in Nat \ {0}
    BY <1>1, <1>4
  <2>2. \A m \in S : due[m] \in Nat
    BY <1>1
  <2>3. \A m \in P : least[m] \in Int /\ due[m] \in Int /\ least[m] <= due[m]
    <3> SUFFICES ASSUME NEW m \in P
                 PROVE  least[m] \in Int /\ due[m] \in Int /\ least[m] <= due[m]
      OBVIOUS
    <3>1. shares[m] = (scores[m] * pool) \div total
      BY ShareOf
    <3>2. scores[m] \in Nat /\ scores[m] * pool \in Nat /\ scores[m] * pool = pool * scores[m]
      BY <1>1
    <3>3. total * ((scores[m] * pool) \div total) <= scores[m] * pool
      BY <2>1, <3>2, DivFacts
    <3>4. total * shares[m] <= pool * scores[m] /\ total * shares[m] \in Int /\ pool * scores[m] \in Int
      <4> HIDE DEF total, shares
      <4> QED
        BY <3>1, <3>2, <3>3, <2>1, <1>1
    <3> QED
      BY <1>1, <3>4
  <2>4. SumFunctionOnSet(least, P) <= SumFunctionOnSet(due, P)
    BY <1>1, <2>3, SumMonotone
  <2>5. SumFunctionOnSet(due, P) <= SumFunctionOnSet(due, S)
    BY <1>1, <2>2, SumSubset
  <2>6. SumFunctionOnSet(due, S) = pool * total
    BY <1>1, SumScaled DEF TotalScore
  <2>7. SumFunctionOnSet(least, P) = total * SumFunctionOnSet(shares, P)
    BY <1>1, SumScaled
  <2>8. SumFunctionOnSet(least, P) \in Int /\ SumFunctionOnSet(due, P) \in Int
    BY <1>1, <2>3, SumInt
  <2>9. total * SumFunctionOnSet(shares, P) <= total * pool
    <3> HIDE DEF total, shares, P, S, least, due
    <3> QED
      BY <2>1, <2>4, <2>5, <2>6, <2>7, <2>8
  <2>10. SumFunctionOnSet(shares, P) <= pool
    BY <1>2, <2>1, <2>9, TimesCancel
  <2> QED
    BY <1>2, <2>10 DEF SumFunction
<1> QED
  BY <1>3, <1>4

(* What is kept back is at most one nano-TON for each member paid and      *)
(* UnitNano for each one skipped.                                          *)
LEMMA DustIsSmall ==
  ASSUME NEW pool \in Nat, NEW scores, ScoresOK(scores), Scored(scores) # {}
  PROVE  LET paid    == DOMAIN MemberShares(pool, scores)
             skipped == Scored(scores) \ paid
         IN  pool - SumFunction(MemberShares(pool, scores))
               <= Cardinality(paid) + UnitNano * Cardinality(skipped)
<1> DEFINE shares == MemberShares(pool, scores)
           total  == TotalScore(scores)
           P      == DOMAIN shares
           S      == Scored(scores)
           due    == [m \in S |-> pool * scores[m]]
           one    == [m \in P |-> 1]
           atMost == [m \in S |-> IF m \in P THEN shares[m] + 1 ELSE UnitNano]
           most   == [m \in S |-> total * atMost[m]]
<1>1. /\ P \subseteq S /\ IsFiniteSet(S) /\ IsFiniteSet(P) /\ IsFiniteSet(S \ P)
      /\ \A m \in P : shares[m] \in Nat
      /\ total \in Nat \ {0} /\ \A m \in S : scores[m] \in Nat
  BY ShareOf, ScoreTotals, FS_Subset
<1>2. \A m \in S : atMost[m] \in Nat /\ most[m] \in Int
  BY <1>1 DEF UnitNano
<1>3. \A m \in S : due[m] \in Int /\ due[m] <= most[m]
  <2> SUFFICES ASSUME NEW m \in S
               PROVE  pool * scores[m] \in Int /\ pool * scores[m] <= total * atMost[m]
    OBVIOUS
  <2>1. scores[m] \in Nat /\ scores[m] * pool \in Nat /\ scores[m] * pool = pool * scores[m]
    BY <1>1
  <2>2. CASE m \in P
    <3>1. shares[m] = (scores[m] * pool) \div total /\ shares[m] \in Nat
      BY <2>2, ShareOf
    <3>2. scores[m] * pool < total * ((scores[m] * pool) \div total) + total
      BY <1>1, <2>1, DivFacts
    <3>3. total * (shares[m] + 1) = total * shares[m] + total * 1
      BY <1>1, <3>1, TimesPlus
    <3>4. atMost[m] = shares[m] + 1
      BY <2>2
    <3>5. pool * scores[m] <= total * (shares[m] + 1)
      <4> HIDE DEF total, shares
      <4> QED
        BY <1>1, <2>1, <3>1, <3>2, <3>3
    <3> QED
      BY <2>1, <3>4, <3>5
  <2>3. CASE m \notin P
    <3>1. ~(scores[m] * pool >= UnitNano * total)
      BY <2>3, ShareOf
    <3>2. atMost[m] = UnitNano
      BY <2>3
    <3>3. pool * scores[m] <= total * UnitNano
      <4> HIDE DEF total
      <4> QED
        BY <1>1, <2>1, <3>1 DEF UnitNano
    <3> QED
      BY <2>1, <3>2, <3>3
  <2> QED
    BY <2>2, <2>3
<1>4. SumFunctionOnSet(due, S) <= SumFunctionOnSet(most, S)
  BY <1>1, <1>2, <1>3, SumMonotone
<1>5. SumFunctionOnSet(due, S) = pool * total
  BY <1>1, SumScaled DEF TotalScore
<1>6. SumFunctionOnSet(most, S) = total * SumFunctionOnSet(atMost, S)
  BY <1>1, <1>2, SumScaled
<1>7. SumFunctionOnSet(atMost, S) = SumFunctionOnSet(atMost, P) + SumFunctionOnSet(atMost, S \ P)
  BY <1>1, <1>2, SumSplit
<1>8. SumFunctionOnSet(atMost, P) = SumFunctionOnSet(shares, P) + SumFunctionOnSet(one, P)
  BY <1>1, SumPlus
<1>9. SumFunctionOnSet(one, P) = 1 * Cardinality(P)
  BY <1>1, SumConstant
<1>10. SumFunctionOnSet(atMost, S \ P) = UnitNano * Cardinality(S \ P)
  BY <1>1, SumConstant DEF UnitNano
<1>11. /\ Cardinality(P) \in Nat /\ Cardinality(S \ P) \in Nat
       /\ SumFunctionOnSet(shares, P) \in Nat
  BY <1>1, FS_CardinalityType, SumNat
<1> DEFINE paid == SumFunctionOnSet(shares, P)
           dust == Cardinality(P) + UnitNano * Cardinality(S \ P)
<1>12. SumFunctionOnSet(atMost, S) = paid + dust /\ paid + dust \in Int
  <2> HIDE DEF shares, P, S, one, atMost
  <2> QED
    BY <1>7, <1>8, <1>9, <1>10, <1>11 DEF UnitNano
<1>13. total * pool <= total * (paid + dust)
  <2> HIDE DEF paid, dust, most, due, atMost, total
  <2> QED
    BY <1>1, <1>4, <1>5, <1>6, <1>12
<1>14. pool <= paid + dust
  BY <1>1, <1>12, <1>13, TimesCancel
<1>15. pool - paid <= dust
  <2> HIDE DEF shares, P, S
  <2> QED
    BY <1>11, <1>14 DEF UnitNano
<1> QED
  BY <1>15 DEF SumFunction

(* When members drop out, nobody who stays is sent less. *)
LEMMA RoomIsMade ==
  ASSUME NEW pool \in Nat, NEW before, ScoresOK(before), NEW after, ScoresOK(after),
         DOMAIN after \subseteq DOMAIN before,
         \A m \in DOMAIN after : after[m] = before[m],
         NEW m \in DOMAIN after, m \in DOMAIN MemberShares(pool, before)
  PROVE  /\ m \in DOMAIN MemberShares(pool, after)
         /\ MemberShares(pool, after)[m] >= MemberShares(pool, before)[m]
<1> DEFINE old == TotalScore(before)
           new == TotalScore(after)
<1>1. /\ m \in Scored(before) /\ m \in Scored(after) /\ before[m] \in Nat
      /\ old \in Nat \ {0} /\ new \in Nat \ {0}
      /\ before[m] * pool >= UnitNano * old
  <2>1. m \in Scored(before) /\ old \in Nat \ {0} /\ before[m] * pool >= UnitNano * old
    BY ShareOf
  <2>2. m \in Scored(after) /\ before[m] \in Nat
    BY <2>1 DEF ScoresOK, Scored
  <2>3. new \in Nat \ {0}
    BY <2>2, ShareOf
  <2> QED
    BY <2>1, <2>2, <2>3
<1>2. new <= old
  <2>1. /\ Scored(after) \subseteq Scored(before) /\ IsFiniteSet(Scored(before))
        /\ IsFiniteSet(Scored(after))
        /\ \A x \in Scored(before) : before[x] \in Nat
        /\ \A x \in Scored(after) : after[x] \in Int /\ after[x] = before[x]
    <3>1. IsFiniteSet(Scored(before)) /\ \A x \in Scored(before) : before[x] \in Nat
      BY ScoreTotals
    <3>2. IsFiniteSet(Scored(after)) /\ \A x \in Scored(after) : after[x] \in Nat
      BY ScoreTotals
    <3> QED
      BY <3>1, <3>2 DEF Scored
  <2>2. SumFunctionOnSet(after, Scored(after)) = SumFunctionOnSet(before, Scored(after))
    BY <2>1, SumSame
  <2>3. SumFunctionOnSet(before, Scored(after)) <= SumFunctionOnSet(before, Scored(before))
    BY <2>1, SumSubset
  <2> QED
    BY <2>2, <2>3 DEF TotalScore
<1>3. before[m] * pool \in Nat /\ after[m] = before[m]
  BY <1>1
<1>4. m \in DOMAIN MemberShares(pool, after)
  <2>1. before[m] * pool >= UnitNano * new
    <3> HIDE DEF old, new
    <3> QED
      BY <1>1, <1>2, <1>3 DEF UnitNano
  <2> QED
    BY <1>1, <1>3, <2>1, ShareOf
<1>5. /\ MemberShares(pool, after)[m] = (before[m] * pool) \div new
      /\ MemberShares(pool, before)[m] = (before[m] * pool) \div old
      /\ MemberShares(pool, after)[m] \in Nat /\ MemberShares(pool, before)[m] \in Nat
  BY <1>3, <1>4, ShareOf
<1>6. (before[m] * pool) \div old <= (before[m] * pool) \div new
  BY <1>1, <1>2, <1>3, DivMonotone
<1>7. MemberShares(pool, after)[m] >= MemberShares(pool, before)[m]
  BY <1>5, <1>6
<1> QED
  BY <1>4, <1>7

=============================================================================
