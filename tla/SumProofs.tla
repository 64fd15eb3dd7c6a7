----------------------------- MODULE SumProofs ------------------------------
(***************************************************************************)
(* Facts about sums of the values of a function over a finite set of its   *)
(* arguments (SumFunctionOnSet), which the proofs about money cite.        *)
(***************************************************************************)
EXTENDS Integers, Sequences, Functions, FiniteSetTheorems, WellFoundedInduction, TLAPS

\* The summand that the fold takes next.
Pick(T) == CHOOSE x \in T : TRUE

\* g is the recursive function whose value at S is the sum.
SumRec(f, S, g) ==
    g = [s \in SUBSET S |-> IF s = {} THEN 0 ELSE f[Pick(s)] + g[s \ {Pick(s)}]]

\* The sum is the value of a function that the recursion describes.
LEMMA SumUnfolds ==
    ASSUME NEW f, NEW S
    PROVE  SumFunctionOnSet(f, S) = (CHOOSE g : SumRec(f, S, g))[S]
  BY DEF SumFunctionOnSet, FoldFunctionOnSet, MapThenFoldSet, SumRec, Pick

\* A set that contains each subset of S whose smaller subsets it contains has them all.
LEMMA SubsetInduction ==
    ASSUME NEW S, IsFiniteSet(S), NEW G,
           \A T \in SUBSET S : (\A U \in SUBSET T : U # T => U \in G) => T \in G
    PROVE  SUBSET S \subseteq G
<1> DEFINE bad == {T \in SUBSET S : T \notin G}
<1>1. SUFFICES ASSUME bad # {} PROVE FALSE
  OBVIOUS
<1>2. IsWellFoundedOn(StrictSubsetOrdering(S), SUBSET S)
  BY FS_StrictSubsetOrderingWellFounded, FS_FiniteSubsetsOfFinite
<1>3. PICK T \in bad : \A U \in bad : ~ (<<U, T>> \in StrictSubsetOrdering(S))
  <2> HIDE DEF bad
  <2>1. bad \subseteq SUBSET S
    BY DEF bad
  <2> QED
    BY <1>1, <1>2, <2>1, WFMin
<1>4. \A U \in SUBSET T : U # T => U \in G
  BY <1>3 DEF StrictSubsetOrdering
<1> QED
  BY <1>3, <1>4

\* The recursion that defines the sum has a solution: the sums themselves.
LEMMA SumDefined ==
    ASSUME NEW f, NEW S, IsFiniteSet(S)
    PROVE  /\ SumFunctionOnSet(f, {}) = 0
           /\ S # {} => SumFunctionOnSet(f, S)
                           = f[Pick(S)] + SumFunctionOnSet(f, S \ {Pick(S)})
<1> DEFINE the(T) == CHOOSE g : SumRec(f, T, g)
           agrees(T) == SumRec(f, T, the(T)) /\ \A V \in SUBSET T : the(T)[V] = SumFunctionOnSet(f, V)
           G == {T \in SUBSET S : agrees(T)}
<1>1. ASSUME NEW T \in SUBSET S, \A U \in SUBSET T : U # T => U \in G
      PROVE  T \in G
  <2> DEFINE g == [V \in SUBSET T |-> IF V = {} THEN 0
                                       ELSE f[Pick(V)] + SumFunctionOnSet(f, V \ {Pick(V)})]
  <2>1. ASSUME NEW V \in SUBSET T, V # T
        PROVE  SumFunctionOnSet(f, V) = IF V = {} THEN 0
                  ELSE f[Pick(V)] + SumFunctionOnSet(f, V \ {Pick(V)})
    <3>1. agrees(V)
      BY <1>1, <2>1
    <3>2. the(V)[V] = IF V = {} THEN 0 ELSE f[Pick(V)] + the(V)[V \ {Pick(V)}]
      BY <3>1 DEF SumRec
    <3>3. the(V)[V] = SumFunctionOnSet(f, V)
          /\ the(V)[V \ {Pick(V)}] = SumFunctionOnSet(f, V \ {Pick(V)})
      BY <3>1
    <3> QED
      BY <3>2, <3>3
  <2>2. ASSUME NEW V \in SUBSET T
        PROVE  g[V] = IF V = {} THEN 0 ELSE f[Pick(V)] + g[V \ {Pick(V)}]
    <3>1. CASE V = {}
      BY <3>1
    <3>2. CASE V # {}
      <4>1. Pick(V) \in V
        BY <3>2 DEF Pick
      <4>2. V \ {Pick(V)} \in SUBSET T /\ V \ {Pick(V)} # T
        BY <4>1
      <4>3. g[V \ {Pick(V)}] = SumFunctionOnSet(f, V \ {Pick(V)})
        BY <2>1, <4>2
      <4> QED
        BY <3>2, <4>3
    <3> QED
      BY <3>1, <3>2
  <2>3. SumRec(f, T, g)
    BY <2>2 DEF SumRec
  <2>4. SumRec(f, T, the(T))
    BY <2>3
  <2>5. \A V \in SUBSET T : the(T)[V] = IF V = {} THEN 0
                                          ELSE f[Pick(V)] + the(T)[V \ {Pick(V)}]
    BY <2>4 DEF SumRec
  <2> DEFINE H == {V \in SUBSET T : V = T \/ the(T)[V] = SumFunctionOnSet(f, V)}
  <2>6. ASSUME NEW V \in SUBSET T, \A U \in SUBSET V : U # V => U \in H
        PROVE  V \in H
    <3>1. CASE V = T
      BY <3>1
    <3>2. CASE V # T /\ V = {}
      BY <2>1, <2>5, <3>2
    <3>3. CASE V # T /\ V # {}
      <4>1. Pick(V) \in V
        BY <3>3 DEF Pick
      <4>2. V \ {Pick(V)} \in H /\ V \ {Pick(V)} # T
        BY <2>6, <4>1
      <4> QED
        BY <2>1, <2>5, <3>3, <4>2
    <3> QED
      BY <3>1, <3>2, <3>3
  <2>7. SUBSET T \subseteq H
    <3>1. IsFiniteSet(T)
      BY FS_Subset
    <3> HIDE DEF H
    <3> QED
      BY <2>6, <3>1, SubsetInduction
  <2>8. the(T)[T] = SumFunctionOnSet(f, T)
    BY SumUnfolds
  <2> QED
    BY <2>4, <2>7, <2>8
<1>2. SUBSET S \subseteq G
  <2> HIDE DEF G
  <2> QED
    BY <1>1, SubsetInduction
<1>3. agrees(S) /\ agrees({})
  BY <1>2
<1>4. the(S)[S] = IF S = {} THEN 0 ELSE f[Pick(S)] + the(S)[S \ {Pick(S)}]
  BY <1>3 DEF SumRec
<1>5. the({})[{}] = 0
  BY <1>3 DEF SumRec
<1>6. the(S)[S] = SumFunctionOnSet(f, S)
      /\ the(S)[S \ {Pick(S)}] = SumFunctionOnSet(f, S \ {Pick(S)})
      /\ the({})[{}] = SumFunctionOnSet(f, {})
  BY <1>3
<1> QED
  BY <1>4, <1>5, <1>6
\* The sum of whole numbers is a whole number.
LEMMA SumType ==
    ASSUME NEW f, NEW S, IsFiniteSet(S), \A x \in S : f[x] \in Int
    PROVE  SumFunctionOnSet(f, S) \in Int
<1> DEFINE G == {T \in SUBSET S : SumFunctionOnSet(f, T) \in Int}
<1>1. ASSUME NEW T \in SUBSET S, \A U \in SUBSET T : U # T => U \in G
      PROVE  T \in G
  <2>1. IsFiniteSet(T)
    BY FS_Subset
  <2>2. CASE T = {}
    BY <2>1, <2>2, SumDefined
  <2>3. CASE T # {}
    <3>1. Pick(T) \in T
      BY <2>3 DEF Pick
    <3>2. SumFunctionOnSet(f, T \ {Pick(T)}) \in Int /\ f[Pick(T)] \in Int
      BY <1>1, <3>1
    <3> QED
      BY <2>1, <2>3, <3>2, SumDefined
  <2> QED
    BY <2>2, <2>3
<1> HIDE DEF G
<1>2. SUBSET S \subseteq G
  BY <1>1, SubsetInduction
<1> QED
  BY <1>2 DEF G

\* Which summand is taken out first makes no difference.
LEMMA SumTake ==
    ASSUME NEW f, NEW S, IsFiniteSet(S), \A y \in S : f[y] \in Int, NEW x \in S
    PROVE  SumFunctionOnSet(f, S) = f[x] + SumFunctionOnSet(f, S \ {x})
<1> DEFINE Total(T) == SumFunctionOnSet(f, T)
           G == {T \in SUBSET S : \A z \in T : Total(T) = f[z] + Total(T \ {z})}
<1>0. \A T \in SUBSET S : Total(T) \in Int /\ IsFiniteSet(T)
  BY FS_Subset, SumType
<1>1. ASSUME NEW T \in SUBSET S, \A U \in SUBSET T : U # T => U \in G
      PROVE  T \in G
  <2> SUFFICES ASSUME NEW z \in T PROVE Total(T) = f[z] + Total(T \ {z})
    OBVIOUS
  <2> DEFINE y == Pick(T)
  <2>1. y \in T
    BY DEF Pick
  <2>2. Total(T) = f[y] + Total(T \ {y})
    BY <1>0, SumDefined
  <2>3. CASE z = y
    BY <2>2, <2>3
  <2>4. CASE z # y
    <3> HIDE DEF y, Total
    <3>1. Total(T \ {y}) = f[z] + Total((T \ {y}) \ {z})
      BY <1>1, <2>1, <2>4
    <3>2. Total(T \ {z}) = f[y] + Total((T \ {z}) \ {y})
      BY <1>1, <2>1, <2>4
    <3>3. (T \ {y}) \ {z} = (T \ {z}) \ {y}
      OBVIOUS
    <3>4. f[y] \in Int /\ f[z] \in Int /\ Total((T \ {y}) \ {z}) \in Int
      BY <1>0, <2>1
    <3> DEFINE rest == Total((T \ {y}) \ {z})
    <3>5. Total(T) = f[y] + (f[z] + rest) /\ Total(T \ {z}) = f[y] + rest
      BY <2>2, <3>1, <3>2, <3>3
    <3>6. f[y] \in Int /\ f[z] \in Int /\ rest \in Int
      BY <3>4
    <3> HIDE DEF rest
    <3> QED
      BY <3>5, <3>6
  <2> QED
    BY <2>3, <2>4
<1>2. SUBSET S \subseteq G
  <2> HIDE DEF G
  <2> QED
    BY <1>1, SubsetInduction
<1> QED
  BY <1>2

\* One more summand.
LEMMA SumAdd ==
    ASSUME NEW f, NEW S, IsFiniteSet(S), NEW x, x \notin S, \A y \in S \cup {x} : f[y] \in Int
    PROVE  SumFunctionOnSet(f, S \cup {x}) = SumFunctionOnSet(f, S) + f[x]
<1>1. IsFiniteSet(S \cup {x})
  BY FS_AddElement
<1>2. (S \cup {x}) \ {x} = S
  OBVIOUS
<1>3. SumFunctionOnSet(f, S) \in Int /\ f[x] \in Int
  BY SumType
<1> QED
  BY <1>1, <1>2, <1>3, SumTake

\* Equal summands, equal sums.
LEMMA SumEqual ==
    ASSUME NEW f, NEW g, NEW S, IsFiniteSet(S), \A x \in S : f[x] = g[x]
    PROVE  SumFunctionOnSet(f, S) = SumFunctionOnSet(g, S)
<1> DEFINE G == {T \in SUBSET S : SumFunctionOnSet(f, T) = SumFunctionOnSet(g, T)}
<1>1. ASSUME NEW T \in SUBSET S, \A U \in SUBSET T : U # T => U \in G
      PROVE  T \in G
  <2>1. IsFiniteSet(T)
    BY FS_Subset
  <2>2. CASE T = {}
    BY <2>1, <2>2, SumDefined
  <2>3. CASE T # {}
    <3>1. Pick(T) \in T
      BY <2>3 DEF Pick
    <3>2. SumFunctionOnSet(f, T \ {Pick(T)}) = SumFunctionOnSet(g, T \ {Pick(T)})
          /\ f[Pick(T)] = g[Pick(T)]
      BY <1>1, <3>1
    <3> QED
      BY <2>1, <2>3, <3>2, SumDefined
  <2> QED
    BY <2>2, <2>3
<1> HIDE DEF G
<1>2. SUBSET S \subseteq G
  BY <1>1, SubsetInduction
<1> QED
  BY <1>2 DEF G

\* When one summand alone changes, the sum changes by what it does.
LEMMA SumChange ==
    ASSUME NEW f, NEW g, NEW S, IsFiniteSet(S), NEW x \in S,
           \A y \in S : f[y] \in Int /\ g[y] \in Int,
           \A y \in S : y # x => g[y] = f[y]
    PROVE  SumFunctionOnSet(g, S) = SumFunctionOnSet(f, S) + g[x] - f[x]
<1>1. IsFiniteSet(S \ {x})
  BY FS_RemoveElement
<1>2. SumFunctionOnSet(f, S \ {x}) = SumFunctionOnSet(g, S \ {x})
  BY <1>1, SumEqual
<1>3. SumFunctionOnSet(f, S) = f[x] + SumFunctionOnSet(f, S \ {x})
      /\ SumFunctionOnSet(g, S) = g[x] + SumFunctionOnSet(g, S \ {x})
  BY SumTake
<1>4. SumFunctionOnSet(f, S \ {x}) \in Int
  BY <1>1, SumType
<1> QED
  BY <1>2, <1>3, <1>4

\* Sums add up pointwise.
LEMMA SumPlus ==
    ASSUME NEW f, NEW g, NEW h, NEW S, IsFiniteSet(S),
           \A x \in S : f[x] \in Int /\ g[x] \in Int /\ h[x] = f[x] + g[x]
    PROVE  SumFunctionOnSet(h, S) = SumFunctionOnSet(f, S) + SumFunctionOnSet(g, S)
<1> DEFINE G == {T \in SUBSET S : SumFunctionOnSet(h, T)
                                     = SumFunctionOnSet(f, T) + SumFunctionOnSet(g, T)}
<1>1. ASSUME NEW T \in SUBSET S, \A U \in SUBSET T : U # T => U \in G
      PROVE  T \in G
  <2>1. IsFiniteSet(T)
    BY FS_Subset
  <2>2. CASE T = {}
    <3>1. /\ SumFunctionOnSet(h, T) = 0 /\ SumFunctionOnSet(f, T) = 0
          /\ SumFunctionOnSet(g, T) = 0
      BY <2>1, <2>2, SumDefined
    <3> QED
      BY <3>1
  <2>3. CASE T # {}
    <3> DEFINE x == Pick(T)  U == T \ {x}
    <3>1. x \in T
      BY <2>3 DEF Pick
    <3>2. U \in SUBSET T /\ U # T /\ IsFiniteSet(U)
      BY <2>1, <3>1, FS_Subset
    <3>3. SumFunctionOnSet(h, U) = SumFunctionOnSet(f, U) + SumFunctionOnSet(g, U)
      BY <1>1, <3>2
    <3>4. SumFunctionOnSet(f, U) \in Int /\ SumFunctionOnSet(g, U) \in Int
      BY <3>2, SumType
    <3>5. /\ SumFunctionOnSet(f, T) = f[x] + SumFunctionOnSet(f, U)
          /\ SumFunctionOnSet(g, T) = g[x] + SumFunctionOnSet(g, U)
          /\ SumFunctionOnSet(h, T) = h[x] + SumFunctionOnSet(h, U)
      BY <2>1, <2>3, SumDefined
    <3>6. f[x] \in Int /\ g[x] \in Int /\ h[x] = f[x] + g[x]
      BY <3>1
    <3> HIDE DEF x, U
    <3>7. SumFunctionOnSet(h, T) = SumFunctionOnSet(f, T) + SumFunctionOnSet(g, T)
      BY <3>3, <3>4, <3>5, <3>6
    <3> QED
      BY <3>7
  <2> QED
    BY <2>2, <2>3
<1> HIDE DEF G
<1>2. SUBSET S \subseteq G
  BY <1>1, SubsetInduction
<1> QED
  BY <1>2 DEF G

\* Nothing adds up to nothing.
LEMMA SumZero ==
    ASSUME NEW f, NEW S, IsFiniteSet(S), \A x \in S : f[x] = 0
    PROVE  SumFunctionOnSet(f, S) = 0
<1> DEFINE G == {T \in SUBSET S : SumFunctionOnSet(f, T) = 0}
<1>1. ASSUME NEW T \in SUBSET S, \A U \in SUBSET T : U # T => U \in G
      PROVE  T \in G
  <2>1. IsFiniteSet(T)
    BY FS_Subset
  <2>2. CASE T = {}
    BY <2>1, <2>2, SumDefined
  <2>3. CASE T # {}
    <3>1. Pick(T) \in T
      BY <2>3 DEF Pick
    <3>2. SumFunctionOnSet(f, T \ {Pick(T)}) = 0 /\ f[Pick(T)] = 0
      BY <1>1, <3>1
    <3>3. SumFunctionOnSet(f, T) = f[Pick(T)] + SumFunctionOnSet(f, T \ {Pick(T)})
      BY <2>1, <2>3, SumDefined
    <3> QED
      BY <3>2, <3>3
  <2> QED
    BY <2>2, <2>3
<1> HIDE DEF G
<1>2. SUBSET S \subseteq G
  BY <1>1, SubsetInduction
<1> QED
  BY <1>2 DEF G

\* Smaller summands, smaller sums.
LEMMA SumOrder ==
    ASSUME NEW f, NEW g, NEW S, IsFiniteSet(S),
           \A x \in S : f[x] \in Int /\ g[x] \in Int /\ f[x] <= g[x]
    PROVE  SumFunctionOnSet(f, S) <= SumFunctionOnSet(g, S)
<1> DEFINE G == {T \in SUBSET S : SumFunctionOnSet(f, T) <= SumFunctionOnSet(g, T)}
<1>1. ASSUME NEW T \in SUBSET S, \A U \in SUBSET T : U # T => U \in G
      PROVE  T \in G
  <2>1. IsFiniteSet(T)
    BY FS_Subset
  <2>2. CASE T = {}
    <3>1. SumFunctionOnSet(f, T) = 0 /\ SumFunctionOnSet(g, T) = 0
      BY <2>1, <2>2, SumDefined
    <3> QED
      BY <3>1
  <2>3. ASSUME NEW x \in T
        PROVE  T \in G
    <3>1. IsFiniteSet(T \ {x})
      BY <2>1, FS_Subset
    <3>2. SumFunctionOnSet(f, T \ {x}) <= SumFunctionOnSet(g, T \ {x})
      BY <1>1, <2>3
    <3>3. /\ SumFunctionOnSet(f, T) = f[x] + SumFunctionOnSet(f, T \ {x})
          /\ SumFunctionOnSet(g, T) = g[x] + SumFunctionOnSet(g, T \ {x})
      BY <2>1, <2>3, SumTake
    <3>4. SumFunctionOnSet(f, T \ {x}) \in Int /\ SumFunctionOnSet(g, T \ {x}) \in Int
      BY <3>1, SumType
    <3>5. SumFunctionOnSet(f, T) <= SumFunctionOnSet(g, T)
      BY <2>3, <3>2, <3>3, <3>4
    <3> QED
      BY <3>5
  <2> QED
    BY <2>2, <2>3
<1> HIDE DEF G
<1>2. SUBSET S \subseteq G
  BY <1>1, SubsetInduction
<1> QED
  BY <1>2 DEF G

\* The sum over one set and another.
LEMMA SumUnion ==
    ASSUME NEW f, NEW S, NEW R, IsFiniteSet(S), IsFiniteSet(R), S \cap R = {},
           \A x \in S \cup R : f[x] \in Int
    PROVE  SumFunctionOnSet(f, S \cup R) = SumFunctionOnSet(f, S) + SumFunctionOnSet(f, R)
<1> DEFINE G == {T \in SUBSET R : SumFunctionOnSet(f, S \cup T)
                                     = SumFunctionOnSet(f, S) + SumFunctionOnSet(f, T)}
<1>1. ASSUME NEW T \in SUBSET R, \A U \in SUBSET T : U # T => U \in G
      PROVE  T \in G
  <2>1. IsFiniteSet(T) /\ SumFunctionOnSet(f, S) \in Int
    BY FS_Subset, SumType
  <2>2. CASE T = {}
    <3>1. SumFunctionOnSet(f, T) = 0 /\ S \cup T = S
      BY <2>1, <2>2, SumDefined
    <3> QED
      BY <2>1, <3>1
  <2>3. CASE T # {}
    <3> DEFINE x == Pick(T)  U == T \ {x}
    <3>1. x \in T
      BY <2>3 DEF Pick
    <3>2. U \in SUBSET T /\ U # T /\ IsFiniteSet(U) /\ x \notin S \cup U
      BY <2>1, <3>1, FS_Subset
    <3>3. SumFunctionOnSet(f, S \cup U) = SumFunctionOnSet(f, S) + SumFunctionOnSet(f, U)
      BY <1>1, <3>2
    <3>4. IsFiniteSet(S \cup U) /\ \A y \in (S \cup U) \cup {x} : f[y] \in Int
      BY <3>1, <3>2, FS_Union
    <3>5. SumFunctionOnSet(f, U) \in Int /\ f[x] \in Int
      BY <3>2, <3>4, SumType
    <3>6. /\ SumFunctionOnSet(f, (S \cup U) \cup {x}) = SumFunctionOnSet(f, S \cup U) + f[x]
          /\ SumFunctionOnSet(f, U \cup {x}) = SumFunctionOnSet(f, U) + f[x]
      BY <3>2, <3>4, SumAdd
    <3>7. (S \cup U) \cup {x} = S \cup T /\ U \cup {x} = T
      BY <3>1
    <3> HIDE DEF x, U
    <3>8. /\ SumFunctionOnSet(f, S \cup T) = (SumFunctionOnSet(f, S) + SumFunctionOnSet(f, U)) + f[x]
          /\ SumFunctionOnSet(f, T) = SumFunctionOnSet(f, U) + f[x]
      BY <3>3, <3>6, <3>7
    <3> DEFINE a == SumFunctionOnSet(f, S)  b == SumFunctionOnSet(f, U)
    <3>9. a \in Int /\ b \in Int
      BY <2>1, <3>5
    <3> HIDE DEF a, b
    <3>10. (a + b) + f[x] = a + (b + f[x])
      BY <3>5, <3>9
    <3> QED
      BY <3>8, <3>10 DEF a, b
  <2> QED
    BY <2>2, <2>3
<1> HIDE DEF G
<1>2. SUBSET R \subseteq G
  BY <1>1, SubsetInduction
<1> QED
  BY <1>2 DEF G

\* What is zero outside of a set is summed over the set.
LEMMA SumRestrict ==
    ASSUME NEW f, NEW S, IsFiniteSet(S), NEW T \in SUBSET S, \A x \in S : f[x] \in Int,
           \A x \in S \ T : f[x] = 0
    PROVE  SumFunctionOnSet(f, S) = SumFunctionOnSet(f, T)
<1>1. IsFiniteSet(T) /\ IsFiniteSet(S \ T) /\ T \cap (S \ T) = {} /\ T \cup (S \ T) = S
  BY FS_Subset
<1>2. SumFunctionOnSet(f, S \ T) = 0
  BY <1>1, SumZero
<1>3. SumFunctionOnSet(f, T) \in Int
  BY <1>1, SumType
<1>4. SumFunctionOnSet(f, T \cup (S \ T)) = SumFunctionOnSet(f, T) + SumFunctionOnSet(f, S \ T)
  BY <1>1, SumUnion
<1>5. SumFunctionOnSet(f, S) = SumFunctionOnSet(f, T) + 0
  BY <1>1, <1>2, <1>4
<1> QED
  BY <1>3, <1>5

\* The same summands under other names.
LEMMA SumRename ==
    ASSUME NEW f, NEW g, NEW S, IsFiniteSet(S), NEW h, NEW R,
           \A x, y \in S : h[x] = h[y] => x = y,
           \A x \in S : h[x] \in R /\ f[x] \in Int /\ g[h[x]] = f[x],
           \A y \in R : \E x \in S : y = h[x]
    PROVE  SumFunctionOnSet(g, R) = SumFunctionOnSet(f, S)
<1> DEFINE Image(T) == {h[x] : x \in T}
           G == {T \in SUBSET S : /\ IsFiniteSet(Image(T))
                                  /\ SumFunctionOnSet(g, Image(T)) = SumFunctionOnSet(f, T)}
<1>1. ASSUME NEW T \in SUBSET S, \A U \in SUBSET T : U # T => U \in G
      PROVE  T \in G
  <2>1. IsFiniteSet(T)
    BY FS_Subset
  <2>2. CASE T = {}
    <3>1. Image(T) = {}
      BY <2>2
    <3>2. SumFunctionOnSet(f, {}) = 0 /\ SumFunctionOnSet(g, {}) = 0 /\ IsFiniteSet({})
      BY SumDefined, FS_EmptySet
    <3> QED
      BY <2>2, <3>1, <3>2
  <2>3. CASE T # {}
    <3> DEFINE x == Pick(T)  U == T \ {x}
    <3>1. x \in T
      BY <2>3 DEF Pick
    <3>2. U \in SUBSET T /\ U # T /\ IsFiniteSet(U) /\ U \cup {x} = T /\ x \notin U
      BY <2>1, <3>1, FS_Subset
    <3>3. IsFiniteSet(Image(U)) /\ SumFunctionOnSet(g, Image(U)) = SumFunctionOnSet(f, U)
      BY <1>1, <3>2
    <3>4. Image(T) = Image(U) \cup {h[x]} /\ h[x] \notin Image(U)
      BY <3>1, <3>2
    <3>5. \A y \in Image(U) \cup {h[x]} : g[y] \in Int
      BY <3>1
    <3>6. \A y \in U \cup {x} : f[y] \in Int
      BY <3>1
    <3>7. g[h[x]] = f[x]
      BY <3>1
    <3> HIDE DEF x, U, Image
    <3>8. IsFiniteSet(Image(T))
      BY <3>3, <3>4, FS_AddElement
    <3>9. SumFunctionOnSet(g, Image(T)) = SumFunctionOnSet(g, Image(U)) + g[h[x]]
      BY <3>3, <3>4, <3>5, SumAdd
    <3>10. SumFunctionOnSet(f, T) = SumFunctionOnSet(f, U) + f[x]
      BY <3>2, <3>6, SumAdd
    <3>11. SumFunctionOnSet(g, Image(T)) = SumFunctionOnSet(f, T)
      BY <3>3, <3>7, <3>9, <3>10
    <3> QED
      BY <3>8, <3>11
  <2> QED
    BY <2>2, <2>3
<1> HIDE DEF G
<1>2. SUBSET S \subseteq G
  BY <1>1, SubsetInduction
<1>3. R = Image(S)
  OBVIOUS
<1> QED
  BY <1>2, <1>3 DEF G

\* What of the amounts of S is u's.
OwnedBy(u, owner, amount, S) == [x \in S |-> IF owner[x] = u THEN amount[x] ELSE 0]

\* What each owner in U has in S, summed over the owners, is what there is in S, when
\* everything that is worth anything has an owner in U.
LEMMA SumByOwner ==
    ASSUME NEW S, IsFiniteSet(S), NEW U, IsFiniteSet(U), NEW amount, NEW owner, NEW has,
           \A x \in S : amount[x] \in Int /\ (owner[x] \in U \/ amount[x] = 0),
           \A u \in U : has[u] = SumFunctionOnSet(OwnedBy(u, owner, amount, S), S)
    PROVE  SumFunctionOnSet(has, U) = SumFunctionOnSet(amount, S)
<1> DEFINE own(u) == [x \in S |-> IF owner[x] = u THEN amount[x] ELSE 0]
           In(T) == [u \in U |-> SumFunctionOnSet(own(u), T)]
           Of(x) == [u \in U |-> IF owner[x] = u THEN amount[x] ELSE 0]
           G == {T \in SUBSET S : SumFunctionOnSet(In(T), U) = SumFunctionOnSet(amount, T)}
<1>1. ASSUME NEW x \in S PROVE SumFunctionOnSet(Of(x), U) = amount[x]
  <2>1. \A u \in U : Of(x)[u] \in Int
    OBVIOUS
  <2>2. \A u \in U : u # owner[x] => Of(x)[u] = 0
    OBVIOUS
  <2>3. owner[x] \in U => Of(x)[owner[x]] = amount[x]
    OBVIOUS
  <2> DEFINE f == Of(x)
  <2> HIDE DEF Of
  <2>4. CASE owner[x] \in U
    <3>1. SumFunctionOnSet(f, U) = f[owner[x]] + SumFunctionOnSet(f, U \ {owner[x]})
      <4>1. \A u \in U : f[u] \in Int
        BY <2>1
      <4> HIDE DEF f
      <4> QED
        BY <4>1, <2>4, SumTake
    <3>2. SumFunctionOnSet(f, U \ {owner[x]}) = 0
      <4>1. IsFiniteSet(U \ {owner[x]}) /\ \A u \in U \ {owner[x]} : f[u] = 0
        BY <2>2, FS_RemoveElement
      <4> HIDE DEF f
      <4> QED
        BY <4>1, SumZero
    <3> QED
      BY <2>3, <2>4, <3>1, <3>2
  <2>5. CASE owner[x] \notin U
    <3>1. \A u \in U : f[u] = 0
      BY <2>2, <2>5
    <3>2. SumFunctionOnSet(f, U) = 0
      <4> HIDE DEF f
      <4> QED
        BY <3>1, SumZero
    <3> QED
      BY <2>5, <3>2
  <2> QED
    BY <2>4, <2>5
<1>2. ASSUME NEW T \in SUBSET S, \A V \in SUBSET T : V # T => V \in G
      PROVE  T \in G
  <2>1. IsFiniteSet(T) /\ \A u \in U : \A x \in S : own(u)[x] \in Int
    BY FS_Subset
  <2>2. CASE T = {}
    <3>1. \A u \in U : In(T)[u] = 0
      BY <2>2, SumDefined, FS_EmptySet
    <3>2. SumFunctionOnSet(In(T), U) = 0
      <4> HIDE DEF In
      <4> QED
        BY <3>1, SumZero
    <3>3. SumFunctionOnSet(amount, T) = 0
      BY <2>2, SumDefined, FS_EmptySet
    <3> QED
      BY <3>2, <3>3
  <2>3. CASE T # {}
    <3>1. PICK x \in T : TRUE
      BY <2>3
    <3> DEFINE V == T \ {x}
    <3>2. V \in G
      BY <1>2, <3>1
    <3>3. ASSUME NEW u \in U
          PROVE  /\ In(T)[u] = Of(x)[u] + In(V)[u]
                 /\ Of(x)[u] \in Int /\ In(V)[u] \in Int
      <4> DEFINE f == own(u)
      <4>1. /\ \A y \in T : f[y] \in Int
            /\ IsFiniteSet(V) /\ \A y \in V : f[y] \in Int
        BY <2>1, <3>1, FS_RemoveElement
      <4>2. f[x] = Of(x)[u] /\ f[x] \in Int
        BY <3>1
      <4>3. In(T)[u] = SumFunctionOnSet(f, T) /\ In(V)[u] = SumFunctionOnSet(f, V)
        OBVIOUS
      <4> HIDE DEF f, In, Of
      <4>4. SumFunctionOnSet(f, T) = f[x] + SumFunctionOnSet(f, V)
        BY <2>1, <3>1, <4>1, SumTake
      <4>5. SumFunctionOnSet(f, V) \in Int
        BY <4>1, SumType
      <4> QED
        BY <4>2, <4>3, <4>4, <4>5
    <3>4. SumFunctionOnSet(In(T), U) = SumFunctionOnSet(Of(x), U) + SumFunctionOnSet(In(V), U)
      <4> DEFINE f == Of(x)  g == In(V)  h == In(T)
      <4>1. \A u \in U : f[u] \in Int /\ g[u] \in Int /\ h[u] = f[u] + g[u]
        BY <3>3
      <4> HIDE DEF f, g, h
      <4>2. SumFunctionOnSet(h, U) = SumFunctionOnSet(f, U) + SumFunctionOnSet(g, U)
        BY <4>1, SumPlus
      <4> QED
        BY <4>2 DEF f, g, h
    <3>5. SumFunctionOnSet(amount, T) = amount[x] + SumFunctionOnSet(amount, V)
      BY <2>1, <3>1, SumTake
    <3> HIDE DEF In, Of
    <3> QED
      BY <1>1, <3>1, <3>2, <3>4, <3>5
  <2> QED
    BY <2>2, <2>3
<1>3. S \in G
  <2> HIDE DEF G
  <2>1. SUBSET S \subseteq G
    BY <1>2, SubsetInduction
  <2> QED
    BY <2>1
<1>4. SumFunctionOnSet(has, U) = SumFunctionOnSet(In(S), U)
  <2> DEFINE g == In(S)
  <2>1. \A u \in U : has[u] = g[u]
    BY DEF OwnedBy
  <2> HIDE DEF g
  <2>2. SumFunctionOnSet(has, U) = SumFunctionOnSet(g, U)
    BY <2>1, SumEqual
  <2> QED
    BY <2>2 DEF g
<1> HIDE DEF In
<1> QED
  BY <1>3, <1>4

(***************************************************************************)
(* What the members of a sequence are worth, when e[x] is what x is worth. *)
(***************************************************************************)
SeqSum(e, s) == SumFunctionOnSet([k \in DOMAIN s |-> e[s[k]]], DOMAIN s)

\* It is a number.
LEMMA SeqSumType ==
    ASSUME NEW T, NEW e, \A x \in T : e[x] \in Int, NEW s \in Seq(T)
    PROVE  /\ IsFiniteSet(DOMAIN s) /\ \A k \in DOMAIN s : e[s[k]] \in Int
           /\ SeqSum(e, s) \in Int
<1>1. DOMAIN s = 1..Len(s) /\ Len(s) \in Int
  OBVIOUS
<1>2. IsFiniteSet(DOMAIN s)
  BY <1>1, FS_Interval
<1>3. \A k \in DOMAIN s : e[s[k]] \in Int
  OBVIOUS
<1>4. SeqSum(e, s) \in Int
  BY <1>2, <1>3, SumType DEF SeqSum
<1> QED
  BY <1>2, <1>3, <1>4

\* One member more.
LEMMA SeqSumAppend ==
    ASSUME NEW T, NEW e, \A x \in T : e[x] \in Int, NEW s \in Seq(T), NEW x \in T
    PROVE  SeqSum(e, Append(s, x)) = SeqSum(e, s) + e[x]
<1> DEFINE t == Append(s, x)  new == Len(s) + 1
           f == [k \in DOMAIN s |-> e[s[k]]]
           g == [k \in DOMAIN t |-> e[t[k]]]
<1>1. /\ t \in Seq(T) /\ DOMAIN t = DOMAIN s \cup {new} /\ new \notin DOMAIN s
      /\ t[new] = x /\ \A k \in DOMAIN s : t[k] = s[k]
  OBVIOUS
<1> HIDE DEF t, new
<1>2. IsFiniteSet(DOMAIN s) /\ \A k \in DOMAIN s \cup {new} : g[k] \in Int
  BY <1>1, SeqSumType
<1>3. (\A k \in DOMAIN s : f[k] = g[k]) /\ g[new] = e[x]
  BY <1>1
<1>4. SeqSum(e, s) = SumFunctionOnSet(f, DOMAIN s)
      /\ SeqSum(e, t) = SumFunctionOnSet(g, DOMAIN s \cup {new})
  BY <1>1 DEF SeqSum
<1> HIDE DEF f, g
<1>5. SumFunctionOnSet(g, DOMAIN s \cup {new}) = SumFunctionOnSet(g, DOMAIN s) + g[new]
  BY <1>1, <1>2, SumAdd
<1>6. SumFunctionOnSet(f, DOMAIN s) = SumFunctionOnSet(g, DOMAIN s)
  BY <1>2, <1>3, SumEqual
<1> QED
  BY <1>3, <1>4, <1>5, <1>6 DEF t

\* One member is replaced.
LEMMA SeqSumChange ==
    ASSUME NEW T, NEW e, \A x \in T : e[x] \in Int, NEW s \in Seq(T), NEW i \in DOMAIN s,
           NEW t \in Seq(T), DOMAIN t = DOMAIN s, \A k \in DOMAIN s : k # i => t[k] = s[k]
    PROVE  SeqSum(e, t) = SeqSum(e, s) + e[t[i]] - e[s[i]]
<1> DEFINE f == [k \in DOMAIN s |-> e[s[k]]]
           g == [k \in DOMAIN s |-> e[t[k]]]
<1>2. IsFiniteSet(DOMAIN s) /\ \A k \in DOMAIN s : f[k] \in Int /\ g[k] \in Int
  BY SeqSumType
<1>3. (\A k \in DOMAIN s : k # i => g[k] = f[k]) /\ g[i] = e[t[i]] /\ f[i] = e[s[i]]
  OBVIOUS
<1>4. SeqSum(e, s) = SumFunctionOnSet(f, DOMAIN s) /\ SeqSum(e, t) = SumFunctionOnSet(g, DOMAIN s)
  BY DEF SeqSum
<1> HIDE DEF f, g
<1>5. SumFunctionOnSet(g, DOMAIN s) = SumFunctionOnSet(f, DOMAIN s) + g[i] - f[i]
  BY <1>2, <1>3, SumChange
<1> QED
  BY <1>3, <1>4, <1>5

\* One sequence after another.
LEMMA SeqSumConcat ==
    ASSUME NEW T, NEW e, \A x \in T : e[x] \in Int, NEW s \in Seq(T), NEW t \in Seq(T)
    PROVE  SeqSum(e, s \o t) = SeqSum(e, s) + SeqSum(e, t)
<1> DEFINE st == s \o t
           f == [k \in DOMAIN s |-> e[s[k]]]
           g == [k \in DOMAIN t |-> e[t[k]]]
           h == [k \in DOMAIN st |-> e[st[k]]]
           shift == [k \in DOMAIN t |-> k + Len(s)]
           Late == {shift[k] : k \in DOMAIN t}
<1>1. /\ st \in Seq(T) /\ DOMAIN st = DOMAIN s \cup Late /\ DOMAIN s \cap Late = {}
      /\ \A k \in DOMAIN s : st[k] = s[k]
      /\ \A k \in DOMAIN t : st[shift[k]] = t[k]
      /\ \A k, l \in DOMAIN t : shift[k] = shift[l] => k = l
  <2>1. DOMAIN s = 1..Len(s) /\ DOMAIN t = 1..Len(t) /\ DOMAIN st = 1..(Len(s) + Len(t))
        /\ Len(s) \in Nat /\ Len(t) \in Nat /\ st \in Seq(T)
    OBVIOUS
  <2>2. \A k \in DOMAIN t : shift[k] = k + Len(s)
    OBVIOUS
  <2>3. (\A k \in DOMAIN s : st[k] = s[k]) /\ \A k \in DOMAIN t : st[k + Len(s)] = t[k]
    OBVIOUS
  <2>4. Late = {k + Len(s) : k \in DOMAIN t}
    OBVIOUS
  <2> HIDE DEF st, shift, Late
  <2>5. Late = (Len(s) + 1)..(Len(s) + Len(t))
    <3>1. ASSUME NEW n \in Late PROVE n \in (Len(s) + 1)..(Len(s) + Len(t))
      BY <2>1, <2>4
    <3>2. ASSUME NEW n \in (Len(s) + 1)..(Len(s) + Len(t)) PROVE n \in Late
      <4>1. n - Len(s) \in DOMAIN t /\ n = (n - Len(s)) + Len(s)
        BY <2>1
      <4> QED
        BY <2>4, <4>1
    <3> QED
      BY <3>1, <3>2
  <2>6. DOMAIN st = DOMAIN s \cup Late /\ DOMAIN s \cap Late = {}
    BY <2>1, <2>5
  <2>7. \A k, l \in DOMAIN t : shift[k] = shift[l] => k = l
    BY <2>1, <2>2
  <2> QED
    BY <2>1, <2>2, <2>3, <2>6, <2>7
<1> HIDE DEF st, shift
<1>2. IsFiniteSet(DOMAIN s) /\ IsFiniteSet(DOMAIN t) /\ IsFiniteSet(DOMAIN st)
      /\ \A k \in DOMAIN st : h[k] \in Int
  BY <1>1, SeqSumType
<1>3. IsFiniteSet(Late)
  BY <1>1, <1>2, FS_Subset
<1>4. \A k \in DOMAIN t : g[k] \in Int /\ h[shift[k]] = g[k]
  BY <1>1
<1>5. \A k \in DOMAIN s : f[k] = h[k]
  BY <1>1
<1>6. /\ SeqSum(e, s) = SumFunctionOnSet(f, DOMAIN s)
      /\ SeqSum(e, t) = SumFunctionOnSet(g, DOMAIN t)
      /\ SeqSum(e, st) = SumFunctionOnSet(h, DOMAIN s \cup Late)
  BY <1>1 DEF SeqSum
<1>7. \A k \in DOMAIN s \cup Late : h[k] \in Int
  BY <1>1, <1>2
<1> HIDE DEF f, g, h
<1>8. SumFunctionOnSet(h, Late) = SumFunctionOnSet(g, DOMAIN t)
  <2>1. \A k, l \in DOMAIN t : shift[k] = shift[l] => k = l
    BY <1>1
  <2>2. /\ \A k \in DOMAIN t : shift[k] \in Late /\ g[k] \in Int /\ h[shift[k]] = g[k]
        /\ \A y \in Late : \E k \in DOMAIN t : y = shift[k]
    BY <1>4
  <2> HIDE DEF Late
  <2> QED
    BY <1>2, <2>1, <2>2, SumRename
<1> HIDE DEF Late
<1>9. SumFunctionOnSet(h, DOMAIN s \cup Late)
         = SumFunctionOnSet(h, DOMAIN s) + SumFunctionOnSet(h, Late)
  BY <1>1, <1>2, <1>3, <1>7, SumUnion
<1>10. SumFunctionOnSet(f, DOMAIN s) = SumFunctionOnSet(h, DOMAIN s)
  BY <1>2, <1>5, SumEqual
<1> QED
  BY <1>6, <1>8, <1>9, <1>10 DEF st

\* Without the first member.
LEMMA SeqSumTail ==
    ASSUME NEW T, NEW e, \A x \in T : e[x] \in Int, NEW s \in Seq(T), s # <<>>
    PROVE  SeqSum(e, Tail(s)) = SeqSum(e, s) - e[Head(s)]
<1>1. /\ <<Head(s)>> \in Seq(T) /\ Tail(s) \in Seq(T) /\ <<Head(s)>> \o Tail(s) = s
      /\ Head(s) \in T /\ <<>> \in Seq(T) /\ <<Head(s)>> = Append(<<>>, Head(s))
  OBVIOUS
<1>2. SeqSum(e, <<>>) = 0
  <2> DEFINE f == [k \in DOMAIN <<>> |-> e[<<>>[k]]]
  <2>1. IsFiniteSet({}) /\ DOMAIN <<>> = {}
    BY FS_EmptySet
  <2>2. SeqSum(e, <<>>) = SumFunctionOnSet(f, {})
    BY <2>1 DEF SeqSum
  <2> HIDE DEF f
  <2> QED
    BY <2>1, <2>2, SumDefined
<1>3. SeqSum(e, <<Head(s)>>) = 0 + e[Head(s)]
  <2>1. SeqSum(e, Append(<<>>, Head(s))) = SeqSum(e, <<>>) + e[Head(s)]
    BY <1>1, SeqSumAppend
  <2> QED
    BY <1>1, <1>2, <2>1
<1>4. SeqSum(e, <<Head(s)>> \o Tail(s)) = SeqSum(e, <<Head(s)>>) + SeqSum(e, Tail(s))
  BY <1>1, SeqSumConcat
<1>5. SeqSum(e, Tail(s)) \in Int /\ e[Head(s)] \in Int
  BY <1>1, SeqSumType
<1>6. SeqSum(e, s) = (0 + e[Head(s)]) + SeqSum(e, Tail(s))
  BY <1>1, <1>3, <1>4
<1> QED
  BY <1>5, <1>6
=============================================================================
