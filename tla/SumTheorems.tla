---------------------------- MODULE SumTheorems ----------------------------
(***************************************************************************)
(* Sums of a function over a finite set (SumFunctionOnSet), as the models   *)
(* use them.  Induction is by a minimal counterexample (WFMin), which needs *)
(* no operator as a parameter.                                              *)
(***************************************************************************)
EXTENDS FiniteSetsExt, FiniteSetTheorems, TLAPS

(***************************************************************************)
(* Induction                                                               *)
(***************************************************************************)
\* A non-empty set of subsets of a finite set has a minimal member.
LEMMA MinimalSubset ==
    ASSUME NEW S, IsFiniteSet(S), NEW C, C \subseteq SUBSET S, C # {}
    PROVE  \E T \in C : \A U \in SUBSET T : U # T => U \notin C
<1>1. IsWellFoundedOn(StrictSubsetOrdering(S), SUBSET S)
    BY FS_StrictSubsetOrderingWellFounded, FS_FiniteSubsetsOfFinite
<1>2. PICK T \in C : \A U \in C : ~(<<U, T>> \in StrictSubsetOrdering(S))
    BY <1>1, WFMin
<1>. QED
    BY <1>2 DEF StrictSubsetOrdering

\* A set of naturals with 0 and the successors of its members is all of Nat.
LEMMA SetOfAllNaturals ==
    ASSUME NEW P \in SUBSET Nat, 0 \in P, \A n \in P : n + 1 \in P
    PROVE  P = Nat
<1>. SUFFICES ASSUME P # Nat PROVE FALSE
    OBVIOUS
<1>. DEFINE C == Nat \ P
<1>1. PICK m \in C : \A k \in C : ~(<<k, m>> \in OpToRel(<, Nat))
    BY NatLessThanWellFounded, WFMin
<1>2. m \in Nat /\ m # 0 /\ m - 1 \in Nat
    OBVIOUS
<1>3. m - 1 \in P
    <2>1. <<m - 1, m>> \in OpToRel(<, Nat)
        BY <1>2 DEF OpToRel
    <2>. QED
        BY <1>1, <1>2, <2>1
<1>4. (m - 1) + 1 \in P
    BY <1>3
<1>. QED
    BY <1>2, <1>4

(***************************************************************************)
(* The recursion                                                           *)
(***************************************************************************)
Pick(s) == CHOOSE x \in s : TRUE

\* What iter has to satisfy to be the recursive function of a sum, on the
\* subsets D.
Sums(f, D, iter) ==
    iter = [s \in D |-> IF s = {} THEN 0 ELSE f[Pick(s)] + iter[s \ {Pick(s)}]]

\* Pick chooses a member.
LEMMA PickIn ==
    ASSUME NEW S, S # {}
    PROVE  Pick(S) \in S
BY DEF Pick

\* The library's sum, in terms of Sums.
LEMMA SumIsIter ==
    ASSUME NEW f, NEW S
    PROVE  SumFunctionOnSet(f, S) = (CHOOSE iter : Sums(f, SUBSET S, iter))[S]
BY DEF SumFunctionOnSet, FoldFunctionOnSet, MapThenFoldSet, Sums, Pick

\* The recursive function exists, level by level of the subsets' sizes.
LEMMA SumsExist ==
    ASSUME NEW f, NEW S, IsFiniteSet(S)
    PROVE  \E iter : Sums(f, SUBSET S, iter)
<1>. DEFINE Level(n) == {s \in SUBSET S : Cardinality(s) <= n}
            P == {n \in Nat : \E iter : Sums(f, Level(n), iter)}
<1>0. \A s \in SUBSET S : IsFiniteSet(s) /\ Cardinality(s) \in Nat
                            /\ Cardinality(s) <= Cardinality(S)
    BY FS_Subset, FS_CardinalityType
<1>1. 0 \in P
    <2>1. \A s \in Level(0) : s = {}
        BY <1>0, FS_EmptySet
    <2>2. Sums(f, Level(0), [s \in Level(0) |-> 0])
        BY <2>1 DEF Sums
    <2>. QED
        BY <2>2
<1>2. ASSUME NEW n \in P PROVE n + 1 \in P
    <2>. DEFINE Val(g, s) == IF s = {} THEN 0 ELSE f[Pick(s)] + g[s \ {Pick(s)}]
    <2>1. PICK g : Sums(f, Level(n), g)
        OBVIOUS
    <2>. DEFINE h == [s \in Level(n + 1) |-> Val(g, s)]
    <2>2. ASSUME NEW s \in Level(n)
          PROVE  s \in Level(n + 1) /\ h[s] = g[s]
        <3>1. s \in Level(n + 1)
            BY <1>0
        <3>2. g[s] = Val(g, s)
            BY <2>1 DEF Sums
        <3>. QED
            BY <3>1, <3>2
    <2>3. ASSUME NEW s \in Level(n + 1), s # {}
          PROVE  s \ {Pick(s)} \in Level(n)
        BY <1>0, <2>3, PickIn, FS_RemoveElement
    <2>4. \A s \in Level(n + 1) : Val(h, s) = Val(g, s)
        BY <2>2, <2>3
    <2>5. h = [s \in Level(n + 1) |-> Val(h, s)]
        <3>. HIDE DEF Level
        <3>. QED
            BY <2>4
    <2>6. Sums(f, Level(n + 1), h)
        BY <2>5 DEF Sums
    <2>. QED
        <3>. HIDE DEF Level, h
        <3>. QED
            BY <2>6
<1>3. P = Nat
    <2>. HIDE DEF P
    <2>1. P \subseteq Nat
        BY DEF P
    <2>. QED
        BY <1>1, <1>2, <2>1, SetOfAllNaturals
<1>4. Level(Cardinality(S)) = SUBSET S /\ Cardinality(S) \in Nat
    BY <1>0
<1>5. PICK iter : Sums(f, Level(Cardinality(S)), iter)
    BY <1>3, <1>4
<1>. QED
    <2>. HIDE DEF Level
    <2>. QED
        BY <1>4, <1>5

\* A sum is the recursive function at its set.
LEMMA SumIter ==
    ASSUME NEW f, NEW S, IsFiniteSet(S)
    PROVE  \E iter : /\ Sums(f, SUBSET S, iter)
                     /\ SumFunctionOnSet(f, S) = iter[S]
BY SumIsIter, SumsExist

\* The recursive function of a set gives the sums over its subsets.
LEMMA IterAgree ==
    ASSUME NEW f, NEW S, IsFiniteSet(S), NEW U \in SUBSET S,
           NEW g, Sums(f, SUBSET S, g)
    PROVE  SumFunctionOnSet(f, U) = g[U]
<1>0. IsFiniteSet(U)
    BY FS_Subset
<1>1. PICK h : Sums(f, SUBSET U, h) /\ SumFunctionOnSet(f, U) = h[U]
    BY <1>0, SumIter
<1>. DEFINE C == {T \in SUBSET U : g[T] # h[T]}
<1>. SUFFICES ASSUME C # {} PROVE FALSE
    BY <1>1
<1>2. PICK T \in C : \A V \in SUBSET T : V # T => V \notin C
    <2>1. C \subseteq SUBSET U
        OBVIOUS
    <2>. HIDE DEF C
    <2>. QED
        BY <1>0, <2>1, MinimalSubset
<1>3. T \in SUBSET U /\ T \in SUBSET S /\ g[T] # h[T]
    BY <1>2
<1>4. CASE T = {}
    BY <1>1, <1>3, <1>4 DEF Sums
<1>5. CASE T # {}
    <2>1. Pick(T) \in T
        BY <1>5, PickIn
    <2>2. g[T \ {Pick(T)}] = h[T \ {Pick(T)}]
        BY <1>2, <1>3, <2>1
    <2>. QED
        BY <1>1, <1>3, <1>5, <2>2 DEF Sums
<1>. QED
    BY <1>4, <1>5

\* The sum over nothing.
LEMMA SumEmpty ==
    ASSUME NEW f
    PROVE  SumFunctionOnSet(f, {}) = 0
<1>1. PICK g : Sums(f, SUBSET {}, g) /\ SumFunctionOnSet(f, {}) = g[{}]
    BY SumIter, FS_EmptySet
<1>. QED
    BY <1>1 DEF Sums

\* The recursion equation of a sum.
LEMMA SumPick ==
    ASSUME NEW f, NEW S, IsFiniteSet(S), S # {}
    PROVE  SumFunctionOnSet(f, S) =
               f[Pick(S)] + SumFunctionOnSet(f, S \ {Pick(S)})
<1>1. PICK g : Sums(f, SUBSET S, g)
    BY SumsExist
<1>2. SumFunctionOnSet(f, S) = g[S]
    BY <1>1, IterAgree
<1>3. SumFunctionOnSet(f, S \ {Pick(S)}) = g[S \ {Pick(S)}]
    BY <1>1, IterAgree
<1>4. g[S] = f[Pick(S)] + g[S \ {Pick(S)}]
    BY <1>1 DEF Sums
<1>. QED
    BY <1>2, <1>3, <1>4

(***************************************************************************)
(* Facts about sums                                                        *)
(***************************************************************************)
\* A sum of integers is an integer.
LEMMA SumInt ==
    ASSUME NEW S, IsFiniteSet(S), NEW f, \A x \in S : f[x] \in Int
    PROVE  SumFunctionOnSet(f, S) \in Int
<1>. DEFINE C == {T \in SUBSET S : SumFunctionOnSet(f, T) \notin Int}
<1>. SUFFICES ASSUME C # {} PROVE FALSE
    OBVIOUS
<1>1. PICK T \in C : \A V \in SUBSET T : V # T => V \notin C
    <2>1. C \subseteq SUBSET S
        OBVIOUS
    <2>. HIDE DEF C
    <2>. QED
        BY <2>1, MinimalSubset
<1>2. T \in SUBSET S /\ T # {} /\ IsFiniteSet(T)
    <2>1. {} \notin C
        BY SumEmpty
    <2>. QED
        BY <2>1, FS_Subset
<1>3. SumFunctionOnSet(f, T) = f[Pick(T)] + SumFunctionOnSet(f, T \ {Pick(T)})
    BY <1>2, SumPick
<1>4. Pick(T) \in T
    BY <1>2, PickIn
<1>5. SumFunctionOnSet(f, T \ {Pick(T)}) \in Int
    BY <1>1, <1>2, <1>4
<1>. QED
    BY <1>1, <1>2, <1>3, <1>4, <1>5

\* Any member can be taken out of a sum.
LEMMA SumRemove ==
    ASSUME NEW S, IsFiniteSet(S), NEW f, \A x \in S : f[x] \in Int, NEW y \in S
    PROVE  SumFunctionOnSet(f, S) = f[y] + SumFunctionOnSet(f, S \ {y})
<1>. DEFINE C == {T \in SUBSET S : \E z \in T :
                    SumFunctionOnSet(f, T) # f[z] + SumFunctionOnSet(f, T \ {z})}
<1>. SUFFICES ASSUME C # {} PROVE FALSE
    OBVIOUS
<1>1. PICK T \in C : \A V \in SUBSET T : V # T => V \notin C
    <2>1. C \subseteq SUBSET S
        OBVIOUS
    <2>. HIDE DEF C
    <2>. QED
        BY <2>1, MinimalSubset
<1>2. PICK z \in T : SumFunctionOnSet(f, T) # f[z] + SumFunctionOnSet(f, T \ {z})
    BY <1>1
<1>. DEFINE c == Pick(T)
<1>3. T \in SUBSET S /\ T # {} /\ IsFiniteSet(T) /\ c \in T
    BY <1>1, <1>2, FS_Subset, PickIn
<1>4. SumFunctionOnSet(f, T) = f[c] + SumFunctionOnSet(f, T \ {c})
    BY <1>3, SumPick
<1>5. z # c
    BY <1>2, <1>4
<1>. HIDE DEF c
<1>6. SumFunctionOnSet(f, T \ {c}) = f[z] + SumFunctionOnSet(f, T \ {c, z})
    <2>1. T \ {c} \notin C /\ z \in T \ {c} /\ T \ {c} \in SUBSET S
        BY <1>1, <1>3, <1>5
    <2>2. (T \ {c}) \ {z} = T \ {c, z}
        OBVIOUS
    <2>. QED
        BY <2>1, <2>2
<1>7. SumFunctionOnSet(f, T \ {z}) = f[c] + SumFunctionOnSet(f, T \ {c, z})
    <2>1. T \ {z} \notin C /\ c \in T \ {z} /\ T \ {z} \in SUBSET S
        BY <1>1, <1>3, <1>5
    <2>2. (T \ {z}) \ {c} = T \ {c, z}
        OBVIOUS
    <2>. QED
        BY <2>1, <2>2
<1>8. SumFunctionOnSet(f, T \ {c, z}) \in Int
    <2>1. IsFiniteSet(T \ {c, z}) /\ T \ {c, z} \subseteq S
        BY <1>3, FS_Subset
    <2>. QED
        BY <1>3, <2>1, SumInt
<1>9. f[c] \in Int /\ f[z] \in Int
    BY <1>3
<1>. QED
    <2>. HIDE DEF C
    <2>1. f[c] + (f[z] + SumFunctionOnSet(f, T \ {c, z}))
            = f[z] + (f[c] + SumFunctionOnSet(f, T \ {c, z}))
        BY <1>8, <1>9
    <2>. QED
        BY <1>2, <1>4, <1>6, <1>7, <2>1

\* Sums compare as the functions do.
LEMMA SumMonotone ==
    ASSUME NEW S, IsFiniteSet(S), NEW f, NEW g,
           \A x \in S : f[x] \in Int /\ g[x] \in Int /\ f[x] <= g[x]
    PROVE  SumFunctionOnSet(f, S) <= SumFunctionOnSet(g, S)
<1>. DEFINE C == {T \in SUBSET S :
                    ~(SumFunctionOnSet(f, T) <= SumFunctionOnSet(g, T))}
<1>. SUFFICES ASSUME C # {} PROVE FALSE
    OBVIOUS
<1>1. PICK T \in C : \A V \in SUBSET T : V # T => V \notin C
    <2>1. C \subseteq SUBSET S
        OBVIOUS
    <2>. HIDE DEF C
    <2>. QED
        BY <2>1, MinimalSubset
<1>2. T \in SUBSET S /\ T # {} /\ IsFiniteSet(T)
    <2>1. {} \notin C
        BY SumEmpty
    <2>. QED
        BY <2>1, FS_Subset
<1>. PICK c \in T : c = Pick(T)
    BY <1>2, PickIn
<1>3. /\ SumFunctionOnSet(f, T) = f[c] + SumFunctionOnSet(f, T \ {c})
      /\ SumFunctionOnSet(g, T) = g[c] + SumFunctionOnSet(g, T \ {c})
    BY <1>2, SumPick
<1>4. SumFunctionOnSet(f, T \ {c}) <= SumFunctionOnSet(g, T \ {c})
    BY <1>1, <1>2
<1>5. SumFunctionOnSet(f, T \ {c}) \in Int /\ SumFunctionOnSet(g, T \ {c}) \in Int
    <2>1. IsFiniteSet(T \ {c}) /\ T \ {c} \subseteq S
        BY <1>2, FS_Subset
    <2>. QED
        BY <2>1, SumInt
<1>6. SumFunctionOnSet(f, T) <= SumFunctionOnSet(g, T)
    BY <1>2, <1>3, <1>4, <1>5
<1>. QED
    BY <1>1, <1>6

\* Functions that agree on a set have the same sum over it.
LEMMA SumEqual ==
    ASSUME NEW S, IsFiniteSet(S), NEW f, NEW g,
           \A x \in S : f[x] \in Int /\ f[x] = g[x]
    PROVE  SumFunctionOnSet(f, S) = SumFunctionOnSet(g, S)
<1>1. SumFunctionOnSet(f, S) <= SumFunctionOnSet(g, S)
    BY SumMonotone
<1>2. SumFunctionOnSet(g, S) <= SumFunctionOnSet(f, S)
    BY SumMonotone
<1>3. SumFunctionOnSet(f, S) \in Int /\ SumFunctionOnSet(g, S) \in Int
    BY SumInt
<1>. QED
    BY <1>1, <1>2, <1>3

\* A sum of zeros is zero.
LEMMA SumZero ==
    ASSUME NEW S, IsFiniteSet(S), NEW f, \A x \in S : f[x] = 0
    PROVE  SumFunctionOnSet(f, S) = 0
<1>. DEFINE C == {T \in SUBSET S : SumFunctionOnSet(f, T) # 0}
<1>. SUFFICES ASSUME C # {} PROVE FALSE
    OBVIOUS
<1>1. PICK T \in C : \A V \in SUBSET T : V # T => V \notin C
    <2>1. C \subseteq SUBSET S
        OBVIOUS
    <2>. HIDE DEF C
    <2>. QED
        BY <2>1, MinimalSubset
<1>2. T \in SUBSET S /\ T # {} /\ IsFiniteSet(T)
    <2>1. {} \notin C
        BY SumEmpty
    <2>. QED
        BY <2>1, FS_Subset
<1>. PICK c \in T : c = Pick(T)
    BY <1>2, PickIn
<1>3. SumFunctionOnSet(f, T) = f[c] + SumFunctionOnSet(f, T \ {c})
    BY <1>2, SumPick
<1>4. SumFunctionOnSet(f, T \ {c}) = 0
    BY <1>1, <1>2
<1>. QED
    BY <1>1, <1>2, <1>3, <1>4

\* A sum of naturals is a natural, and no smaller than any of them.
LEMMA SumNat ==
    ASSUME NEW S, IsFiniteSet(S), NEW f, \A x \in S : f[x] \in Nat
    PROVE  /\ SumFunctionOnSet(f, S) \in Nat
           /\ \A x \in S : f[x] <= SumFunctionOnSet(f, S)
<1>. DEFINE zero == [x \in S |-> 0]
<1>1. ASSUME NEW T \in SUBSET S
      PROVE  SumFunctionOnSet(f, T) \in Nat
    <2>1. IsFiniteSet(T)
        BY FS_Subset
    <2>2. SumFunctionOnSet(zero, T) = 0
        BY <2>1, SumZero
    <2>3. SumFunctionOnSet(zero, T) <= SumFunctionOnSet(f, T)
        BY <2>1, SumMonotone
    <2>4. SumFunctionOnSet(f, T) \in Int
        BY <2>1, SumInt
    <2>. QED
        BY <2>2, <2>3, <2>4
<1>2. ASSUME NEW x \in S
      PROVE  f[x] <= SumFunctionOnSet(f, S)
    <2>1. SumFunctionOnSet(f, S) = f[x] + SumFunctionOnSet(f, S \ {x})
        BY SumRemove
    <2>2. SumFunctionOnSet(f, S \ {x}) \in Nat
        BY <1>1
    <2>. QED
        BY <2>1, <2>2
<1>. QED
    BY <1>1, <1>2

\* One value changes: the sum changes by as much.
LEMMA SumChange ==
    ASSUME NEW S, IsFiniteSet(S), NEW f, NEW g, NEW y \in S,
           \A x \in S : f[x] \in Int /\ g[x] \in Int,
           \A x \in S \ {y} : g[x] = f[x]
    PROVE  SumFunctionOnSet(g, S) = SumFunctionOnSet(f, S) + g[y] - f[y]
<1>1. IsFiniteSet(S \ {y})
    BY FS_Subset
<1>2. SumFunctionOnSet(g, S) = g[y] + SumFunctionOnSet(g, S \ {y})
    BY SumRemove
<1>3. SumFunctionOnSet(f, S) = f[y] + SumFunctionOnSet(f, S \ {y})
    BY SumRemove
<1>4. SumFunctionOnSet(f, S \ {y}) = SumFunctionOnSet(g, S \ {y})
    BY <1>1, SumEqual
<1>5. SumFunctionOnSet(f, S \ {y}) \in Int
    BY <1>1, SumInt
<1>. QED
    BY <1>2, <1>3, <1>4, <1>5

\* A member joins the set.
LEMMA SumAdd ==
    ASSUME NEW S, IsFiniteSet(S), NEW f, NEW y, y \notin S,
           \A x \in S \cup {y} : f[x] \in Int
    PROVE  SumFunctionOnSet(f, S \cup {y}) = f[y] + SumFunctionOnSet(f, S)
<1>1. IsFiniteSet(S \cup {y}) /\ (S \cup {y}) \ {y} = S
    BY FS_AddElement
<1>. QED
    BY <1>1, SumRemove
\* The sum of a sum of functions is the sum of their sums.
LEMMA SumPlus ==
    ASSUME NEW S, IsFiniteSet(S), NEW f, NEW g, NEW h,
           \A x \in S : f[x] \in Int /\ g[x] \in Int /\ h[x] = f[x] + g[x]
    PROVE  SumFunctionOnSet(h, S) = SumFunctionOnSet(f, S) + SumFunctionOnSet(g, S)
<1>. DEFINE C == {T \in SUBSET S :
                    SumFunctionOnSet(h, T) # SumFunctionOnSet(f, T) + SumFunctionOnSet(g, T)}
<1>. SUFFICES ASSUME C # {} PROVE FALSE
    OBVIOUS
<1>1. PICK T \in C : \A V \in SUBSET T : V # T => V \notin C
    <2>1. C \subseteq SUBSET S
        OBVIOUS
    <2>. HIDE DEF C
    <2>. QED
        BY <2>1, MinimalSubset
<1>2. T \in SUBSET S /\ T # {} /\ IsFiniteSet(T)
    <2>1. {} \notin C
        BY SumEmpty
    <2>. QED
        BY <2>1, FS_Subset
<1>. PICK c \in T : c = Pick(T)
    BY <1>2, PickIn
<1>3. /\ SumFunctionOnSet(f, T) = f[c] + SumFunctionOnSet(f, T \ {c})
      /\ SumFunctionOnSet(g, T) = g[c] + SumFunctionOnSet(g, T \ {c})
      /\ SumFunctionOnSet(h, T) = h[c] + SumFunctionOnSet(h, T \ {c})
    BY <1>2, SumPick
<1>4. SumFunctionOnSet(h, T \ {c})
        = SumFunctionOnSet(f, T \ {c}) + SumFunctionOnSet(g, T \ {c})
    BY <1>1, <1>2
<1>5. SumFunctionOnSet(f, T \ {c}) \in Int /\ SumFunctionOnSet(g, T \ {c}) \in Int
    <2>1. IsFiniteSet(T \ {c}) /\ T \ {c} \subseteq S
        BY <1>2, FS_Subset
    <2>. QED
        BY <2>1, SumInt
<1>6. SumFunctionOnSet(h, T) = SumFunctionOnSet(f, T) + SumFunctionOnSet(g, T)
    BY <1>2, <1>3, <1>4, <1>5
<1>. QED
    BY <1>1, <1>6

\* The sum of a multiple is the multiple of the sum.
LEMMA SumScale ==
    ASSUME NEW S, IsFiniteSet(S), NEW f, NEW h, NEW k \in Int,
           \A x \in S : f[x] \in Int /\ h[x] = k * f[x]
    PROVE  SumFunctionOnSet(h, S) = k * SumFunctionOnSet(f, S)
<1>. DEFINE C == {T \in SUBSET S : SumFunctionOnSet(h, T) # k * SumFunctionOnSet(f, T)}
<1>. SUFFICES ASSUME C # {} PROVE FALSE
    OBVIOUS
<1>1. PICK T \in C : \A V \in SUBSET T : V # T => V \notin C
    <2>1. C \subseteq SUBSET S
        OBVIOUS
    <2>. HIDE DEF C
    <2>. QED
        BY <2>1, MinimalSubset
<1>2. T \in SUBSET S /\ T # {} /\ IsFiniteSet(T)
    <2>1. {} \notin C
        BY SumEmpty
    <2>. QED
        BY <2>1, FS_Subset
<1>. PICK c \in T : c = Pick(T)
    BY <1>2, PickIn
<1>3. /\ SumFunctionOnSet(f, T) = f[c] + SumFunctionOnSet(f, T \ {c})
      /\ SumFunctionOnSet(h, T) = h[c] + SumFunctionOnSet(h, T \ {c})
    BY <1>2, SumPick
<1>4. SumFunctionOnSet(h, T \ {c}) = k * SumFunctionOnSet(f, T \ {c})
    BY <1>1, <1>2
<1>5. SumFunctionOnSet(f, T \ {c}) \in Int /\ f[c] \in Int /\ h[c] = k * f[c]
    <2>1. IsFiniteSet(T \ {c}) /\ T \ {c} \subseteq S
        BY <1>2, FS_Subset
    <2>. QED
        BY <1>2, <2>1, SumInt
<1>6. SumFunctionOnSet(h, T) = k * SumFunctionOnSet(f, T)
    BY <1>3, <1>4, <1>5
<1>. QED
    BY <1>1, <1>6

\* A part of a sum of naturals is no larger than the whole.
LEMMA SumSubset ==
    ASSUME NEW S, IsFiniteSet(S), NEW f, \A x \in S : f[x] \in Nat, NEW U \in SUBSET S
    PROVE  SumFunctionOnSet(f, U) <= SumFunctionOnSet(f, S)
<1>. DEFINE C == {T \in SUBSET S : U \subseteq T
                    /\ ~(SumFunctionOnSet(f, U) <= SumFunctionOnSet(f, T))}
<1>. SUFFICES ASSUME C # {} PROVE FALSE
    OBVIOUS
<1>1. PICK T \in C : \A V \in SUBSET T : V # T => V \notin C
    <2>1. C \subseteq SUBSET S
        OBVIOUS
    <2>. HIDE DEF C
    <2>. QED
        BY <2>1, MinimalSubset
<1>2. /\ T \in SUBSET S /\ U \subseteq T /\ IsFiniteSet(T) /\ IsFiniteSet(U)
      /\ ~(SumFunctionOnSet(f, U) <= SumFunctionOnSet(f, T))
    BY <1>1, FS_Subset
<1>3. SumFunctionOnSet(f, U) \in Nat
    BY <1>2, SumNat
<1>4. PICK y \in T : y \notin U
    BY <1>2, <1>3
<1>5. SumFunctionOnSet(f, T) = f[y] + SumFunctionOnSet(f, T \ {y})
    BY <1>2, SumRemove
<1>6. SumFunctionOnSet(f, U) <= SumFunctionOnSet(f, T \ {y})
    <2>1. T \ {y} \in SUBSET T /\ T \ {y} # T /\ U \subseteq T \ {y} /\ T \ {y} \in SUBSET S
        BY <1>2, <1>4
    <2>. QED
        BY <1>1, <2>1
<1>7. SumFunctionOnSet(f, T \ {y}) \in Nat /\ f[y] \in Nat
    <2>1. IsFiniteSet(T \ {y})
        BY <1>2, FS_Subset
    <2>. QED
        BY <1>2, <2>1, SumNat
<1>8. SumFunctionOnSet(f, U) <= SumFunctionOnSet(f, T)
    BY <1>3, <1>5, <1>6, <1>7
<1>. QED
    BY <1>2, <1>8
=============================================================================
