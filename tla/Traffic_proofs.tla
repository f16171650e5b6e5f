--------------------------- MODULE Traffic_proofs ---------------------------
(***************************************************************************)
(* The bookkeeping of Traffic for every set of users and nodes, every      *)
(* multiplier, every limit and every number of failures: the types, who is *)
(* limited, and that neither a bill nor the history of a node shows bytes  *)
(* that nobody moved.  The last three hold of nodes without amneziawg,     *)
(* whose counters no read empties (NoKernel).                              *)
(***************************************************************************)
EXTENDS Traffic, FiniteSetTheorems, WellFoundedInduction, TLAPS

-----------------------------------------------------------------------------
(* Sums over finite sets: what FoldFunction of the community modules       *)
(* computes with +.  The proofs go by the smallest counterexample: among   *)
(* the subsets of a finite set that lack a property there is one none of   *)
(* whose proper subsets lacks it.                                          *)

(* Any non-empty family of subsets of a finite set has a smallest member.  *)
(* Applied to the family of the subsets that lack a property, this is      *)
(* induction over a finite set.                                            *)
LEMMA SmallestSubset ==
  ASSUME NEW S, IsFiniteSet(S), NEW F, F \subseteq SUBSET S, F # {}
  PROVE  \E T \in F : \A U \in F : U \subseteq T => U = T
<1>1. F \subseteq FiniteSubsetsOf(S)
  BY FS_Subset DEF FiniteSubsetsOf
<1>2. \E T \in F : \A U \in F : ~ (<<U, T>> \in StrictSubsetOrdering(S))
  BY <1>1, FS_StrictSubsetOrderingWellFounded, WFMin
<1>3. QED
  BY <1>2 DEF StrictSubsetOrdering

SumEqn(f, S, g) ==
  g = [s \in SUBSET S |-> IF s = {} THEN 0
                          ELSE f[CHOOSE x \in s : TRUE] + g[s \ {CHOOSE x \in s : TRUE}]]
SumFcn(f, S) == CHOOSE g : SumEqn(f, S, g)

\* The sum of the library, at the set it is asked for, is the value of SumFcn.
LEMMA SumFcnIs ==
  ASSUME NEW f, NEW S
  PROVE  SumFunctionOnSet(f, S) = SumFcn(f, S)[S]
BY DEF SumEqn, SumFcn, SumFunctionOnSet, FoldFunctionOnSet, MapThenFoldSet

\* Two functions with the equation of the sum have the same values on subsets.
LEMMA SumFcnAgree ==
  ASSUME NEW S, IsFiniteSet(S), NEW f, NEW g, NEW h, NEW T, T \subseteq S,
         SumEqn(f, S, g), SumEqn(f, T, h)
  PROVE  \A s \in SUBSET T : g[s] = h[s]
<1> DEFINE F == {s \in SUBSET T : g[s] # h[s]}
<1>1. SUFFICES ASSUME F # {} PROVE FALSE
  OBVIOUS
<1>2. IsFiniteSet(T) /\ F \subseteq SUBSET T
  BY FS_Subset
<1>3. PICK s \in F : \A U \in F : U \subseteq s => U = s
  <2>. HIDE DEF F
  <2>. QED BY <1>1, <1>2, SmallestSubset
<1> DEFINE x == CHOOSE y \in s : TRUE
           u == s \ {x}
<1>4. s \in SUBSET S /\ s \in SUBSET T
  OBVIOUS
<1>5. CASE s = {}
  <2>1. g[s] = 0
    BY <1>4, <1>5 DEF SumEqn
  <2>2. h[s] = 0
    BY <1>4, <1>5 DEF SumEqn
  <2>. QED BY <2>1, <2>2
<1>6. CASE s # {}
  <2>1. x \in s
    BY <1>6
  <2>2. u \subseteq s /\ u # s /\ u \in SUBSET T
    BY <2>1
  <2>3. g[u] = h[u]
    BY <2>2, <1>3
  <2>4. g[s] = f[x] + g[u]
    BY <1>4, <1>6 DEF SumEqn
  <2>5. h[s] = f[x] + h[u]
    BY <1>4, <1>6 DEF SumEqn
  <2>. QED BY <2>3, <2>4, <2>5
<1>. QED
  BY <1>5, <1>6

\* The equation of the sum has a solution over every finite set.
LEMMA SumFcnExists ==
  ASSUME NEW S, IsFiniteSet(S), NEW f
  PROVE  SumEqn(f, S, SumFcn(f, S))
<1> DEFINE F == {T \in SUBSET S : ~ SumEqn(f, T, SumFcn(f, T))}
<1>1. SUFFICES ASSUME F # {} PROVE FALSE
  OBVIOUS
<1>3. PICK T \in F : \A U \in F : U \subseteq T => U = T
  <2>1. F \subseteq SUBSET S
    OBVIOUS
  <2>. HIDE DEF F
  <2>. QED BY <1>1, <2>1, SmallestSubset
<1>4. \A U \in SUBSET T : U # T => SumEqn(f, U, SumFcn(f, U)) /\ IsFiniteSet(U)
  <2>1. TAKE U \in SUBSET T
  <2>2. HAVE U # T
  <2>3. U \in SUBSET S /\ U \notin F
    BY <1>3, <2>2
  <2>. QED BY <2>3, FS_Subset
<1> DEFINE pick(s) == CHOOSE y \in s : TRUE
           rest(s) == s \ {pick(s)}
           g == [s \in SUBSET T |-> IF s = {} THEN 0
                                    ELSE f[pick(s)] + SumFcn(f, rest(s))[rest(s)]]
<1>5. ASSUME NEW s \in SUBSET T, s # {}
      PROVE  g[rest(s)] = SumFcn(f, rest(s))[rest(s)]
  <2> DEFINE u == rest(s)
             w == rest(u)
  <2>1. pick(s) \in s
    BY <1>5
  <2>2. u \in SUBSET T /\ u # T
    BY <2>1
  <2>3. SumEqn(f, u, SumFcn(f, u)) /\ IsFiniteSet(u)
    BY <2>2, <1>4
  <2>4. CASE u = {}
    <3>1. g[u] = 0
      BY <2>2, <2>4
    <3>2. SumFcn(f, u)[u] = 0
      <4> DEFINE h == SumFcn(f, u)
      <4>1. SumEqn(f, u, h)
        BY <2>3
      <4>. HIDE DEF h
      <4>2. h[u] = 0
        BY <4>1, <2>4 DEF SumEqn
      <4>. QED BY <4>2 DEF h
    <3>. QED BY <3>1, <3>2
  <2>5. CASE u # {}
    <3>1. pick(u) \in u
      BY <2>5
    <3>2. w \in SUBSET u /\ w \in SUBSET T /\ w # T
      BY <3>1, <2>2
    <3>3. SumEqn(f, w, SumFcn(f, w))
      BY <3>2, <1>4
    <3>4. SumFcn(f, u)[w] = SumFcn(f, w)[w]
      BY <3>2, <3>3, <2>3, SumFcnAgree
    <3>5. SumFcn(f, u)[u] = f[pick(u)] + SumFcn(f, u)[w]
      <4> DEFINE h == SumFcn(f, u)
      <4>1. SumEqn(f, u, h)
        BY <2>3
      <4>. HIDE DEF h
      <4>2. h[u] = f[pick(u)] + h[w]
        BY <4>1, <2>5 DEF SumEqn
      <4>. QED BY <4>2 DEF h
    <3>6. g[u] = f[pick(u)] + SumFcn(f, w)[w]
      BY <2>2, <2>5
    <3>. QED BY <3>4, <3>5, <3>6
  <2>. QED BY <2>4, <2>5
<1>6. SumEqn(f, T, g)
  <2>1. \A s \in SUBSET T : g[s] = IF s = {} THEN 0 ELSE f[pick(s)] + g[rest(s)]
    <3>1. TAKE s \in SUBSET T
    <3>2. CASE s = {}
      BY <3>2
    <3>3. CASE s # {}
      <4>1. g[s] = f[pick(s)] + SumFcn(f, rest(s))[rest(s)]
        BY <3>3
      <4>2. g[rest(s)] = SumFcn(f, rest(s))[rest(s)]
        BY <3>3, <1>5
      <4>. HIDE DEF g
      <4>. QED BY <4>1, <4>2, <3>3
    <3>. QED BY <3>2, <3>3
  <2>2. g = [s \in SUBSET T |-> g[s]]
    OBVIOUS
  <2>. HIDE DEF g
  <2>3. g = [s \in SUBSET T |-> IF s = {} THEN 0 ELSE f[pick(s)] + g[rest(s)]]
    BY <2>1, <2>2
  <2>. QED BY <2>3 DEF SumEqn
<1>7. SumEqn(f, T, SumFcn(f, T))
  <2>. HIDE DEF g
  <2>. QED BY <1>6 DEF SumFcn
<1>. QED
  BY <1>7
-----------------------------------------------------------------------------
Natural(f, S) == \A x \in S : f[x] \in Nat

\* The sum over no elements is zero.
LEMMA SumOfNone ==
  ASSUME NEW f
  PROVE  SumFunctionOnSet(f, {}) = 0
<1> DEFINE h == SumFcn(f, {})
<1>1. SumEqn(f, {}, h)
  BY FS_EmptySet, SumFcnExists
<1>2. h[{}] = 0
  <2>. HIDE DEF h
  <2>. QED BY <1>1 DEF SumEqn
<1>. QED
  BY <1>2, SumFcnIs

\* The sum takes the element CHOOSE names and sums the rest.
LEMMA SumPick ==
  ASSUME NEW S, IsFiniteSet(S), NEW f, S # {}
  PROVE  \E x \in S : SumFunctionOnSet(f, S) = f[x] + SumFunctionOnSet(f, S \ {x})
<1> DEFINE x == CHOOSE y \in S : TRUE
           u == S \ {x}
           h == SumFcn(f, S)
<1>1. x \in S /\ u \subseteq S /\ IsFiniteSet(u)
  BY FS_RemoveElement
<1>2. SumEqn(f, S, h) /\ SumEqn(f, u, SumFcn(f, u))
  BY <1>1, SumFcnExists
<1>3. h[u] = SumFcn(f, u)[u]
  BY <1>1, <1>2, SumFcnAgree
<1>4. h[S] = f[x] + h[u]
  <2>. HIDE DEF h
  <2>. QED BY <1>2 DEF SumEqn
<1>. QED
  BY <1>1, <1>3, <1>4, SumFcnIs

(* A sum of naturals is a natural, and any term may be taken out first. *)
LEMMA SumTakeOut ==
  ASSUME NEW S, IsFiniteSet(S), NEW f, Natural(f, S)
  PROVE  /\ SumFunctionOnSet(f, S) \in Nat
         /\ \A x \in S : SumFunctionOnSet(f, S) = f[x] + SumFunctionOnSet(f, S \ {x})
<1> DEFINE sum(T) == SumFunctionOnSet(f, T)
           Good(T) == /\ sum(T) \in Nat
                      /\ \A x \in T : sum(T) = f[x] + sum(T \ {x})
           F == {T \in SUBSET S : ~ Good(T)}
<1>1. SUFFICES ASSUME F # {} PROVE FALSE
  <2>1. S \in SUBSET S
    OBVIOUS
  <2>. QED BY <2>1
<1>2. PICK T \in F : \A U \in F : U \subseteq T => U = T
  <2>1. F \subseteq SUBSET S
    OBVIOUS
  <2>. HIDE DEF F
  <2>. QED BY <1>1, <2>1, SmallestSubset
<1>3. T \subseteq S /\ ~ Good(T) /\ IsFiniteSet(T)
  BY FS_Subset
<1>4. ASSUME NEW U \in SUBSET T, U # T PROVE Good(U)
  <2>1. U \notin F
    BY <1>4, <1>2
  <2>. QED BY <2>1, <1>3
<1>5. T # {}
  <2>1. ASSUME T = {} PROVE Good(T)
    <3>. HIDE DEF sum
    <3>. QED BY <2>1, SumOfNone DEF sum
  <2>. QED BY <2>1, <1>3
<1>6. PICK y \in T : sum(T) = f[y] + sum(T \ {y})
  BY <1>3, <1>5, SumPick
<1>7. Good(T \ {y})
  BY <1>4
<1>8. sum(T) \in Nat
  BY <1>3, <1>6, <1>7 DEF Natural
<1>9. ASSUME NEW x \in T PROVE sum(T) = f[x] + sum(T \ {x})
  <2>1. CASE x = y
    BY <2>1, <1>6
  <2>2. CASE x # y
    <3> DEFINE w == T \ {x, y}
    <3>1. (T \ {y}) \ {x} = w /\ (T \ {x}) \ {y} = w
      OBVIOUS
    <3>2. sum(T \ {y}) = f[x] + sum(w)
      <4>1. x \in T \ {y}
        BY <2>2
      <4>. HIDE DEF sum, w
      <4>. QED BY <4>1, <3>1, <1>7
    <3>3. Good(T \ {x})
      BY <1>4
    <3>4. sum(T \ {x}) = f[y] + sum(w)
      <4>1. y \in T \ {x}
        BY <2>2
      <4>. HIDE DEF sum, w
      <4>. QED BY <4>1, <3>1, <3>3
    <3>5. sum(w) \in Nat
      <4>1. Good(w)
        BY <1>4
      <4>. QED BY <4>1
    <3>6. f[x] \in Nat /\ f[y] \in Nat
      BY <1>3 DEF Natural
    <3>. HIDE DEF sum, w
    <3>. QED BY <1>6, <3>2, <3>4, <3>5, <3>6
  <2>. QED BY <2>1, <2>2
<1>. QED
  BY <1>3, <1>8, <1>9

(* Larger terms, larger sum. *)
LEMMA SumMonotone ==
  ASSUME NEW S, IsFiniteSet(S), NEW f, NEW g, Natural(f, S), Natural(g, S),
         \A x \in S : f[x] <= g[x]
  PROVE  SumFunctionOnSet(f, S) <= SumFunctionOnSet(g, S)
<1> DEFINE sum(p, T) == SumFunctionOnSet(p, T)
           F == {T \in SUBSET S : ~ (SumFunctionOnSet(f, T) <= SumFunctionOnSet(g, T))}
<1>1. SUFFICES ASSUME F # {} PROVE FALSE
  <2>1. S \in SUBSET S
    OBVIOUS
  <2>. QED BY <2>1
<1>2. PICK T \in F : \A U \in F : U \subseteq T => U = T
  <2>1. F \subseteq SUBSET S
    OBVIOUS
  <2>. HIDE DEF F
  <2>. QED BY <1>1, <2>1, SmallestSubset
<1>3. T \subseteq S /\ IsFiniteSet(T)
  BY FS_Subset
<1>4. T # {}
  BY SumOfNone
<1>5. PICK y \in T : TRUE
  BY <1>4
<1> DEFINE u == T \ {y}
<1>6. u \subseteq T /\ u # T /\ IsFiniteSet(u)
  BY <1>3, FS_RemoveElement
<1>7. SumFunctionOnSet(f, u) <= SumFunctionOnSet(g, u)
  <2>1. u \notin F
    BY <1>2, <1>6
  <2>. QED BY <2>1, <1>3
<1>8. Natural(f, T) /\ Natural(g, T) /\ Natural(f, u) /\ Natural(g, u)
  BY <1>3 DEF Natural
<1>9. /\ sum(f, T) = f[y] + sum(f, u) /\ sum(f, u) \in Nat
      /\ sum(g, T) = g[y] + sum(g, u) /\ sum(g, u) \in Nat
  BY <1>3, <1>6, <1>8, SumTakeOut
<1>10. f[y] \in Nat /\ g[y] \in Nat /\ f[y] <= g[y]
  BY <1>3, <1>8 DEF Natural
<1>11. sum(f, T) <= sum(g, T)
  <2>. HIDE DEF sum, u
  <2>. QED BY <1>7, <1>9, <1>10 DEF sum
<1>. QED
  BY <1>11

(* The sum looks at nothing but the terms. *)
LEMMA SumAgree ==
  ASSUME NEW S, IsFiniteSet(S), NEW f, NEW g, Natural(f, S), \A x \in S : f[x] = g[x]
  PROVE  SumFunctionOnSet(f, S) = SumFunctionOnSet(g, S)
<1>1. Natural(g, S)
  BY DEF Natural
<1>2. \A x \in S : f[x] <= g[x] /\ g[x] <= f[x]
  BY <1>1 DEF Natural
<1>3. /\ SumFunctionOnSet(f, S) <= SumFunctionOnSet(g, S)
      /\ SumFunctionOnSet(g, S) <= SumFunctionOnSet(f, S)
  BY <1>1, <1>2, SumMonotone
<1>4. SumFunctionOnSet(f, S) \in Nat /\ SumFunctionOnSet(g, S) \in Nat
  BY <1>1, SumTakeOut
<1>. QED
  BY <1>3, <1>4

(* The sum of sums. *)
LEMMA SumPlus ==
  ASSUME NEW S, IsFiniteSet(S), NEW f, NEW g, NEW h, Natural(f, S), Natural(g, S),
         \A x \in S : h[x] = f[x] + g[x]
  PROVE  SumFunctionOnSet(h, S) = SumFunctionOnSet(f, S) + SumFunctionOnSet(g, S)
<1> DEFINE sum(p, T) == SumFunctionOnSet(p, T)
           F == {T \in SUBSET S : ~ (SumFunctionOnSet(h, T) = SumFunctionOnSet(f, T) + SumFunctionOnSet(g, T))}
<1>1. SUFFICES ASSUME F # {} PROVE FALSE
  <2>1. S \in SUBSET S
    OBVIOUS
  <2>. QED BY <2>1
<1>2. PICK T \in F : \A U \in F : U \subseteq T => U = T
  <2>1. F \subseteq SUBSET S
    OBVIOUS
  <2>. HIDE DEF F
  <2>. QED BY <1>1, <2>1, SmallestSubset
<1>3. T \subseteq S /\ IsFiniteSet(T)
  BY FS_Subset
<1>4. T # {}
  BY SumOfNone
<1>5. PICK y \in T : TRUE
  BY <1>4
<1> DEFINE u == T \ {y}
<1>6. u \subseteq T /\ u # T /\ IsFiniteSet(u)
  BY <1>3, FS_RemoveElement
<1>7. SumFunctionOnSet(h, u) = SumFunctionOnSet(f, u) + SumFunctionOnSet(g, u)
  <2>1. u \notin F
    BY <1>2, <1>6
  <2>. QED BY <2>1, <1>3
<1>8. /\ Natural(f, T) /\ Natural(g, T) /\ Natural(h, T)
      /\ Natural(f, u) /\ Natural(g, u) /\ Natural(h, u)
  BY <1>3 DEF Natural
<1>9. /\ sum(f, T) = f[y] + sum(f, u) /\ sum(f, u) \in Nat
      /\ sum(g, T) = g[y] + sum(g, u) /\ sum(g, u) \in Nat
      /\ sum(h, T) = h[y] + sum(h, u) /\ sum(h, u) \in Nat
  BY <1>3, <1>6, <1>8, SumTakeOut
<1>10. f[y] \in Nat /\ g[y] \in Nat /\ h[y] = f[y] + g[y]
  BY <1>3, <1>8 DEF Natural
<1>11. sum(h, T) = sum(f, T) + sum(g, T)
  <2>. HIDE DEF sum, u
  <2>. QED BY <1>7, <1>9, <1>10 DEF sum
<1>. QED
  BY <1>11

(* A common factor may be taken out. *)
LEMMA SumTimes ==
  ASSUME NEW S, IsFiniteSet(S), NEW f, NEW h, NEW k \in Nat, Natural(f, S),
         \A x \in S : h[x] = k * f[x]
  PROVE  SumFunctionOnSet(h, S) = k * SumFunctionOnSet(f, S)
<1> DEFINE sum(p, T) == SumFunctionOnSet(p, T)
           F == {T \in SUBSET S : ~ (SumFunctionOnSet(h, T) = k * SumFunctionOnSet(f, T))}
<1>1. SUFFICES ASSUME F # {} PROVE FALSE
  <2>1. S \in SUBSET S
    OBVIOUS
  <2>. QED BY <2>1
<1>2. PICK T \in F : \A U \in F : U \subseteq T => U = T
  <2>1. F \subseteq SUBSET S
    OBVIOUS
  <2>. HIDE DEF F
  <2>. QED BY <1>1, <2>1, SmallestSubset
<1>3. T \subseteq S /\ IsFiniteSet(T)
  BY FS_Subset
<1>4. T # {}
  BY SumOfNone
<1>5. PICK y \in T : TRUE
  BY <1>4
<1> DEFINE u == T \ {y}
<1>6. u \subseteq T /\ u # T /\ IsFiniteSet(u)
  BY <1>3, FS_RemoveElement
<1>7. SumFunctionOnSet(h, u) = k * SumFunctionOnSet(f, u)
  <2>1. u \notin F
    BY <1>2, <1>6
  <2>. QED BY <2>1, <1>3
<1>8. /\ Natural(f, T) /\ Natural(h, T) /\ Natural(f, u) /\ Natural(h, u)
  BY <1>3 DEF Natural
<1>9. /\ sum(f, T) = f[y] + sum(f, u) /\ sum(f, u) \in Nat
      /\ sum(h, T) = h[y] + sum(h, u) /\ sum(h, u) \in Nat
  BY <1>3, <1>6, <1>8, SumTakeOut
<1>10. f[y] \in Nat /\ h[y] = k * f[y]
  BY <1>3, <1>8 DEF Natural
<1>11. sum(h, T) = k * sum(f, T)
  <2>. HIDE DEF sum, u
  <2>. QED BY <1>7, <1>9, <1>10 DEF sum
<1>. QED
  BY <1>11

(* One term changes: the sum changes by as much. *)
LEMMA SumChange ==
  ASSUME NEW S, IsFiniteSet(S), NEW f, NEW g, Natural(f, S), NEW y \in S, g[y] \in Nat,
         \A x \in S \ {y} : g[x] = f[x]
  PROVE  SumFunctionOnSet(g, S) + f[y] = SumFunctionOnSet(f, S) + g[y]
<1> DEFINE u == S \ {y}
<1>1. Natural(g, S) /\ Natural(f, u) /\ IsFiniteSet(u)
  BY FS_RemoveElement DEF Natural
<1>2. SumFunctionOnSet(f, u) = SumFunctionOnSet(g, u)
  BY <1>1, SumAgree
<1>3. /\ SumFunctionOnSet(f, S) = f[y] + SumFunctionOnSet(f, u)
      /\ SumFunctionOnSet(g, S) = g[y] + SumFunctionOnSet(g, u)
      /\ SumFunctionOnSet(f, u) \in Nat /\ f[y] \in Nat
  BY <1>1, SumTakeOut DEF Natural
<1>. QED
  BY <1>2, <1>3

(* No term exceeds the sum; no terms but zeros, no sum. *)
LEMMA SumAtLeast ==
  ASSUME NEW S, IsFiniteSet(S), NEW f, Natural(f, S), NEW y \in S
  PROVE  f[y] <= SumFunctionOnSet(f, S)
<1>1. Natural(f, S \ {y}) /\ IsFiniteSet(S \ {y}) /\ f[y] \in Nat
  BY FS_RemoveElement DEF Natural
<1>2. /\ SumFunctionOnSet(f, S) = f[y] + SumFunctionOnSet(f, S \ {y})
      /\ SumFunctionOnSet(f, S \ {y}) \in Nat
  BY <1>1, SumTakeOut
<1>. QED
  BY <1>1, <1>2

\* Zeros sum to zero.
LEMMA SumOfZeros ==
  ASSUME NEW S, IsFiniteSet(S), NEW f, \A x \in S : f[x] = 0
  PROVE  SumFunctionOnSet(f, S) = 0
<1> DEFINE h == [x \in S |-> 0]
<1>1. Natural(h, S) /\ Natural(f, S) /\ 0 \in Nat
  BY DEF Natural
<1>2. SumFunctionOnSet(h, S) = 0 * SumFunctionOnSet(h, S)
  <2>1. \A x \in S : h[x] = 0 * h[x]
    OBVIOUS
  <2>. HIDE DEF h
  <2>. QED BY <1>1, <2>1, SumTimes
<1>3. SumFunctionOnSet(h, S) = SumFunctionOnSet(f, S)
  <2>1. \A x \in S : h[x] = f[x]
    OBVIOUS
  <2>. HIDE DEF h
  <2>. QED BY <1>1, <2>1, SumAgree
<1>4. SumFunctionOnSet(h, S) \in Nat
  <2>. HIDE DEF h
  <2>. QED BY <1>1, SumTakeOut
<1>. QED
  <2>. HIDE DEF h
  <2>. QED BY <1>2, <1>3, <1>4

(* Fewer terms, smaller sum: the others count as zeros. *)
LEMMA SumPart ==
  ASSUME NEW S, IsFiniteSet(S), NEW f, Natural(f, S), NEW T, T \subseteq S
  PROVE  SumFunctionOnSet(f, T) <= SumFunctionOnSet(f, S)
<1> DEFINE F == {R \in SUBSET S : T \subseteq R /\
                   ~ (SumFunctionOnSet(f, T) <= SumFunctionOnSet(f, R))}
<1>1. SUFFICES ASSUME F # {} PROVE FALSE
  <2>1. S \in SUBSET S
    OBVIOUS
  <2>. QED BY <2>1
<1>2. PICK R \in F : \A U \in F : U \subseteq R => U = R
  <2>1. F \subseteq SUBSET S
    OBVIOUS
  <2>. HIDE DEF F
  <2>. QED BY <1>1, <2>1, SmallestSubset
<1>3. /\ IsFiniteSet(R) /\ IsFiniteSet(T) /\ Natural(f, R) /\ Natural(f, T)
      /\ T \subseteq R /\ R \subseteq S
  BY FS_Subset DEF Natural
<1>4. SumFunctionOnSet(f, T) \in Nat /\ SumFunctionOnSet(f, R) \in Nat
  BY <1>3, SumTakeOut
<1>5. R # T
  BY <1>4
<1>6. PICK y \in R : y \notin T
  BY <1>3, <1>5
<1> DEFINE u == R \ {y}
<1>7. u \subseteq R /\ u # R /\ T \subseteq u /\ u \in SUBSET S
  BY <1>3, <1>6
<1>8. SumFunctionOnSet(f, T) <= SumFunctionOnSet(f, u)
  <2>1. u \notin F
    BY <1>2, <1>7
  <2>. QED BY <2>1, <1>7
<1>9. /\ SumFunctionOnSet(f, R) = f[y] + SumFunctionOnSet(f, u) /\ f[y] \in Nat
      /\ SumFunctionOnSet(f, u) \in Nat
  <2>1. IsFiniteSet(u) /\ Natural(f, u) /\ f[y] \in Nat
    BY <1>3, <1>6, FS_RemoveElement DEF Natural
  <2>. QED BY <2>1, <1>3, <1>6, SumTakeOut
<1>10. SumFunctionOnSet(f, T) <= SumFunctionOnSet(f, R)
  <2>. HIDE DEF u
  <2>. QED BY <1>4, <1>8, <1>9
<1>. QED
  BY <1>10

-----------------------------------------------------------------------------
(* Totals *)

\* Total is the sum over the domain.
LEMMA TotalIsSum ==
  ASSUME NEW f
  PROVE  Total(f) = SumFunctionOnSet(f, DOMAIN f)
BY DEF Total, FoldFunction, SumFunctionOnSet

\* A total of naturals is a natural.
LEMMA TotalNat ==
  ASSUME NEW S, IsFiniteSet(S), NEW f \in [S -> Nat]
  PROVE  Total(f) \in Nat
<1>1. Natural(f, S)
  BY DEF Natural
<1>. QED
  BY <1>1, SumTakeOut, TotalIsSum

\* Totals grow with their terms.
LEMMA TotalMonotone ==
  ASSUME NEW S, IsFiniteSet(S), NEW f \in [S -> Nat], NEW g \in [S -> Nat],
         \A x \in S : f[x] <= g[x]
  PROVE  Total(f) <= Total(g)
<1>1. Natural(f, S) /\ Natural(g, S)
  BY DEF Natural
<1>. QED
  BY <1>1, SumMonotone, TotalIsSum

\* The total of sums is the sum of the totals.
LEMMA TotalPlus ==
  ASSUME NEW S, IsFiniteSet(S), NEW f \in [S -> Nat], NEW g \in [S -> Nat],
         NEW h \in [S -> Nat], \A x \in S : h[x] = f[x] + g[x]
  PROVE  Total(h) = Total(f) + Total(g)
<1>1. Natural(f, S) /\ Natural(g, S)
  BY DEF Natural
<1>. QED
  BY <1>1, SumPlus, TotalIsSum

\* One term changes: the total changes by as much.
LEMMA TotalChange ==
  ASSUME NEW S, IsFiniteSet(S), NEW f \in [S -> Nat], NEW g \in [S -> Nat],
         NEW y \in S, \A x \in S \ {y} : g[x] = f[x]
  PROVE  Total(g) + f[y] = Total(f) + g[y]
<1>1. Natural(f, S) /\ g[y] \in Nat
  BY DEF Natural
<1>. QED
  BY <1>1, SumChange, TotalIsSum

\* A part of the terms totals no more than all of them.
LEMMA TotalPart ==
  ASSUME NEW S, IsFiniteSet(S), NEW f \in [S -> Nat], NEW T, T \subseteq S,
         NEW r, r = [x \in T |-> f[x]]
  PROVE  Total(r) \in Nat /\ Total(r) <= Total(f)
<1>1. Natural(f, S) /\ Natural(r, T) /\ IsFiniteSet(T)
  BY FS_Subset DEF Natural
<1>2. SumFunctionOnSet(r, T) = SumFunctionOnSet(f, T)
  BY <1>1, SumAgree
<1>3. SumFunctionOnSet(f, T) <= SumFunctionOnSet(f, S)
  BY <1>1, SumPart
<1>4. SumFunctionOnSet(r, T) \in Nat
  BY <1>1, SumTakeOut
<1>. QED
  BY <1>2, <1>3, <1>4, TotalIsSum

\* No term exceeds the total.
LEMMA TotalAtLeast ==
  ASSUME NEW S, IsFiniteSet(S), NEW f \in [S -> Nat], NEW y \in S
  PROVE  f[y] <= Total(f)
<1>1. Natural(f, S)
  BY DEF Natural
<1>. QED
  BY <1>1, SumAtLeast, TotalIsSum

\* Zeros total zero.
LEMMA TotalOfZeros ==
  ASSUME NEW S, IsFiniteSet(S), NEW f \in [S -> {0}]
  PROVE  Total(f) = 0
<1>1. \A x \in S : f[x] = 0
  OBVIOUS
<1>. QED
  BY <1>1, SumOfZeros, TotalIsSum

-----------------------------------------------------------------------------
\* The cores of a node that count per user, and which of them a read empties.
LEMMA CoreFacts ==
  ASSUME NEW n \in Node
  PROVE  /\ PerUser(n) \subseteq Cores[n] /\ Cores[n] \subseteq Kinds
         /\ "mtproto" \notin PerUser(n)
         /\ \A c \in PerUser(n) : c # "amneziawg" => GetStats[c].drains
<1>1. Cores[n] \subseteq Kinds
  BY TrafficAssumption
<1>2. PerUser(n) \subseteq Cores[n]
  BY DEF PerUser
<1>3. \A c \in Kinds : GetStats[c].perUser => c # "mtproto" /\ (c # "amneziawg" => GetStats[c].drains)
  BY DEF Kinds, GetStats, XrayStats, ShadowsocksStats, HysteriaStats, AmneziawgStats, MtprotoStats
<1>. QED
  BY <1>1, <1>2, <1>3 DEF PerUser

\* The entries of a node are finitely many pairs of such a core and a user.
LEMMA EntryFacts ==
  ASSUME NEW n \in Node
  PROVE  /\ IsFiniteSet(PerUser(n)) /\ IsFiniteSet(Entries(n))
         /\ \A c \in PerUser(n), u \in User : <<c, u>> \in Entries(n)
         /\ \A e \in Entries(n) : e[1] \in PerUser(n) /\ e[2] \in User /\ e = <<e[1], e[2]>>
<1>1. IsFiniteSet(Kinds)
  <2>1. Kinds = ((({"xray"} \cup {"shadowsocks"}) \cup {"hysteria"}) \cup {"amneziawg"}) \cup {"mtproto"}
    BY DEF Kinds
  <2>2. IsFiniteSet({"xray"}) /\ IsFiniteSet({"xray"} \cup {"shadowsocks"})
    BY FS_Singleton, FS_AddElement
  <2>3. IsFiniteSet(({"xray"} \cup {"shadowsocks"}) \cup {"hysteria"})
    BY <2>2, FS_AddElement
  <2>4. IsFiniteSet((({"xray"} \cup {"shadowsocks"}) \cup {"hysteria"}) \cup {"amneziawg"})
    BY <2>3, FS_AddElement
  <2>. QED BY <2>1, <2>4, FS_AddElement
<1>2. IsFiniteSet(PerUser(n))
  BY <1>1, CoreFacts, FS_Subset
<1>3. IsFiniteSet(Entries(n))
  BY <1>2, FS_Product, TrafficAssumption DEF Entries
<1>. QED
  BY <1>2, <1>3 DEF Entries

-----------------------------------------------------------------------------
(* What the bytes of a user in a table of entries are worth. *)
OfUser(t, n, u) == Total([c \in PerUser(n) |-> t[n][<<c, u>>]])
Worth(t, u) == Total([n \in Node |-> Multiplier[n] * OfUser(t, n, u)])
Table(t) == \A n \in Node : t[n] \in [Entries(n) -> Nat]

\* The bytes of a user on a node are a natural, and so is their worth.
LEMMA OfUserNat ==
  ASSUME NEW t, Table(t), NEW n \in Node, NEW u \in User
  PROVE  /\ [c \in PerUser(n) |-> t[n][<<c, u>>]] \in [PerUser(n) -> Nat]
         /\ OfUser(t, n, u) \in Nat
         /\ Multiplier[n] \in Nat /\ Multiplier[n] * OfUser(t, n, u) \in Nat
<1>1. [c \in PerUser(n) |-> t[n][<<c, u>>]] \in [PerUser(n) -> Nat]
  BY EntryFacts DEF Table
<1>2. OfUser(t, n, u) \in Nat
  BY <1>1, EntryFacts, TotalNat DEF OfUser
<1>. QED
  BY <1>1, <1>2, TrafficAssumption

\* The worth of a user's bytes is a natural.
LEMMA WorthNat ==
  ASSUME NEW t, Table(t), NEW u \in User
  PROVE  /\ [n \in Node |-> Multiplier[n] * OfUser(t, n, u)] \in [Node -> Nat]
         /\ Worth(t, u) \in Nat
<1>1. [n \in Node |-> Multiplier[n] * OfUser(t, n, u)] \in [Node -> Nat]
  BY OfUserNat
<1>. QED
  BY <1>1, TotalNat, TrafficAssumption DEF Worth

\* Multiplication by a natural is monotone.
LEMMA Times ==
  ASSUME NEW k \in Nat, NEW a \in Nat, NEW b \in Nat, a <= b
  PROVE  k * a <= k * b
<1>1. PICK d \in Nat : b = a + d
  <2>1. b - a \in Nat /\ b = a + (b - a)
    OBVIOUS
  <2>. QED BY <2>1
<1>2. k * b = k * a + k * d /\ k * d \in Nat /\ k * a \in Nat
  BY <1>1
<1>. QED
  BY <1>2

\* Whoever has no more bytes in any entry has no more worth.
LEMMA WorthMonotone ==
  ASSUME NEW s, NEW t, Table(s), Table(t), NEW u \in User,
         \A n \in Node : \A e \in Entries(n) : s[n][e] <= t[n][e]
  PROVE  Worth(s, u) <= Worth(t, u)
<1>1. ASSUME NEW n \in Node
      PROVE  Multiplier[n] * OfUser(s, n, u) <= Multiplier[n] * OfUser(t, n, u)
  <2> DEFINE f == [c \in PerUser(n) |-> s[n][<<c, u>>]]
             g == [c \in PerUser(n) |-> t[n][<<c, u>>]]
  <2>1. f \in [PerUser(n) -> Nat] /\ g \in [PerUser(n) -> Nat]
    BY OfUserNat
  <2>2. \A c \in PerUser(n) : f[c] <= g[c]
    BY EntryFacts
  <2>3. Total(f) <= Total(g)
    <3>. HIDE DEF f, g
    <3>. QED BY <2>1, <2>2, EntryFacts, TotalMonotone
  <2>4. OfUser(s, n, u) <= OfUser(t, n, u)
    BY <2>3 DEF OfUser
  <2>. QED BY <2>4, OfUserNat, Times
<1>2. \A n \in Node : [m \in Node |-> Multiplier[m] * OfUser(s, m, u)][n]
                        <= [m \in Node |-> Multiplier[m] * OfUser(t, m, u)][n]
  BY <1>1
<1>. QED
  BY <1>2, WorthNat, TotalMonotone, TrafficAssumption DEF Worth

(* One entry of one node changes: the worth of its user changes by as much *)
(* times the node's multiplier, and nobody else's changes.                 *)
LEMMA WorthChange ==
  ASSUME NEW s, NEW t, Table(s), Table(t), NEW n \in Node, NEW e \in Entries(n),
         \A d \in Entries(n) \ {e} : s[n][d] = t[n][d],
         \A m \in Node \ {n} : s[m] = t[m]
  PROVE  /\ Worth(s, e[2]) + Multiplier[n] * t[n][e] = Worth(t, e[2]) + Multiplier[n] * s[n][e]
         /\ \A u \in User \ {e[2]} : Worth(s, u) = Worth(t, u)
<1>1. /\ e[1] \in PerUser(n) /\ e[2] \in User /\ e = <<e[1], e[2]>>
      /\ s[n][e] \in Nat /\ t[n][e] \in Nat /\ Multiplier[n] \in Nat
  BY EntryFacts, TrafficAssumption DEF Table
<1>2. ASSUME NEW u \in User, NEW m \in Node \ {n}
      PROVE  OfUser(s, m, u) = OfUser(t, m, u)
  BY <1>2 DEF OfUser
<1>3. OfUser(s, n, e[2]) + t[n][e] = OfUser(t, n, e[2]) + s[n][e]
  <2> DEFINE f == [c \in PerUser(n) |-> s[n][<<c, e[2]>>]]
             g == [c \in PerUser(n) |-> t[n][<<c, e[2]>>]]
  <2>1. f \in [PerUser(n) -> Nat] /\ g \in [PerUser(n) -> Nat]
    BY OfUserNat, <1>1
  <2>2. \A c \in PerUser(n) \ {e[1]} : f[c] = g[c]
    <3>1. TAKE c \in PerUser(n) \ {e[1]}
    <3>2. <<c, e[2]>> \in Entries(n) \ {e}
      BY <1>1, EntryFacts
    <3>. QED BY <3>2
  <2>3. f[e[1]] = s[n][e] /\ g[e[1]] = t[n][e]
    BY <1>1
  <2>4. Total(f) + g[e[1]] = Total(g) + f[e[1]]
    <3>. HIDE DEF f, g
    <3>. QED BY <1>1, <2>1, <2>2, EntryFacts, TotalChange
  <2>. QED BY <2>3, <2>4 DEF OfUser
<1>4. ASSUME NEW u \in User \ {e[2]} PROVE OfUser(s, n, u) = OfUser(t, n, u)
  <2>1. \A c \in PerUser(n) : s[n][<<c, u>>] = t[n][<<c, u>>]
    <3>1. TAKE c \in PerUser(n)
    <3>2. <<c, u>> \in Entries(n) \ {e}
      BY <1>1, EntryFacts
    <3>. QED BY <3>2
  <2>. QED BY <2>1 DEF OfUser
<1>5. \A u \in User \ {e[2]} : Worth(s, u) = Worth(t, u)
  <2>1. TAKE u \in User \ {e[2]}
  <2>2. \A m \in Node : OfUser(s, m, u) = OfUser(t, m, u)
    BY <1>2, <1>4
  <2>. QED BY <2>2 DEF Worth
<1>6. Worth(s, e[2]) + Multiplier[n] * t[n][e] = Worth(t, e[2]) + Multiplier[n] * s[n][e]
  <2> DEFINE f == [m \in Node |-> Multiplier[m] * OfUser(s, m, e[2])]
             g == [m \in Node |-> Multiplier[m] * OfUser(t, m, e[2])]
             a == OfUser(s, n, e[2])
             b == OfUser(t, n, e[2])
  <2>1. f \in [Node -> Nat] /\ g \in [Node -> Nat] /\ a \in Nat /\ b \in Nat
    BY WorthNat, OfUserNat, <1>1
  <2>2. \A m \in Node \ {n} : f[m] = g[m]
    BY <1>2, <1>1
  <2>3. f[n] = Multiplier[n] * a /\ g[n] = Multiplier[n] * b
    OBVIOUS
  <2>4. Total(f) + g[n] = Total(g) + f[n]
    <3>. HIDE DEF f, g
    <3>. QED BY <2>1, <2>2, TotalChange, TrafficAssumption
  <2>5. Multiplier[n] * a + Multiplier[n] * t[n][e] = Multiplier[n] * b + Multiplier[n] * s[n][e]
    <3>1. a + t[n][e] = b + s[n][e]
      BY <1>3
    <3>2. \A k, x, y \in Nat : k * x + k * y = k * (x + y)
      OBVIOUS
    <3>. HIDE DEF a, b
    <3>. QED BY <3>1, <3>2, <2>1, <1>1
  <2>6. /\ Total(f) \in Nat /\ Total(g) \in Nat /\ f[n] \in Nat /\ g[n] \in Nat
        /\ Multiplier[n] * t[n][e] \in Nat /\ Multiplier[n] * s[n][e] \in Nat
    <3>. HIDE DEF f, g
    <3>. QED BY <2>1, <1>1, TotalNat, TrafficAssumption
  <2>7. Total(f) + Multiplier[n] * t[n][e] = Total(g) + Multiplier[n] * s[n][e]
    <3>. HIDE DEF f, g, a, b
    <3>. QED BY <2>3, <2>4, <2>5, <2>6
  <2>. QED BY <2>7 DEF Worth
<1>. QED
  BY <1>5, <1>6

-----------------------------------------------------------------------------
(* What a user's bill is still to hear of: what the cores have counted and *)
(* what the poll has read.                                                 *)
Held == [n \in Node |-> [e \in Entries(n) |-> counter[n][e] + poll[n].left[e]]]

PollOK(n, p) ==
    /\ p \in [at : {"idle", "ask", "bill"}, left : [Entries(n) -> Nat], sum : Nat, total : Nat]
    /\ p.at # "bill" => p.left = NoBytes(n) /\ p.sum = 0 /\ p.total = 0

RowType == [status : {"active", "limited", "disabled"}, limited : BOOLEAN,
            used : Nat, lifetime : Nat]

(* The types, with naturals in place of the bounds. *)
Shape ==
    /\ counter = [n \in Node |-> counter[n]] /\ Table(counter)
    /\ sent = [n \in Node |-> sent[n]] /\ Table(sent)
    /\ poll = [n \in Node |-> poll[n]]
    /\ \A n \in Node : PollOK(n, poll[n])
    /\ wide \in [Node -> Nat] /\ wideSent \in [Node -> Nat] /\ retold \in [Node -> Nat]
    /\ tracked \in [Node -> SUBSET User]
    /\ job \in {"none", "stats", "review"}
    /\ snapshot \in [Node -> Nat]
    /\ row \in [User -> RowType]
    /\ hours \in [Node -> Nat]
    /\ found \in SUBSET User /\ forgiven \in SUBSET User
    /\ changes \in 0..MaxChanges /\ mishaps \subseteq Faults \cup {"undrained"}
    /\ job # "stats" => poll = NoPoll
    /\ found # {} <=> job = "review"

\* A node that is not polled, and one that is asked, hold nothing.
LEMMA QuietIs ==
  ASSUME NEW n \in Node
  PROVE  /\ Quiet(n).at = "idle" /\ Asking(n).at = "ask"
         /\ Quiet(n).left = NoBytes(n) /\ Asking(n).left = NoBytes(n)
         /\ Quiet(n).sum = 0 /\ Asking(n).sum = 0
         /\ Quiet(n).total = 0 /\ Asking(n).total = 0
         /\ NoBytes(n) \in [Entries(n) -> Nat] /\ NoBytes(n) \in [Entries(n) -> {0}]
         /\ PollOK(n, Quiet(n)) /\ PollOK(n, Asking(n))
<1>1. NoBytes(n) \in [Entries(n) -> Nat] /\ NoBytes(n) \in [Entries(n) -> {0}]
  BY DEF NoBytes
<1>2. Quiet(n) = [at |-> "idle", left |-> NoBytes(n), sum |-> 0, total |-> 0]
  BY DEF Quiet
<1>3. Asking(n) = [at |-> "ask", left |-> NoBytes(n), sum |-> 0, total |-> 0]
  BY <1>2 DEF Asking
<1>. QED
  BY <1>1, <1>2, <1>3 DEF PollOK

\* The initial state has the types.
LEMMA ShapeInit == Init => Shape
<1>. SUFFICES ASSUME Init PROVE Shape
  OBVIOUS
<1>1. \A n \in Node : counter[n] = NoBytes(n) /\ sent[n] = NoBytes(n) /\ poll[n] = Quiet(n)
  BY DEF Init, NoPoll
<1>2. /\ counter = [n \in Node |-> counter[n]] /\ Table(counter)
      /\ sent = [n \in Node |-> sent[n]] /\ Table(sent)
  BY <1>1, QuietIs DEF Init, Table
<1>3. poll = [n \in Node |-> poll[n]]
  BY DEF Init, NoPoll
<1>4. \A n \in Node : PollOK(n, poll[n])
  BY <1>1, QuietIs
<1>5. /\ wide \in [Node -> Nat] /\ wideSent \in [Node -> Nat] /\ retold \in [Node -> Nat]
      /\ tracked \in [Node -> SUBSET User]
      /\ snapshot \in [Node -> Nat] /\ hours \in [Node -> Nat]
  BY DEF Init
<1>6. row \in [User -> RowType]
  BY DEF Init, RowType
<1>7. /\ job \in {"none", "stats", "review"}
      /\ found \in SUBSET User /\ forgiven \in SUBSET User
      /\ changes \in 0..MaxChanges /\ mishaps \subseteq Faults \cup {"undrained"}
      /\ job # "stats" => poll = NoPoll
      /\ (found # {} <=> job = "review")
  BY TrafficAssumption DEF Init
<1>. QED
  BY <1>2, <1>3, <1>4, <1>5, <1>6, <1>7 DEF Shape

(* One node's poll moves on: the job is the one that polls. *)
LEMMA OnePoll ==
  ASSUME Shape, NEW n \in Node, NEW p, PollOK(n, p), poll[n].at # "idle",
         poll' = [poll EXCEPT ![n] = p], job' = job
  PROVE  /\ poll' = [m \in Node |-> poll'[m]]
         /\ \A m \in Node : PollOK(m, poll'[m])
         /\ poll'[n] = p /\ \A m \in Node \ {n} : poll'[m] = poll[m]
         /\ job' # "stats" => poll' = NoPoll
<1>1. DOMAIN poll = Node
  BY DEF Shape
<1>2. poll'[n] = p /\ \A m \in Node \ {n} : poll'[m] = poll[m]
  BY <1>1
<1>3. poll' = [m \in Node |-> poll'[m]]
  BY <1>1
<1>4. job = "stats"
  <2>1. ASSUME poll = NoPoll PROVE FALSE
    BY <2>1, QuietIs DEF NoPoll
  <2>. QED BY <2>1 DEF Shape
<1>. QED
  BY <1>2, <1>3, <1>4 DEF Shape

\* When no node is polled, all polls have their type.
LEMMA QuietPoll ==
  ASSUME poll' = NoPoll
  PROVE  poll' = [m \in Node |-> poll'[m]] /\ \A m \in Node : PollOK(m, poll'[m])
BY QuietIs DEF NoPoll

(* A table is changed for one node. *)
LEMMA OneTable ==
  ASSUME NEW t, Table(t), t = [m \in Node |-> t[m]], NEW n \in Node,
         NEW f \in [Entries(n) -> Nat], NEW s, s = [t EXCEPT ![n] = f]
  PROVE  /\ Table(s) /\ s = [m \in Node |-> s[m]]
         /\ s[n] = f /\ \A m \in Node \ {n} : s[m] = t[m]
BY DEF Table

\* Zeroing counters only lowers them.
LEMMA ZeroedIs ==
  ASSUME NEW n \in Node, NEW f \in [Entries(n) -> Nat], NEW c, NEW U
  PROVE  /\ Zeroed(f, c, U) \in [Entries(n) -> Nat]
         /\ \A e \in Entries(n) : Zeroed(f, c, U)[e] <= f[e]
BY DEF Zeroed

\* A unit of traffic keeps the types.
LEMMA ShapeCarry ==
  ASSUME Shape, NEW n \in Node, NEW u \in User, Carry(n, u)
  PROVE  Shape'
<1>. USE DEF Shape
<1>1. CASE wide' = [wide EXCEPT ![n] = @ + 1] /\ wideSent' = [wideSent EXCEPT ![n] = @ + 1]
            /\ UNCHANGED <<counter, sent>>
  BY <1>1 DEF Carry, dbVars, Table
<1>2. ASSUME NEW c \in PerUser(n),
             counter' = [counter EXCEPT ![n] = Plus(@, <<c, u>>, 1)],
             sent' = [sent EXCEPT ![n] = Plus(@, <<c, u>>, 1)],
             UNCHANGED <<wide, wideSent>>
      PROVE  Shape'
  <2>1. /\ Plus(counter[n], <<c, u>>, 1) \in [Entries(n) -> Nat]
        /\ Plus(sent[n], <<c, u>>, 1) \in [Entries(n) -> Nat]
    BY EntryFacts DEF Plus, Table
  <2>2. Table(counter') /\ counter' = [m \in Node |-> counter'[m]]
    BY <1>2, <2>1, OneTable
  <2>3. Table(sent') /\ sent' = [m \in Node |-> sent'[m]]
    BY <1>2, <2>1, OneTable
  <2>. QED BY <1>2, <2>2, <2>3 DEF Carry, dbVars
<1>. QED
  BY <1>1, <1>2 DEF Carry

\* A restart of a core only lowers counters.
LEMMA CoreRestartsIs ==
  ASSUME Shape, NEW n \in Node, NEW c \in Kinds, CoreRestarts(n, c)
  PROVE  /\ wide' \in [Node -> Nat]
         /\ Table(counter') /\ counter' = [m \in Node |-> counter'[m]]
         /\ \A m \in Node : /\ wide'[m] <= wide[m] /\ wide'[m] \in Nat
                            /\ \A e \in Entries(m) : counter'[m][e] <= counter[m][e]
                                                     /\ counter'[m][e] \in Nat
<1>1. Table(counter) /\ wide \in [Node -> Nat] /\ counter = [m \in Node |-> counter[m]]
  BY DEF Shape
<1>2. CASE c = "mtproto"
  <2>1. wide' = [wide EXCEPT ![n] = 0] /\ counter' = counter
    BY <1>2 DEF CoreRestarts
  <2>2. \A m \in Node : wide'[m] <= wide[m] /\ wide'[m] \in Nat
    BY <1>1, <2>1
  <2>. QED BY <1>1, <2>1, <2>2 DEF Table
<1>3. CASE c # "mtproto"
  <2>1. counter' = [counter EXCEPT ![n] = Zeroed(counter[n], c, User)] /\ wide' = wide
    BY <1>3 DEF CoreRestarts
  <2>2. /\ Zeroed(counter[n], c, User) \in [Entries(n) -> Nat]
        /\ \A e \in Entries(n) : Zeroed(counter[n], c, User)[e] <= counter[n][e]
    BY <1>1, ZeroedIs DEF Table
  <2>3. /\ Table(counter') /\ counter' = [m \in Node |-> counter'[m]]
        /\ counter'[n] = Zeroed(counter[n], c, User)
        /\ \A m \in Node \ {n} : counter'[m] = counter[m]
    BY <1>1, <2>1, <2>2, OneTable
  <2>4. \A m \in Node : \A e \in Entries(m) : counter'[m][e] <= counter[m][e]
                                             /\ counter'[m][e] \in Nat
    <3>1. TAKE m \in Node
    <3>2. counter[m] \in [Entries(m) -> Nat] /\ counter'[m] \in [Entries(m) -> Nat]
      BY <1>1, <2>3 DEF Table
    <3>3. \A e \in Entries(m) : counter'[m][e] <= counter[m][e]
      BY <2>2, <2>3, <3>2
    <3>. QED BY <3>2, <3>3
  <2>. QED BY <1>1, <2>1, <2>3, <2>4
<1>. QED
  BY <1>2, <1>3

\* A restart of a core keeps the types.
LEMMA ShapeCoreRestarts ==
  ASSUME Shape, NEW n \in Node, NEW c \in Kinds, CoreRestarts(n, c)
  PROVE  Shape'
<1>1. mishaps' \subseteq Faults \cup {"undrained"}
  BY DEF CoreRestarts, Mishap, CanFail, Shape
<1>2. /\ wide' \in [Node -> Nat]
      /\ Table(counter') /\ counter' = [m \in Node |-> counter'[m]]
  BY CoreRestartsIs
<1>. QED
  BY <1>1, <1>2 DEF Shape, CoreRestarts, dbVars, realVars

(* The counters that are left when the users of a core change. *)
Restarted(n) == Zeroed(Zeroed(counter[n], "xray", User), "shadowsocks", User)
AfterChange(n, u) ==
  IF u \in tracked[n] THEN Zeroed(Restarted(n), "amneziawg", {u}) ELSE Restarted(n)

\* A change of a node's users only lowers counters.
LEMMA ChangeUserIs ==
  ASSUME Shape, NEW n \in Node, NEW u \in User, ChangeUser(n, u)
  PROVE  /\ counter' = [counter EXCEPT ![n] = AfterChange(n, u)]
         /\ AfterChange(n, u) \in [Entries(n) -> Nat]
         /\ \A e \in Entries(n) : AfterChange(n, u)[e] <= counter[n][e]
<1>1. counter[n] \in [Entries(n) -> Nat]
  BY DEF Shape, Table
<1>2. /\ Zeroed(counter[n], "xray", User) \in [Entries(n) -> Nat]
      /\ \A e \in Entries(n) : Zeroed(counter[n], "xray", User)[e] <= counter[n][e]
  BY <1>1, ZeroedIs
<1>3. /\ Restarted(n) \in [Entries(n) -> Nat]
      /\ \A e \in Entries(n) : Restarted(n)[e] <= Zeroed(counter[n], "xray", User)[e]
  BY <1>2, ZeroedIs DEF Restarted
<1>4. /\ Zeroed(Restarted(n), "amneziawg", {u}) \in [Entries(n) -> Nat]
      /\ \A e \in Entries(n) : Zeroed(Restarted(n), "amneziawg", {u})[e] <= Restarted(n)[e]
  BY <1>3, ZeroedIs
<1>5. \A e \in Entries(n) : Restarted(n)[e] <= counter[n][e]
  BY <1>1, <1>2, <1>3
<1>6. \A e \in Entries(n) : Zeroed(Restarted(n), "amneziawg", {u})[e] <= counter[n][e]
  BY <1>1, <1>3, <1>4, <1>5
<1>7. counter' = [counter EXCEPT ![n] = AfterChange(n, u)]
  BY DEF ChangeUser, AfterChange, Restarted
<1>. QED
  BY <1>3, <1>4, <1>5, <1>6, <1>7 DEF AfterChange

\* A change of a node's users keeps the types.
LEMMA ShapeChangeUser ==
  ASSUME Shape, NEW n \in Node, NEW u \in User, ChangeUser(n, u)
  PROVE  Shape'
<1>1. Table(counter') /\ counter' = [m \in Node |-> counter'[m]]
  BY ChangeUserIs, OneTable DEF Shape
<1>2. /\ changes' \in 0..MaxChanges /\ mishaps' \subseteq Faults \cup {"undrained"}
      /\ tracked' \in [Node -> SUBSET User]
  <2>1. changes < MaxChanges /\ changes' = changes + 1
    BY DEF ChangeUser, Change
  <2>2. mishaps' = mishaps \/ mishaps' = mishaps \cup {"undrained"}
    BY DEF ChangeUser
  <2>3. tracked' = [tracked EXCEPT ![n] = IF u \in @ THEN @ \ {u} ELSE @ \cup {u}]
    BY DEF ChangeUser
  <2>. QED BY <2>1, <2>2, <2>3, TrafficAssumption DEF Shape
<1>. QED
  BY <1>1, <1>2 DEF Shape, ChangeUser, dbVars, realVars

\* The start of a poll keeps the types.
LEMMA ShapeStartPoll == ASSUME Shape, StartPoll PROVE Shape'
<1>1. PICK online \in SUBSET Node \ {{}} :
        poll' = [n \in Node |-> IF n \in online THEN Asking(n) ELSE Quiet(n)]
  BY DEF StartPoll
<1>2. poll' = [n \in Node |-> poll'[n]]
  BY <1>1
<1>3. \A n \in Node : PollOK(n, poll'[n])
  BY <1>1, QuietIs
<1>. QED
  BY <1>2, <1>3 DEF Shape, StartPoll, agentVars, dbVars, realVars, Table

(* The answer of an agent. *)
AnswerOf(n, failed) == [e \in Entries(n) |-> IF Answers(n, failed, e) THEN counter[n][e] ELSE 0]
TotalsOf(n, failed) ==
  Total(Restrict(AnswerOf(n, failed), {e \in Entries(n) : GetStats[e[1]].totals}))
    + IF "mtproto" \in failed THEN 0 ELSE wide[n]
Answer(n, failed) == [at |-> "bill", left |-> AnswerOf(n, failed),
                      sum |-> Total(AnswerOf(n, failed)), total |-> TotalsOf(n, failed)]
AfterRead(n, failed) == [e \in Entries(n) |->
           IF e[1] \notin failed /\ GetStats[e[1]].drains THEN 0 ELSE counter[n][e]]

\* What GET /stats does to the poll and the counters.
LEMMA ReadCountersIs ==
  ASSUME Shape, NEW n \in Node, NEW failed \in SUBSET Cores[n], ReadCounters(n, failed)
  PROVE  /\ poll[n].at = "ask"
         /\ poll' = [poll EXCEPT ![n] = Answer(n, failed)]
         /\ counter' = [counter EXCEPT ![n] = AfterRead(n, failed)]
         /\ mishaps' = mishaps \/ mishaps' = mishaps \cup {"soft"}
         /\ mishaps' \subseteq Faults \cup {"undrained"}
         /\ UNCHANGED <<wide, tracked, job, snapshot, row, hours, found, sent, wideSent,
                        retold, forgiven, changes>>
<1>1. poll' = [poll EXCEPT ![n] = Answer(n, failed)]
  BY DEF ReadCounters, Answer, AnswerOf, TotalsOf
<1>2. counter' = [counter EXCEPT ![n] = AfterRead(n, failed)]
  BY DEF ReadCounters, AfterRead
<1>3. /\ mishaps' = mishaps \/ mishaps' = mishaps \cup {"soft"}
      /\ mishaps' # mishaps => "soft" \in Faults
  BY DEF ReadCounters, CanFail
<1>4. mishaps' \subseteq Faults \cup {"undrained"}
  BY <1>3 DEF Shape
<1>. QED
  BY <1>1, <1>2, <1>3, <1>4 DEF ReadCounters, dbVars, realVars

\* The answer and what it leaves in the counters, against the counters before.
LEMMA AnswerIs ==
  ASSUME Shape, NEW n \in Node, NEW failed \in SUBSET Cores[n]
  PROVE  /\ AnswerOf(n, failed) \in [Entries(n) -> Nat]
         /\ AfterRead(n, failed) \in [Entries(n) -> Nat]
         /\ \A e \in Entries(n) : AnswerOf(n, failed)[e] <= counter[n][e]
         /\ \A e \in Entries(n) : AfterRead(n, failed)[e] <= counter[n][e]
         /\ Total(AnswerOf(n, failed)) \in Nat /\ TotalsOf(n, failed) \in Nat
         /\ TotalsOf(n, failed) <= Total(AnswerOf(n, failed)) + wide[n]
         /\ PollOK(n, Answer(n, failed))
<1> DEFINE f == AnswerOf(n, failed)
           T == {e \in Entries(n) : GetStats[e[1]].totals}
           r == Restrict(f, T)
<1>1. counter[n] \in [Entries(n) -> Nat] /\ wide[n] \in Nat
  BY DEF Shape, Table
<1>2. f \in [Entries(n) -> Nat] /\ AfterRead(n, failed) \in [Entries(n) -> Nat]
  BY <1>1 DEF AnswerOf, AfterRead
<1>3. /\ \A e \in Entries(n) : f[e] <= counter[n][e]
      /\ \A e \in Entries(n) : AfterRead(n, failed)[e] <= counter[n][e]
  BY <1>1 DEF AnswerOf, AfterRead
<1>4. Total(f) \in Nat
  <2>. HIDE DEF f
  <2>. QED BY <1>2, EntryFacts, TotalNat
<1>5. Total(r) \in Nat /\ Total(r) <= Total(f)
  <2>1. T \subseteq Entries(n) /\ r = [e \in T |-> f[e]]
    BY DEF Restrict
  <2>. HIDE DEF f, T, r
  <2>. QED BY <1>2, <2>1, EntryFacts, TotalPart
<1>6. TotalsOf(n, failed) = Total(r) + IF "mtproto" \in failed THEN 0 ELSE wide[n]
  BY DEF TotalsOf
<1>7. TotalsOf(n, failed) \in Nat /\ TotalsOf(n, failed) <= Total(f) + wide[n]
  <2>. HIDE DEF f, r
  <2>. QED BY <1>1, <1>4, <1>5, <1>6
<1>8. PollOK(n, Answer(n, failed))
  <2>. HIDE DEF f, T, r
  <2>. QED BY <1>2, <1>4, <1>7 DEF PollOK, Answer, f
<1>. QED
  <2>. HIDE DEF T, r
  <2>. QED BY <1>2, <1>3, <1>4, <1>7, <1>8

\* GET /stats keeps the types.
LEMMA ShapeReadCounters ==
  ASSUME Shape, NEW n \in Node, NEW failed \in SUBSET Cores[n], ReadCounters(n, failed)
  PROVE  Shape'
<1>1. /\ poll' = [m \in Node |-> poll'[m]]
      /\ \A m \in Node : PollOK(m, poll'[m])
      /\ job' # "stats" => poll' = NoPoll
  <2>1. poll[n].at # "idle" /\ job' = job
    BY ReadCountersIs
  <2>. QED BY <2>1, ReadCountersIs, AnswerIs, OnePoll
<1>2. Table(counter') /\ counter' = [m \in Node |-> counter'[m]]
  <2>1. counter' = [counter EXCEPT ![n] = AfterRead(n, failed)]
    BY ReadCountersIs
  <2>2. AfterRead(n, failed) \in [Entries(n) -> Nat]
    BY AnswerIs
  <2>. QED BY <2>1, <2>2, OneTable DEF Shape
<1>3. /\ UNCHANGED <<wide, tracked, job, snapshot, row, hours, found, sent, wideSent,
                     retold, forgiven, changes>>
      /\ mishaps' \subseteq Faults \cup {"undrained"}
  BY ReadCountersIs
<1>. QED
  BY <1>1, <1>2, <1>3 DEF Shape, Table

\* A lost call keeps the types.
LEMMA ShapePollFails ==
  ASSUME Shape, NEW n \in Node, PollFails(n)
  PROVE  Shape'
<1>1. poll[n].at # "idle" /\ job' = job /\ poll' = [poll EXCEPT ![n] = Quiet(n)]
  BY DEF PollFails
<1>2. /\ poll' = [m \in Node |-> poll'[m]]
      /\ \A m \in Node : PollOK(m, poll'[m])
      /\ job' # "stats" => poll' = NoPoll
  BY <1>1, QuietIs, OnePoll
<1>3. mishaps' \subseteq Faults \cup {"undrained"}
  BY DEF PollFails, Mishap, CanFail, Shape
<1>. QED
  BY <1>2, <1>3 DEF Shape, PollFails, agentVars, dbVars, realVars, Table

\* Billing adds to both counters of the row and leaves the rest.
LEMMA BilledIs ==
  ASSUME NEW q \in RowType, NEW b \in Nat
  PROVE  /\ Billed(q, b) \in RowType
         /\ Billed(q, b).status = q.status /\ Billed(q, b).limited = q.limited
         /\ Billed(q, b).used = q.used + b /\ Billed(q, b).lifetime = q.lifetime + b
<1> DEFINE s == [q EXCEPT !.used = @ + b]
<1>1. s \in RowType
  BY DEF RowType
<1>2. Billed(q, b) = [s EXCEPT !.lifetime = @ + b]
  BY DEF Billed
<1>3. Billed(q, b) \in RowType
  <2>. HIDE DEF s
  <2>. QED BY <1>1, <1>2 DEF RowType
<1>4. /\ Billed(q, b).status = q.status /\ Billed(q, b).limited = q.limited
      /\ Billed(q, b).used = q.used + b /\ Billed(q, b).lifetime = q.lifetime + b
  BY DEF Billed, RowType
<1>. QED
  BY <1>3, <1>4

\* Settling an entry empties it and leaves the rest of the answer.
LEMMA SettledIs ==
  ASSUME NEW n \in Node, NEW q, PollOK(n, q), q.at = "bill", NEW e \in Entries(n)
  PROVE  /\ PollOK(n, Settled(q, e)) /\ Settled(q, e).at = "bill"
         /\ Settled(q, e).sum = q.sum /\ Settled(q, e).total = q.total
         /\ Settled(q, e).left[e] = 0
         /\ \A d \in Entries(n) \ {e} : Settled(q, e).left[d] = q.left[d]
<1> DEFINE l == [q.left EXCEPT ![e] = 0]
<1>1. l \in [Entries(n) -> Nat] /\ l[e] = 0 /\ \A d \in Entries(n) \ {e} : l[d] = q.left[d]
  BY DEF PollOK
<1>2. Settled(q, e) = [q EXCEPT !.left = l]
  BY DEF Settled
<1>. QED
  <2>. HIDE DEF l
  <2>. QED BY <1>1, <1>2 DEF PollOK

(* What BillUser leaves of the poll and makes of the row. *)
LEMMA BillUserIs ==
  ASSUME Shape, NEW n \in Node, NEW e \in Entries(n), BillUser(n, e)
  PROVE  /\ poll[n].at = "bill" /\ PollOK(n, poll[n])
         /\ poll[n].left[e] \in Nat /\ poll[n].left[e] > 0
         /\ Multiplier[n] * poll[n].left[e] \in Nat
         /\ poll' = [poll EXCEPT ![n] = Settled(poll[n], e)]
         /\ PollOK(n, Settled(poll[n], e))
         /\ e[2] \in User /\ row[e[2]] \in RowType
         /\ row' = [row EXCEPT ![e[2]] = Billed(row[e[2]], Multiplier[n] * poll[n].left[e])]
         /\ Billed(row[e[2]], Multiplier[n] * poll[n].left[e]) \in RowType
<1>1. PollOK(n, poll[n]) /\ poll[n].at = "bill" /\ poll[n].left[e] > 0
  BY DEF Shape, BillUser
<1>2. poll[n].left[e] \in Nat
  BY <1>1 DEF PollOK
<1>3. e[2] \in User /\ row[e[2]] \in RowType /\ Multiplier[n] * poll[n].left[e] \in Nat
  BY <1>2, EntryFacts, TrafficAssumption DEF Shape
<1>4. poll' = [poll EXCEPT ![n] = Settled(poll[n], e)]
  BY DEF BillUser
<1>5. row' = [row EXCEPT ![e[2]] = Billed(row[e[2]], Multiplier[n] * poll[n].left[e])]
  BY DEF BillUser, Scaled
<1>. QED
  BY <1>1, <1>2, <1>3, <1>4, <1>5, SettledIs, BilledIs

\* A user's upsert keeps the types.
LEMMA ShapeBillUser ==
  ASSUME Shape, NEW n \in Node, NEW e \in Entries(n), BillUser(n, e)
  PROVE  Shape'
<1>1. job' = job
  BY DEF BillUser
<1>2. /\ poll' = [m \in Node |-> poll'[m]]
      /\ \A m \in Node : PollOK(m, poll'[m])
      /\ job' # "stats" => poll' = NoPoll
  <2>1. poll[n].at # "idle"
    BY BillUserIs
  <2>. QED BY <1>1, <2>1, BillUserIs, OnePoll
<1>3. row' \in [User -> RowType]
  BY BillUserIs DEF Shape
<1>. QED
  BY <1>2, <1>3 DEF Shape, BillUser, agentVars, realVars, Table

\* What a poll adds to the history of its node is a natural.
LEMMA CountedNat ==
  ASSUME Shape, NEW n \in Node
  PROVE  /\ Growth(n) \in Nat /\ Counted(n) \in Nat
         /\ poll[n].sum \in Nat /\ poll[n].total \in Nat /\ snapshot[n] \in Nat
         /\ hours[n] \in Nat
<1>1. /\ poll[n].sum \in Nat /\ poll[n].total \in Nat /\ snapshot[n] \in Nat
      /\ hours[n] \in Nat
  BY DEF Shape, PollOK
<1>2. Growth(n) \in Nat
  BY <1>1 DEF Growth
<1>. QED
  BY <1>1, <1>2 DEF Counted

\* The snapshot moves for one node only, to its totals or not at all.
LEMMA TakeSnapshotIs ==
  ASSUME Shape, NEW n \in Node, TakeSnapshot(n)
  PROVE  /\ snapshot' \in [Node -> Nat]
         /\ \A m \in Node \ {n} : snapshot'[m] = snapshot[m]
         /\ snapshot'[n] = IF poll[n].sum = 0 /\ poll[n].total > 0
                           THEN poll[n].total ELSE snapshot[n]
BY CountedNat DEF TakeSnapshot, Shape

\* The upsert of the hour keeps the types.
LEMMA ShapeBillNode ==
  ASSUME Shape, NEW n \in Node, BillNode(n)
  PROVE  Shape'
<1>1. /\ poll[n].at # "idle" /\ job' = job /\ poll' = [poll EXCEPT ![n] = Quiet(n)]
      /\ TakeSnapshot(n) /\ hours' = [hours EXCEPT ![n] = @ + Counted(n)]
  BY DEF BillNode
<1>2. /\ poll' = [m \in Node |-> poll'[m]]
      /\ \A m \in Node : PollOK(m, poll'[m])
      /\ job' # "stats" => poll' = NoPoll
  BY <1>1, QuietIs, OnePoll
<1>3. hours' \in [Node -> Nat]
  <2>1. hours[n] + Counted(n) \in Nat
    BY CountedNat
  <2>. QED BY <1>1, <2>1 DEF Shape
<1>4. snapshot' \in [Node -> Nat]
  BY <1>1, TakeSnapshotIs
<1>. QED
  BY <1>2, <1>3, <1>4 DEF Shape, BillNode, agentVars, realVars, Table

\* A failed upsert keeps the types.
LEMMA ShapeBillFails ==
  ASSUME Shape, NEW n \in Node, BillFails(n)
  PROVE  Shape'
<1>1. /\ poll[n].at # "idle" /\ job' = job /\ poll' = [poll EXCEPT ![n] = Quiet(n)]
      /\ TakeSnapshot(n) \/ snapshot' = snapshot
  BY DEF BillFails
<1>2. /\ poll' = [m \in Node |-> poll'[m]]
      /\ \A m \in Node : PollOK(m, poll'[m])
      /\ job' # "stats" => poll' = NoPoll
  BY <1>1, QuietIs, OnePoll
<1>3. snapshot' \in [Node -> Nat]
  BY <1>1, TakeSnapshotIs DEF Shape
<1>4. mishaps' \subseteq Faults \cup {"undrained"}
  BY DEF BillFails, Mishap, CanFail, Shape
<1>. QED
  BY <1>2, <1>3, <1>4 DEF Shape, BillFails, agentVars, dbVars, realVars, Table

(* The steps that touch neither the counters nor the books: only statuses, *)
(* limits, the used counters and who is found.                             *)
Apart ==
  /\ UNCHANGED <<counter, wide, poll, snapshot, hours, sent, wideSent, retold, mishaps>>
  /\ \A u \in User : row'[u].lifetime = row[u].lifetime

\* A poll ends when every node is idle: nothing of the books moves.
LEMMA PollEndsIs ==
  ASSUME Shape, PollEnds
  PROVE  Shape' /\ Apart /\ UNCHANGED <<row, found, forgiven>>
<1>1. \A n \in Node : poll[n] = Quiet(n)
  <2>1. TAKE n \in Node
  <2>2. PollOK(n, poll[n]) /\ poll[n].at = "idle"
    BY DEF Shape, PollEnds
  <2>. QED BY <2>2 DEF PollOK, Quiet
<1>2. poll = NoPoll
  BY <1>1 DEF Shape, NoPoll
<1>3. found = {}
  BY DEF Shape, PollEnds
<1>. QED
  BY <1>2, <1>3 DEF Shape, Apart, PollEnds, agentVars, dbVars, realVars, Table

\* Finding the users over their limit moves nothing of the books.
LEMMA FindExceededIs ==
  ASSUME Shape, FindExceeded
  PROVE  Shape' /\ Apart /\ UNCHANGED row
<1>1. /\ found' \in SUBSET User /\ forgiven' \in SUBSET User
      /\ job' \in {"none", "stats", "review"} /\ (found' # {} <=> job' = "review")
      /\ poll = NoPoll
  BY DEF Shape, FindExceeded
<1>. QED
  BY <1>1 DEF Shape, Apart, FindExceeded, agentVars, dbVars, realVars, Table

\* Marking users changes the status of those found, and only that.
LEMMA MarkLimitedIs ==
  ASSUME Shape, MarkLimited
  PROVE  /\ Shape' /\ Apart /\ found' = {}
         /\ \A u \in User : /\ row'[u].limited = row[u].limited /\ row'[u].used = row[u].used
                            /\ row'[u].status = IF u \in found THEN "limited" ELSE row[u].status
<1>1. row' = [u \in User |-> IF u \in found THEN [row[u] EXCEPT !.status = "limited"] ELSE row[u]]
  BY DEF MarkLimited
<1>2. \A u \in User : row[u] \in RowType
  BY DEF Shape
<1>3. \A u \in User :
        /\ row'[u] \in RowType /\ row'[u].lifetime = row[u].lifetime
        /\ row'[u].limited = row[u].limited /\ row'[u].used = row[u].used
        /\ row'[u].status = IF u \in found THEN "limited" ELSE row[u].status
  BY <1>1, <1>2 DEF RowType
<1>4. row' \in [User -> RowType] /\ poll = NoPoll
  BY <1>1, <1>3 DEF Shape, MarkLimited
<1>. QED
  BY <1>3, <1>4 DEF Shape, Apart, MarkLimited, agentVars, realVars, Table

\* A reset forgives whom it resets.
LEMMA ResetTrafficIs ==
  ASSUME Shape, ResetTraffic
  PROVE  /\ Shape' /\ Apart /\ found' = {}
         /\ \A u \in User : /\ row'[u].limited = row[u].limited /\ row'[u].status = row[u].status
                            /\ u \notin forgiven' => u \notin forgiven /\ row'[u] = row[u]
<1>1. PICK some \in SUBSET User \ {{}} :
        /\ row' = [u \in User |-> IF u \in some THEN [row[u] EXCEPT !.used = 0] ELSE row[u]]
        /\ forgiven' = forgiven \cup some
  BY DEF ResetTraffic
<1>2. \A u \in User : row[u] \in RowType
  BY DEF Shape
<1>3. \A u \in User :
        /\ row'[u] \in RowType /\ row'[u].lifetime = row[u].lifetime
        /\ row'[u].limited = row[u].limited /\ row'[u].status = row[u].status
        /\ u \notin some => row'[u] = row[u]
  BY <1>1, <1>2 DEF RowType
<1>4. row' \in [User -> RowType] /\ forgiven' \in SUBSET User
  BY <1>1, <1>3 DEF Shape
<1>5. changes' \in 0..MaxChanges
  BY TrafficAssumption DEF Shape, ResetTraffic, Change
<1>6. found = {} /\ poll = NoPoll
  BY DEF Shape, ResetTraffic
<1>. QED
  BY <1>1, <1>3, <1>4, <1>5, <1>6 DEF Shape, Apart, ResetTraffic, agentVars, realVars, Table

\* An update limits nobody, and forgives whose limit it moves.
LEMMA UpdateUserIs ==
  ASSUME Shape, NEW u \in User, UpdateUser(u)
  PROVE  /\ Shape' /\ Apart /\ UNCHANGED <<job, found>>
         /\ forgiven \subseteq forgiven'
         /\ \A v \in User :
              /\ row'[v].used = row[v].used
              /\ v \notin forgiven' => row'[v].limited = row[v].limited
              /\ row'[v].status = "limited" => row[v].status = "limited"
<1>1. PICK r :
        /\ row' = [row EXCEPT ![u] = r] /\ r \in RowType
        /\ r.used = row[u].used /\ r.lifetime = row[u].lifetime
        /\ \/ r.limited = row[u].limited /\ r.status # "limited" /\ forgiven' = forgiven
           \/ r.status = row[u].status /\ forgiven' = forgiven \cup {u}
  <2>1. row[u] \in RowType
    BY DEF Shape
  <2>2. CASE (\E s \in {"active", "disabled"} \ {row[u].status} :
               row' = [row EXCEPT ![u] = [@ EXCEPT !.status = s]]) /\ forgiven' = forgiven
    <3>1. PICK s \in {"active", "disabled"} :
            row' = [row EXCEPT ![u] = [row[u] EXCEPT !.status = s]]
      BY <2>2
    <3> DEFINE r == [row[u] EXCEPT !.status = s]
    <3>2. /\ r \in RowType /\ r.used = row[u].used /\ r.lifetime = row[u].lifetime
          /\ r.limited = row[u].limited /\ r.status # "limited"
      BY <2>1 DEF RowType
    <3>3. row' = [row EXCEPT ![u] = r]
      BY <3>1
    <3>. HIDE DEF r
    <3>. QED BY <2>2, <3>2, <3>3
  <2>3. CASE row' = [row EXCEPT ![u] = Toggled(@)]
               /\ forgiven' = forgiven \cup {u}
    <3> DEFINE r == Toggled(row[u])
    <3>1. r \in RowType
      <4> DEFINE b == ~ row[u].limited
      <4>1. b \in BOOLEAN /\ r = [row[u] EXCEPT !.limited = b]
        BY DEF Toggled
      <4>. HIDE DEF b, r
      <4>. QED BY <2>1, <4>1 DEF RowType
    <3>2. r.used = row[u].used /\ r.lifetime = row[u].lifetime /\ r.status = row[u].status
      BY <2>1 DEF RowType, Toggled
    <3>3. row' = [row EXCEPT ![u] = r]
      BY <2>3
    <3>. HIDE DEF r
    <3>. QED BY <2>3, <3>1, <3>2, <3>3
  <2>. QED BY <2>2, <2>3 DEF UpdateUser
<1>2. row' \in [User -> RowType] /\ forgiven' \in SUBSET User
  BY <1>1 DEF Shape
<1>3. changes' \in 0..MaxChanges
  BY TrafficAssumption DEF Shape, UpdateUser, Change
<1>4. \A v \in User :
        /\ row'[v].lifetime = row[v].lifetime /\ row'[v].used = row[v].used
        /\ v \notin forgiven' => row'[v].limited = row[v].limited
        /\ row'[v].status = "limited" => row[v].status = "limited"
  BY <1>1 DEF Shape
<1>5. UNCHANGED <<agentVars, job, poll, snapshot, hours, found, realVars, mishaps>>
  BY DEF UpdateUser
<1>6. Shape'
  BY <1>2, <1>3, <1>5 DEF Shape, agentVars, realVars, Table
<1>. QED
  BY <1>1, <1>4, <1>5, <1>6 DEF Apart, agentVars, realVars

\* The panel's death keeps the types.
LEMMA ShapePanelCrash == ASSUME Shape, PanelCrash PROVE Shape'
<1>1. poll' = [m \in Node |-> poll'[m]] /\ \A m \in Node : PollOK(m, poll'[m])
  BY QuietPoll DEF PanelCrash
<1>2. snapshot' \in [Node -> Nat] /\ retold' \in [Node -> Nat]
  BY DEF PanelCrash, Shape
<1>3. mishaps' \subseteq Faults \cup {"undrained"}
  BY DEF PanelCrash, Mishap, CanFail, Shape
<1>. QED
  BY <1>1, <1>2, <1>3 DEF Shape, PanelCrash, agentVars, dbVars, realVars, Table

\* Every step keeps the types.
LEMMA ShapeStep == Shape /\ [Next]_vars => Shape'
<1>. SUFFICES ASSUME Shape, [Next]_vars PROVE Shape'
  OBVIOUS
<1>1. CASE UNCHANGED vars
  BY <1>1 DEF vars, agentVars, realVars, dbVars, Shape, Table
<1>2. CASE Next
  <2>1. ASSUME NEW n \in Node, NEW u \in User, Carry(n, u) \/ ChangeUser(n, u) PROVE Shape'
    BY <2>1, ShapeCarry, ShapeChangeUser
  <2>2. ASSUME NEW n \in Node, NEW c \in Kinds, CoreRestarts(n, c) PROVE Shape'
    BY <2>2, ShapeCoreRestarts
  <2>3. ASSUME NEW n \in Node, PollFails(n) \/ BillFails(n) \/ BillNode(n) PROVE Shape'
    BY <2>3, ShapePollFails, ShapeBillFails, ShapeBillNode
  <2>4. ASSUME NEW n \in Node, NEW failed \in SUBSET Cores[n], ReadCounters(n, failed)
        PROVE  Shape'
    BY <2>4, ShapeReadCounters
  <2>5. ASSUME NEW n \in Node, NEW e \in Entries(n), BillUser(n, e) PROVE Shape'
    BY <2>5, ShapeBillUser
  <2>6. ASSUME NEW u \in User, UpdateUser(u) PROVE Shape'
    BY <2>6, UpdateUserIs
  <2>7. CASE StartPoll \/ PollEnds \/ FindExceeded \/ MarkLimited \/ ResetTraffic \/ PanelCrash
    BY <2>7, ShapeStartPoll, PollEndsIs, FindExceededIs, MarkLimitedIs, ResetTrafficIs,
       ShapePanelCrash
  <2>. QED BY <1>2, <2>1, <2>2, <2>3, <2>4, <2>5, <2>6, <2>7 DEF Next, PollStep
<1>. QED
  BY <1>1, <1>2

\* The types hold in every reachable state, with naturals for the bytes.
THEOREM ShapeHolds == Spec => []Shape
<1>1. Init => Shape
  BY ShapeInit
<1>2. Shape /\ [Next]_vars => Shape'
  BY ShapeStep
<1>. QED
  BY <1>1, <1>2, PTL DEF Spec

-----------------------------------------------------------------------------
(* Who is limited: nobody else was found, and who was found still is over  *)
(* the limit, as long as they are not forgiven.                            *)
FoundStillOver == \A u \in found : u \notin forgiven => Exceeded(u)
LimitedInv == LimitedExplained /\ FoundStillOver

\* Steps that touch neither rows nor finds keep who is limited.
LEMMA LimitedSame ==
  ASSUME LimitedInv, UNCHANGED <<row, found, forgiven>>
  PROVE  LimitedInv'
BY DEF LimitedInv, LimitedExplained, FoundStillOver, Exceeded

\* Every step keeps who is limited explained.
LEMMA LimitedStep ==
  ASSUME Shape, LimitedInv, [Next]_vars
  PROVE  LimitedInv'
<1>. USE DEF LimitedInv, LimitedExplained, FoundStillOver, Exceeded
<1>1. CASE UNCHANGED vars
  BY <1>1, LimitedSame DEF vars, dbVars
<1>2. ASSUME NEW n \in Node, NEW u \in User, Carry(n, u) \/ ChangeUser(n, u)
      PROVE  LimitedInv'
  BY <1>2, LimitedSame DEF Carry, ChangeUser, dbVars
<1>3. ASSUME NEW n \in Node, NEW c \in Kinds, CoreRestarts(n, c) PROVE LimitedInv'
  BY <1>3, LimitedSame DEF CoreRestarts, dbVars
<1>4. ASSUME NEW n \in Node, PollFails(n) \/ BillFails(n) \/ BillNode(n) PROVE LimitedInv'
  BY <1>4, LimitedSame DEF PollFails, BillFails, BillNode, dbVars
<1>5. ASSUME NEW n \in Node, NEW failed \in SUBSET Cores[n], ReadCounters(n, failed)
      PROVE  LimitedInv'
  BY <1>5, LimitedSame, ReadCountersIs
<1>6. ASSUME NEW n \in Node, NEW e \in Entries(n), BillUser(n, e) PROVE LimitedInv'
  <2>1. UNCHANGED <<found, forgiven>>
    BY <1>6 DEF BillUser
  <2>2. \A u \in User : /\ row'[u].status = row[u].status /\ row'[u].limited = row[u].limited
                       /\ row'[u].used >= row[u].used /\ row[u].used \in Nat
                       /\ row'[u].used \in Nat
    <3>1. TAKE u \in User
    <3>2. row[u] \in RowType
      BY DEF Shape
    <3>3. CASE u = e[2]
      <4> DEFINE b == Multiplier[n] * poll[n].left[e]
      <4>1. b \in Nat /\ row' = [row EXCEPT ![e[2]] = Billed(row[e[2]], b)] /\ DOMAIN row = User
        BY <1>6, BillUserIs DEF Shape
      <4>2. row'[u] = Billed(row[u], b)
        <5>. HIDE DEF b
        <5>. QED BY <3>3, <4>1
      <4>. HIDE DEF b
      <4>3. /\ row'[u].status = row[u].status /\ row'[u].limited = row[u].limited
            /\ row'[u].used = row[u].used + b
        <5>. HIDE DEF b
        <5>. QED BY <3>2, <4>1, <4>2, BilledIs
      <4>4. row[u].used \in Nat
        BY <3>2 DEF RowType
      <4>. HIDE DEF b
      <4>. QED BY <4>1, <4>3, <4>4
    <3>4. CASE u # e[2]
      <4>1. row'[u] = row[u]
        BY <1>6, <3>4, BillUserIs DEF Shape
      <4>. QED BY <3>2, <4>1 DEF RowType
    <3>. QED BY <3>3, <3>4
  <2>. QED BY <2>1, <2>2, TrafficAssumption DEF Shape
<1>7. CASE StartPoll
  BY <1>7, LimitedSame DEF StartPoll, dbVars
<1>8. CASE PollEnds
  BY <1>8, LimitedSame, PollEndsIs
<1>9. CASE FindExceeded
  <2>1. row' = row /\ forgiven' = forgiven \ found'
    BY <1>9, FindExceededIs DEF FindExceeded
  <2>2. \A u \in found' : u \in User /\ row[u].limited /\ row[u].used >= Limit
    BY <1>9 DEF FindExceeded
  <2>3. \A u \in found' : Exceeded(u)
    BY <2>2
  <2>4. \A u \in User : row[u].status = "limited" /\ u \notin forgiven' => Exceeded(u)
    <3>1. TAKE u \in User
    <3>2. CASE u \in found'
      BY <2>3, <3>2
    <3>3. CASE u \notin found'
      BY <2>1, <3>3
    <3>. QED BY <3>2, <3>3
  <2>. QED BY <2>1, <2>3, <2>4
<1>10. CASE MarkLimited
  <2>1. forgiven' = forgiven /\ found' = {}
    BY <1>10 DEF MarkLimited
  <2>2. \A u \in User : Exceeded(u) => Exceeded(u)'
    BY <1>10, MarkLimitedIs
  <2>3. \A u \in User : row'[u].status = "limited" => u \in found \/ row[u].status = "limited"
    BY <1>10, MarkLimitedIs
  <2>. QED BY <2>1, <2>2, <2>3
<1>11. CASE ResetTraffic
  <2>1. found' = {}
    BY <1>11, ResetTrafficIs
  <2>2. \A u \in User : row'[u].status = row[u].status
            /\ (u \notin forgiven' => u \notin forgiven /\ row'[u] = row[u])
    BY <1>11, ResetTrafficIs
  <2>. QED BY <2>1, <2>2
<1>12. ASSUME NEW u \in User, UpdateUser(u) PROVE LimitedInv'
  <2>1. /\ found' = found /\ forgiven \subseteq forgiven'
        /\ \A v \in User :
              /\ row'[v].used = row[v].used
              /\ v \notin forgiven' => row'[v].limited = row[v].limited
              /\ row'[v].status = "limited" => row[v].status = "limited"
    BY <1>12, UpdateUserIs
  <2>2. found \subseteq User
    BY DEF Shape
  <2>. QED BY <2>1, <2>2
<1>13. CASE PanelCrash
  <2>1. found' = {} /\ UNCHANGED <<row, forgiven>>
    BY <1>13 DEF PanelCrash, dbVars
  <2>. QED BY <2>1
<1>. QED
  BY <1>1, <1>2, <1>3, <1>4, <1>5, <1>6, <1>7, <1>8, <1>9, <1>10, <1>11, <1>12, <1>13
  DEF Next, PollStep

(* Only a user who was found over the limit is limited, and unless the      *)
(* counter was reset or the limit moved since, they still are over it: the  *)
(* ids of review-find-exceeded-traffic are stale only in that way when they *)
(* are written.                                                             *)
THEOREM LimitedExplainedHolds == Spec => []LimitedExplained
<1>1. Init => LimitedInv
  BY DEF Init, LimitedInv, LimitedExplained, FoundStillOver
<1>2. Shape /\ LimitedInv /\ [Next]_vars => LimitedInv'
  BY LimitedStep
<1>3. LimitedInv => LimitedExplained
  BY DEF LimitedInv
<1>. QED
  BY <1>1, <1>2, <1>3, ShapeHolds, PTL DEF Spec

-----------------------------------------------------------------------------
(* Bytes: no counter, answer or snapshot holds more than went through.     *)
Backed ==
  /\ Sends <= MaxSends
  /\ \A n \in Node :
       /\ \A e \in Entries(n) : counter[n][e] <= sent[n][e] /\ poll[n].left[e] <= sent[n][e]
       /\ wide[n] <= wideSent[n]
       /\ poll[n].sum <= Total(sent[n])
       /\ poll[n].total <= Through(n) /\ snapshot[n] <= Through(n)

\* The bytes of a node are naturals.
LEMMA ThroughNat ==
  ASSUME Shape, NEW n \in Node
  PROVE  /\ Total(sent[n]) \in Nat /\ Total(counter[n]) \in Nat /\ wideSent[n] \in Nat
         /\ Through(n) \in Nat /\ Through(n) = Total(sent[n]) + wideSent[n]
         /\ sent[n] \in [Entries(n) -> Nat] /\ counter[n] \in [Entries(n) -> Nat]
         /\ wide[n] \in Nat
<1>1. sent[n] \in [Entries(n) -> Nat] /\ wideSent[n] \in Nat
      /\ counter[n] \in [Entries(n) -> Nat] /\ wide[n] \in Nat
  BY DEF Shape, Table
<1>2. Total(sent[n]) \in Nat /\ Total(counter[n]) \in Nat
  BY <1>1, EntryFacts, TotalNat
<1>. QED
  BY <1>1, <1>2 DEF Through

\* All bytes sent, node by node.
LEMMA SendsIs ==
  ASSUME Shape
  PROVE  /\ Sends = Total([n \in Node |-> Through(n)])
         /\ [n \in Node |-> Through(n)] \in [Node -> Nat]
         /\ Sends \in Nat
         /\ \A n \in Node : Through(n) <= Sends
<1> DEFINE f == [n \in Node |-> Through(n)]
<1>1. Sends = Total(f)
  BY DEF Sends, Through
<1>2. f \in [Node -> Nat]
  BY ThroughNat
<1>3. Total(f) \in Nat /\ \A n \in Node : f[n] <= Total(f)
  <2>. HIDE DEF f
  <2>. QED BY <1>2, TotalNat, TotalAtLeast, TrafficAssumption
<1>. QED
  BY <1>1, <1>2, <1>3

(* The properties TypeOK states of the bounds. *)
LEMMA BackedBytes ==
  ASSUME Shape, Backed
  PROVE  TypeOK
<1>1. ASSUME NEW n \in Node, NEW k \in Nat, k <= Through(n)
      PROVE  k \in Bytes
  <2>1. Through(n) \in Nat /\ Through(n) <= Sends /\ Sends \in Nat /\ Sends <= MaxSends
    BY ThroughNat, SendsIs DEF Backed
  <2>. QED BY <1>1, <2>1, TrafficAssumption DEF Bytes
<1>2. ASSUME NEW n \in Node, NEW e \in Entries(n), NEW k \in Nat, k <= sent[n][e]
      PROVE  k \in Bytes
  <2>1. sent[n][e] <= Total(sent[n]) /\ sent[n][e] \in Nat
    BY ThroughNat, EntryFacts, TotalAtLeast
  <2>2. k <= Through(n)
    BY <1>2, <2>1, ThroughNat
  <2>. QED BY <1>1, <2>2
<1>3. ASSUME NEW n \in Node
      PROVE  /\ counter[n] \in [Entries(n) -> Bytes] /\ sent[n] \in [Entries(n) -> Bytes]
             /\ poll[n] \in [at : {"idle", "ask", "bill"}, left : [Entries(n) -> Bytes],
                             sum : Bytes, total : Bytes]
             /\ wide[n] \in Bytes /\ snapshot[n] \in Bytes /\ wideSent[n] \in Bytes
  <2>1. \A e \in Entries(n) : /\ counter[n][e] \in Nat /\ counter[n][e] <= sent[n][e]
                             /\ sent[n][e] \in Nat /\ sent[n][e] <= sent[n][e]
    BY ThroughNat DEF Backed
  <2>2. counter[n] \in [Entries(n) -> Bytes] /\ sent[n] \in [Entries(n) -> Bytes]
    BY <1>2, <2>1, ThroughNat
  <2>3. PollOK(n, poll[n]) /\ snapshot[n] \in Nat
    BY DEF Shape
  <2>4. poll[n].left \in [Entries(n) -> Bytes]
    <3>1. \A e \in Entries(n) : poll[n].left[e] \in Nat /\ poll[n].left[e] <= sent[n][e]
      BY <2>3 DEF Backed, PollOK
    <3>. QED BY <1>2, <2>3, <3>1 DEF PollOK
  <2>5. /\ poll[n].sum \in Bytes /\ poll[n].total \in Bytes
        /\ wide[n] \in Bytes /\ snapshot[n] \in Bytes /\ wideSent[n] \in Bytes
    <3>1. poll[n].sum \in Nat /\ poll[n].total \in Nat
      BY <2>3 DEF PollOK
    <3>2. /\ poll[n].sum <= Through(n) /\ poll[n].total <= Through(n)
          /\ wide[n] <= Through(n) /\ snapshot[n] <= Through(n) /\ wideSent[n] <= Through(n)
      BY <2>3, <3>1, ThroughNat DEF Backed
    <3>. QED BY <1>1, <2>3, <3>1, <3>2, ThroughNat
  <2>. QED BY <2>2, <2>3, <2>4, <2>5 DEF PollOK
<1>4. /\ DOMAIN counter = Node /\ DOMAIN sent = Node /\ DOMAIN poll = Node
      /\ wide \in [Node -> Bytes] /\ snapshot \in [Node -> Bytes] /\ wideSent \in [Node -> Bytes]
  BY <1>3 DEF Shape
<1>5. row \in [User -> [status : {"active", "limited", "disabled"}, limited : BOOLEAN,
                         used : Nat, lifetime : Nat]]
  BY DEF Shape, RowType
<1>. QED
  BY <1>3, <1>4, <1>5 DEF Shape, TypeOK

\* Nothing is counted before anything is sent.
LEMMA BackedInit == Init => Backed
<1>. SUFFICES ASSUME Init PROVE Backed
  OBVIOUS
<1>1. Shape
  BY ShapeInit
<1>2. ASSUME NEW n \in Node
      PROVE  /\ counter[n] = NoBytes(n) /\ sent[n] = NoBytes(n) /\ poll[n] = Quiet(n)
             /\ wide[n] = 0 /\ wideSent[n] = 0 /\ snapshot[n] = 0
             /\ Total(sent[n]) = 0 /\ Through(n) = 0
  <2>1. /\ counter[n] = NoBytes(n) /\ sent[n] = NoBytes(n) /\ poll[n] = Quiet(n)
        /\ wide[n] = 0 /\ wideSent[n] = 0 /\ snapshot[n] = 0
    BY DEF Init, NoPoll
  <2>2. Total(NoBytes(n)) = 0
    BY QuietIs, EntryFacts, TotalOfZeros
  <2>. QED BY <2>1, <2>2 DEF Through
<1>3. Sends = 0
  <2>1. [n \in Node |-> Through(n)] \in [Node -> {0}]
    BY <1>2
  <2>. QED BY <1>1, <2>1, SendsIs, TotalOfZeros, TrafficAssumption
<1>4. \A n \in Node : \A e \in Entries(n) : NoBytes(n)[e] = 0
  BY DEF NoBytes
<1>. QED
  BY <1>2, <1>3, <1>4, QuietIs, TrafficAssumption DEF Backed

(* Nothing was sent: what is left to say of each node. *)
WithinSent ==
  \A n \in Node :
    /\ \A e \in Entries(n) : counter'[n][e] <= sent[n][e] /\ poll'[n].left[e] <= sent[n][e]
    /\ wide'[n] <= wideSent[n]
    /\ poll'[n].sum <= Total(sent[n])
    /\ poll'[n].total <= Through(n) /\ snapshot'[n] <= Through(n)

\* A step that sends nothing only has to stay within what was sent.
LEMMA BackedKept ==
  ASSUME Backed, UNCHANGED <<sent, wideSent>>, WithinSent
  PROVE  Backed'
BY DEF Backed, WithinSent, Sends, Through

\* A poll that holds nothing is within everything.
LEMMA QuietWithin ==
  ASSUME Shape, NEW n \in Node
  PROVE  /\ \A e \in Entries(n) : Quiet(n).left[e] <= sent[n][e] /\ Asking(n).left[e] <= sent[n][e]
         /\ Quiet(n).sum <= Total(sent[n]) /\ Asking(n).sum <= Total(sent[n])
         /\ Quiet(n).total <= Through(n) /\ Asking(n).total <= Through(n)
<1>1. \A e \in Entries(n) : NoBytes(n)[e] = 0 /\ sent[n][e] \in Nat
  BY ThroughNat DEF NoBytes
<1>. QED
  BY <1>1, QuietIs, ThroughNat

\* A unit of traffic is counted once where it is sent once.
LEMMA BackedCarry ==
  ASSUME Shape, Backed, NEW n \in Node, NEW u \in User, Carry(n, u)
  PROVE  Backed'
<1>1. Shape'
  BY ShapeCarry
<1>2. UNCHANGED <<poll, snapshot>> /\ Sends < MaxSends
  BY DEF Carry
<1>3. \A m \in Node \ {n} : counter'[m] = counter[m] /\ sent'[m] = sent[m]
                            /\ wide'[m] = wide[m] /\ wideSent'[m] = wideSent[m]
  BY DEF Carry, Shape
<1>4. /\ \A e \in Entries(n) : /\ counter'[n][e] <= sent'[n][e]
                              /\ sent[n][e] <= sent'[n][e] /\ sent[n][e] \in Nat
                              /\ sent'[n][e] \in Nat
      /\ wide'[n] <= wideSent'[n] /\ wideSent[n] <= wideSent'[n]
      /\ Total(sent'[n]) + wideSent'[n] = Total(sent[n]) + wideSent[n] + 1
      /\ Total(sent'[n]) \in Nat /\ Total(sent[n]) <= Total(sent'[n])
  <2>1. CASE /\ wide' = [wide EXCEPT ![n] = @ + 1] /\ wideSent' = [wideSent EXCEPT ![n] = @ + 1]
             /\ UNCHANGED <<counter, sent>>
    <3>1. wide'[n] = wide[n] + 1 /\ wideSent'[n] = wideSent[n] + 1
      BY <2>1 DEF Shape
    <3>. QED BY <2>1, <3>1, ThroughNat DEF Backed
  <2>2. ASSUME NEW c \in PerUser(n),
               counter' = [counter EXCEPT ![n] = Plus(@, <<c, u>>, 1)],
               sent' = [sent EXCEPT ![n] = Plus(@, <<c, u>>, 1)],
               UNCHANGED <<wide, wideSent>>
        PROVE  /\ \A e \in Entries(n) : /\ counter'[n][e] <= sent'[n][e]
                              /\ sent[n][e] <= sent'[n][e] /\ sent[n][e] \in Nat
                              /\ sent'[n][e] \in Nat
               /\ wide'[n] <= wideSent'[n] /\ wideSent[n] <= wideSent'[n]
               /\ Total(sent'[n]) + wideSent'[n] = Total(sent[n]) + wideSent[n] + 1
               /\ Total(sent'[n]) \in Nat /\ Total(sent[n]) <= Total(sent'[n])
    <3> DEFINE e == <<c, u>>
    <3>1. e \in Entries(n) /\ IsFiniteSet(Entries(n))
      BY EntryFacts
    <3>2. /\ counter'[n] = [counter[n] EXCEPT ![e] = @ + 1]
          /\ sent'[n] = [sent[n] EXCEPT ![e] = @ + 1]
      BY <2>2 DEF Shape, Plus
    <3>3. sent'[n] \in [Entries(n) -> Nat] /\ sent'[n][e] = sent[n][e] + 1
          /\ \A d \in Entries(n) \ {e} : sent'[n][d] = sent[n][d]
      <4>. HIDE DEF e
      <4>. QED BY <3>1, <3>2, ThroughNat
    <3>4. Total(sent'[n]) + sent[n][e] = Total(sent[n]) + sent'[n][e]
      <4>. HIDE DEF e
      <4>. QED BY <3>1, <3>3, ThroughNat, TotalChange
    <3>5. Total(sent'[n]) \in Nat
      BY <3>1, <3>3, TotalNat
    <3>6. Total(sent'[n]) = Total(sent[n]) + 1
      <4>1. sent[n][e] \in Nat
        BY <3>1, ThroughNat
      <4>. HIDE DEF e
      <4>. QED BY <4>1, <3>3, <3>4, <3>5, ThroughNat
    <3>7. \A d \in Entries(n) : counter'[n][d] <= sent'[n][d] /\ sent[n][d] <= sent'[n][d]
                               /\ sent[n][d] \in Nat /\ sent'[n][d] \in Nat
      <4>1. TAKE d \in Entries(n)
      <4>2. counter[n][d] <= sent[n][d] /\ counter[n][d] \in Nat /\ sent[n][d] \in Nat
        BY ThroughNat DEF Backed
      <4>. HIDE DEF e
      <4>. QED BY <3>2, <4>2, ThroughNat
    <3>. QED BY <2>2, <3>5, <3>6, <3>7, ThroughNat DEF Backed
  <2>. QED BY <2>1, <2>2 DEF Carry
<1>5. Sends' = Sends + 1
  <2> DEFINE f == [m \in Node |-> Through(m)]
             g == [m \in Node |-> Through(m)']
  <2>1. Sends = Total(f) /\ f \in [Node -> Nat]
    BY SendsIs
  <2>2. Sends' = Total(g) /\ g \in [Node -> Nat]
    <3>1. \A m \in Node : sent'[m] \in [Entries(m) -> Nat] /\ wideSent'[m] \in Nat
      BY <1>1 DEF Shape, Table
    <3>2. \A m \in Node : Through(m)' \in Nat
      BY <3>1, EntryFacts, TotalNat DEF Through
    <3>. QED BY <3>2 DEF Sends, Through
  <2>3. \A m \in Node \ {n} : g[m] = f[m]
    BY <1>3 DEF Through
  <2>4. g[n] = f[n] + 1
    BY <1>4 DEF Through
  <2>5. Total(g) + f[n] = Total(f) + g[n] /\ f[n] \in Nat /\ Total(f) \in Nat /\ Total(g) \in Nat
    <3>. HIDE DEF f, g
    <3>. QED BY <2>1, <2>2, <2>3, TotalChange, TotalNat, TrafficAssumption
  <2>. HIDE DEF f, g
  <2>. QED BY <2>1, <2>2, <2>4, <2>5
<1>6. Sends' <= MaxSends
  BY <1>2, <1>5, SendsIs, TrafficAssumption
<1>7. ASSUME NEW m \in Node
      PROVE  /\ \A e \in Entries(m) : counter'[m][e] <= sent'[m][e] /\ poll'[m].left[e] <= sent'[m][e]
             /\ wide'[m] <= wideSent'[m]
             /\ poll'[m].sum <= Total(sent'[m])
             /\ poll'[m].total <= Through(m)' /\ snapshot'[m] <= Through(m)'
  <2>1. CASE m # n
    BY <1>2, <1>3, <2>1 DEF Backed, Through
  <2>2. CASE m = n
    <3>1. PollOK(n, poll[n]) /\ snapshot[n] \in Nat
      BY DEF Shape
    <3>2. \A e \in Entries(n) : poll[n].left[e] <= sent'[n][e]
      <4>1. TAKE e \in Entries(n)
      <4>2. poll[n].left[e] \in Nat /\ poll[n].left[e] <= sent[n][e]
        BY <3>1 DEF PollOK, Backed
      <4>. QED BY <4>2, <1>4
    <3>3. Through(n)' = Through(n) + 1
      BY <1>4 DEF Through
    <3>4. /\ poll[n].sum <= Total(sent'[n]) /\ poll[n].total <= Through(n)'
          /\ snapshot[n] <= Through(n)'
      BY <1>4, <3>1, <3>3, ThroughNat DEF Backed, PollOK
    <3>. QED BY <1>2, <1>4, <2>2, <3>2, <3>4
  <2>. QED BY <2>1, <2>2
<1>. QED
  BY <1>6, <1>7 DEF Backed

\* The answer of GET /stats is within what was sent.
LEMMA BackedReadCounters ==
  ASSUME Shape, Backed, NEW n \in Node, NEW failed \in SUBSET Cores[n], ReadCounters(n, failed)
  PROVE  WithinSent
<1>1. /\ poll'[n] = Answer(n, failed) /\ counter'[n] = AfterRead(n, failed)
      /\ \A m \in Node \ {n} : poll'[m] = poll[m] /\ counter'[m] = counter[m]
      /\ UNCHANGED <<wide, wideSent, sent, snapshot>>
  BY ReadCountersIs DEF Shape
<1>2. Total(AnswerOf(n, failed)) <= Total(sent[n])
  <2>1. \A e \in Entries(n) : AnswerOf(n, failed)[e] <= sent[n][e]
    <3>1. TAKE e \in Entries(n)
    <3>2. /\ AnswerOf(n, failed)[e] \in Nat /\ AnswerOf(n, failed)[e] <= counter[n][e]
          /\ counter[n][e] \in Nat /\ sent[n][e] \in Nat
      BY AnswerIs, ThroughNat
    <3>. QED BY <3>2 DEF Backed
  <2>. QED BY <2>1, AnswerIs, ThroughNat, EntryFacts, TotalMonotone
<1>3. \A e \in Entries(n) : /\ AnswerOf(n, failed)[e] <= sent[n][e]
                           /\ AfterRead(n, failed)[e] <= sent[n][e]
  <2>1. TAKE e \in Entries(n)
  <2>2. /\ AnswerOf(n, failed)[e] \in Nat /\ AnswerOf(n, failed)[e] <= counter[n][e]
        /\ AfterRead(n, failed)[e] \in Nat /\ AfterRead(n, failed)[e] <= counter[n][e]
        /\ counter[n][e] \in Nat /\ sent[n][e] \in Nat
    BY AnswerIs, ThroughNat
  <2>. QED BY <2>2 DEF Backed
<1>4. TotalsOf(n, failed) <= Through(n)
  <2>1. wide[n] <= wideSent[n]
    BY DEF Backed
  <2>. QED BY <1>2, <2>1, AnswerIs, ThroughNat
<1>5. ASSUME NEW m \in Node \ {n}
      PROVE  /\ \A e \in Entries(m) : counter'[m][e] <= sent[m][e] /\ poll'[m].left[e] <= sent[m][e]
             /\ wide'[m] <= wideSent[m] /\ poll'[m].sum <= Total(sent[m])
             /\ poll'[m].total <= Through(m) /\ snapshot'[m] <= Through(m)
  BY <1>1 DEF Backed
<1>6. /\ \A e \in Entries(n) : counter'[n][e] <= sent[n][e] /\ poll'[n].left[e] <= sent[n][e]
      /\ wide'[n] <= wideSent[n] /\ poll'[n].sum <= Total(sent[n])
      /\ poll'[n].total <= Through(n) /\ snapshot'[n] <= Through(n)
  BY <1>1, <1>2, <1>3, <1>4 DEF Backed, Answer
<1>. QED
  BY <1>5, <1>6 DEF WithinSent

\* Settling an entry stays within what was sent.
LEMMA BackedBillUser ==
  ASSUME Shape, Backed, NEW n \in Node, NEW e \in Entries(n), BillUser(n, e)
  PROVE  WithinSent
<1>1. /\ poll'[n] = Settled(poll[n], e) /\ \A m \in Node \ {n} : poll'[m] = poll[m]
      /\ UNCHANGED <<counter, wide, wideSent, sent, snapshot>>
  BY BillUserIs DEF Shape, BillUser, agentVars, realVars
<1>2. /\ poll'[n].sum = poll[n].sum /\ poll'[n].total = poll[n].total
      /\ poll'[n].left[e] = 0
      /\ \A d \in Entries(n) \ {e} : poll'[n].left[d] = poll[n].left[d]
  BY <1>1, BillUserIs, SettledIs
<1>3. \A d \in Entries(n) : poll'[n].left[d] <= sent[n][d]
  <2>1. TAKE d \in Entries(n)
  <2>2. sent[n][d] \in Nat /\ poll[n].left[d] <= sent[n][d]
    BY ThroughNat DEF Backed
  <2>. QED BY <1>2, <2>2
<1>. QED
  BY <1>1, <1>2, <1>3 DEF Backed, WithinSent

\* A poll that ends stays within what was sent.
LEMMA BackedQuiet ==
  ASSUME Shape, Backed, NEW n \in Node, poll' = [poll EXCEPT ![n] = Quiet(n)],
         UNCHANGED <<counter, wide, wideSent, sent>>,
         TakeSnapshot(n) \/ snapshot' = snapshot
  PROVE  WithinSent
<1>1. poll'[n] = Quiet(n) /\ \A m \in Node \ {n} : poll'[m] = poll[m]
  BY DEF Shape
<1>2. \A m \in Node : snapshot'[m] <= Through(m)
  BY TakeSnapshotIs DEF Backed
<1>. QED
  BY <1>1, <1>2, QuietWithin DEF Backed, WithinSent

\* Every step keeps the counters within what was sent.
LEMMA BackedStep ==
  ASSUME Shape, Backed, [Next]_vars
  PROVE  Backed'
<1>1. CASE UNCHANGED vars
  <2>1. UNCHANGED <<counter, wide, poll, snapshot, sent, wideSent>>
    BY <1>1 DEF vars, agentVars, realVars
  <2>2. WithinSent
    BY <2>1 DEF Backed, WithinSent
  <2>. QED BY <2>1, <2>2, BackedKept
<1>2. ASSUME NEW n \in Node, NEW u \in User, Carry(n, u) PROVE Backed'
  BY <1>2, BackedCarry
<1>3. ASSUME NEW n \in Node, NEW u \in User, ChangeUser(n, u) PROVE Backed'
  <2>1. UNCHANGED <<wide, poll, snapshot, sent, wideSent>>
    BY <1>3 DEF ChangeUser, realVars
  <2>2. \A m \in Node : \A e \in Entries(m) : counter'[m][e] <= sent[m][e]
    <3>1. TAKE m \in Node
    <3>2. TAKE e \in Entries(m)
    <3>3. counter[m][e] <= sent[m][e] /\ counter[m][e] \in Nat /\ sent[m][e] \in Nat
      BY ThroughNat DEF Backed
    <3>4. CASE m = n
      <4>1. counter'[m] = AfterChange(n, u)
        BY <1>3, <3>4, ChangeUserIs DEF Shape
      <4>2. AfterChange(n, u)[e] <= counter[m][e] /\ AfterChange(n, u)[e] \in Nat
        BY <1>3, <3>4, ChangeUserIs
      <4>. QED BY <3>3, <4>1, <4>2
    <3>5. CASE m # n
      <4>1. counter'[m] = counter[m]
        BY <1>3, <3>5, ChangeUserIs DEF Shape
      <4>. QED BY <3>3, <4>1
    <3>. QED BY <3>4, <3>5
  <2>3. WithinSent
    BY <2>1, <2>2 DEF Backed, WithinSent
  <2>. QED BY <2>1, <2>3, BackedKept
<1>4. ASSUME NEW n \in Node, NEW c \in Kinds, CoreRestarts(n, c) PROVE Backed'
  <2>1. UNCHANGED <<poll, snapshot, sent, wideSent>>
    BY <1>4 DEF CoreRestarts, realVars
  <2>2. \A m \in Node : /\ wide'[m] <= wide[m] /\ wide'[m] \in Nat
                       /\ \A e \in Entries(m) : counter'[m][e] <= counter[m][e]
                                                /\ counter'[m][e] \in Nat
    BY <1>4, CoreRestartsIs
  <2>3. WithinSent
    <3>. USE DEF WithinSent
    <3>1. TAKE m \in Node
    <3>2. /\ wide[m] \in Nat /\ wideSent[m] \in Nat /\ wide[m] <= wideSent[m]
          /\ \A e \in Entries(m) : /\ counter[m][e] \in Nat /\ sent[m][e] \in Nat
                                   /\ counter[m][e] <= sent[m][e]
      BY ThroughNat DEF Backed
    <3>3. wide'[m] <= wideSent[m]
      BY <2>2, <3>2
    <3>4. \A e \in Entries(m) : counter'[m][e] <= sent[m][e]
      BY <2>2, <3>2
    <3>. QED BY <2>1, <3>3, <3>4 DEF Backed
  <2>. QED BY <2>1, <2>3, BackedKept
<1>5. ASSUME NEW n \in Node, PollFails(n) \/ BillFails(n) \/ BillNode(n) PROVE Backed'
  <2>1. /\ poll' = [poll EXCEPT ![n] = Quiet(n)]
        /\ UNCHANGED <<counter, wide, wideSent, sent>>
        /\ TakeSnapshot(n) \/ snapshot' = snapshot
    BY <1>5 DEF PollFails, BillFails, BillNode, agentVars, realVars
  <2>. QED BY <2>1, BackedQuiet, BackedKept
<1>6. ASSUME NEW n \in Node, NEW failed \in SUBSET Cores[n], ReadCounters(n, failed)
      PROVE  Backed'
  BY <1>6, BackedReadCounters, ReadCountersIs, BackedKept
<1>7. ASSUME NEW n \in Node, NEW e \in Entries(n), BillUser(n, e) PROVE Backed'
  <2>1. UNCHANGED <<sent, wideSent>>
    BY <1>7 DEF BillUser, realVars
  <2>. QED BY <1>7, <2>1, BackedBillUser, BackedKept
<1>8. CASE StartPoll
  <2>1. UNCHANGED <<counter, wide, snapshot, sent, wideSent>>
    BY <1>8 DEF StartPoll, agentVars, realVars
  <2>2. \A n \in Node : poll'[n] = Asking(n) \/ poll'[n] = Quiet(n)
    BY <1>8 DEF StartPoll
  <2>3. WithinSent
    BY <2>1, <2>2, QuietWithin DEF Backed, WithinSent
  <2>. QED BY <2>1, <2>3, BackedKept
<1>9. CASE PanelCrash
  <2>1. UNCHANGED <<counter, wide, sent, wideSent>>
    BY <1>9 DEF PanelCrash, agentVars, realVars
  <2>2. \A n \in Node : poll'[n] = Quiet(n) /\ snapshot'[n] = 0
    BY <1>9 DEF PanelCrash, NoPoll
  <2>3. WithinSent
    BY <2>1, <2>2, QuietWithin, ThroughNat DEF Backed, WithinSent
  <2>. QED BY <2>1, <2>3, BackedKept
<1>10. ASSUME Apart PROVE Backed'
  <2>1. UNCHANGED <<counter, wide, poll, snapshot, sent, wideSent>>
    BY <1>10 DEF Apart
  <2>2. WithinSent
    BY <2>1 DEF Backed, WithinSent
  <2>. QED BY <2>1, <2>2, BackedKept
<1>11. CASE PollEnds \/ FindExceeded \/ MarkLimited \/ ResetTraffic
  BY <1>10, <1>11, PollEndsIs, FindExceededIs, MarkLimitedIs, ResetTrafficIs
<1>12. ASSUME NEW u \in User, UpdateUser(u) PROVE Backed'
  BY <1>10, <1>12, UpdateUserIs
<1>. QED
  BY <1>1, <1>2, <1>3, <1>4, <1>5, <1>6, <1>7, <1>8, <1>9, <1>11, <1>12 DEF Next, PollStep

(* The types of Traffic, with its bounds: no counter, answer or snapshot    *)
(* ever holds more than all the bytes sent.                                 *)
THEOREM TypeCorrect == Spec => []TypeOK
<1>1. Init => Backed
  BY BackedInit
<1>2. Shape /\ Backed /\ [Next]_vars => Backed'
  BY BackedStep
<1>3. Shape /\ Backed => TypeOK
  BY BackedBytes
<1>. QED
  BY <1>1, <1>2, <1>3, ShapeHolds, PTL DEF Spec

-----------------------------------------------------------------------------
(* What a user's bill is still to hear of: what the cores have counted and *)
(* what the poll has read, entry by entry.                                 *)
HeldOf(c, p) == [n \in Node |-> [e \in Entries(n) |-> c[n][e] + p[n].left[e]]]

\* What counters and answers hold together is a table of naturals.
LEMMA HeldIs ==
  ASSUME NEW c, Table(c), NEW p, \A n \in Node : PollOK(n, p[n])
  PROVE  /\ Table(HeldOf(c, p))
         /\ \A n \in Node : \A e \in Entries(n) :
              /\ c[n][e] \in Nat /\ p[n].left[e] \in Nat
              /\ HeldOf(c, p)[n][e] = c[n][e] + p[n].left[e]
<1>1. \A n \in Node : \A e \in Entries(n) : c[n][e] \in Nat /\ p[n].left[e] \in Nat
  BY DEF Table, PollOK
<1>. QED
  BY <1>1 DEF Table, HeldOf

\* The same, of the current state.
LEMMA HeldNow ==
  ASSUME Shape
  PROVE  /\ Table(HeldOf(counter, poll))
         /\ \A n \in Node : \A e \in Entries(n) :
              /\ counter[n][e] \in Nat /\ poll[n].left[e] \in Nat
              /\ HeldOf(counter, poll)[n][e] = counter[n][e] + poll[n].left[e]
<1>1. Table(counter) /\ \A n \in Node : PollOK(n, poll[n])
  BY DEF Shape
<1>. QED
  BY <1>1, HeldIs

\* The same, of the next state.
LEMMA HeldNext ==
  ASSUME Shape'
  PROVE  /\ Table(HeldOf(counter', poll'))
         /\ \A n \in Node : \A e \in Entries(n) :
              /\ counter'[n][e] \in Nat /\ poll'[n].left[e] \in Nat
              /\ HeldOf(counter', poll')[n][e] = counter'[n][e] + poll'[n].left[e]
<1>1. Table(counter') /\ \A n \in Node : PollOK(n, poll'[n])
  BY DEF Shape
<1>. QED
  BY <1>1, HeldIs

\* What may still come on a bill, and the bill, as worths of tables.
LEMMA WayIs ==
  ASSUME NEW u \in User
  PROVE  /\ OnItsWay(u) = Worth(HeldOf(counter, poll), u)
         /\ OnItsWay(u)' = Worth(HeldOf(counter', poll'), u)
         /\ Bill(u) = Worth(sent, u) /\ Bill(u)' = Worth(sent', u)
<1>1. \A n \in Node : \A c \in PerUser(n) :
        /\ HeldOf(counter, poll)[n][<<c, u>>] = counter[n][<<c, u>>] + poll[n].left[<<c, u>>]
        /\ HeldOf(counter', poll')[n][<<c, u>>] = counter'[n][<<c, u>>] + poll'[n].left[<<c, u>>]
  BY EntryFacts DEF HeldOf
<1>2. \A n \in Node : Pending(n, u) = OfUser(HeldOf(counter, poll), n, u)
  BY <1>1 DEF Pending, OfUser
<1>3. \A n \in Node : Pending(n, u)' = OfUser(HeldOf(counter', poll'), n, u)
  BY <1>1 DEF Pending, OfUser
<1>4. OnItsWay(u) = Worth(HeldOf(counter, poll), u)
  BY <1>2 DEF OnItsWay, Worth
<1>5. OnItsWay(u)' = Worth(HeldOf(counter', poll'), u)
  BY <1>3 DEF OnItsWay, Worth
<1>6. Bill(u) = Worth(sent, u) /\ Bill(u)' = Worth(sent', u)
  BY DEF Bill, Used, Worth, OfUser
<1>. QED
  BY <1>4, <1>5, <1>6

(* No core counts for good: what is read per user is also emptied. *)
NoKernel == \A n \in Node : "amneziawg" \notin Cores[n]

(* Until users change over counters that were not read, whoever a node does *)
(* not track has nothing in its counters.                                   *)
Drained ==
  mishaps \subseteq {"soft"} =>
    \A n \in Node : \A e \in Entries(n) : e[2] \notin tracked[n] => counter[n][e] = 0

(* What a step that bills nobody may do to the bytes that are on their way. *)
OnlyLost ==
  /\ UNCHANGED sent
  /\ \A u \in User : row'[u].lifetime = row[u].lifetime
  /\ \A n \in Node : \A e \in Entries(n) :
       counter'[n][e] + poll'[n].left[e] <= counter[n][e] + poll[n].left[e]
  /\ mishaps' \subseteq {"soft"} =>
       /\ mishaps \subseteq {"soft"}
       /\ \A n \in Node : \A e \in Entries(n) :
            counter'[n][e] + poll'[n].left[e] = counter[n][e] + poll[n].left[e]

\* A step that only loses bytes on their way, and says so, keeps both
\* properties.
LEMMA BooksKept ==
  ASSUME Shape, Shape', NeverOverbilled, LossExplained, OnlyLost
  PROVE  NeverOverbilled' /\ LossExplained'
<1> DEFINE h == HeldOf(counter, poll)
           k == HeldOf(counter', poll')
<1>1. /\ Table(h) /\ \A n \in Node : \A e \in Entries(n) : h[n][e] = counter[n][e] + poll[n].left[e]
  BY HeldNow
<1>2. /\ Table(k) /\ \A n \in Node : \A e \in Entries(n) : k[n][e] = counter'[n][e] + poll'[n].left[e]
  BY HeldNext
<1>3. /\ \A n \in Node : \A e \in Entries(n) : k[n][e] <= h[n][e]
      /\ mishaps' \subseteq {"soft"} =>
           mishaps \subseteq {"soft"} /\ \A n \in Node : \A e \in Entries(n) : k[n][e] = h[n][e]
  <2>. HIDE DEF h, k
  <2>. QED BY <1>1, <1>2 DEF OnlyLost
<1>4. ASSUME NEW u \in User
      PROVE  /\ OnItsWay(u) = Worth(h, u) /\ OnItsWay(u)' = Worth(k, u)
             /\ Bill(u) = Worth(sent, u) /\ Bill(u)' = Worth(sent, u)
  BY WayIs DEF OnlyLost
<1>. HIDE DEF h, k
<1>5. ASSUME NEW u \in User
      PROVE  /\ Worth(h, u) \in Nat /\ Worth(k, u) \in Nat /\ Worth(sent, u) \in Nat
             /\ row[u].lifetime \in Nat /\ row'[u].lifetime = row[u].lifetime
             /\ Worth(k, u) <= Worth(h, u)
             /\ mishaps' \subseteq {"soft"} => Worth(k, u) >= Worth(h, u)
  <2>1. Worth(h, u) \in Nat /\ Worth(k, u) \in Nat /\ Worth(sent, u) \in Nat
    BY <1>1, <1>2, WorthNat DEF Shape
  <2>2. row[u].lifetime \in Nat /\ row'[u].lifetime = row[u].lifetime
    BY DEF Shape, RowType, OnlyLost
  <2>3. Worth(k, u) <= Worth(h, u)
    BY <1>1, <1>2, <1>3, WorthMonotone
  <2>4. ASSUME mishaps' \subseteq {"soft"} PROVE Worth(h, u) <= Worth(k, u)
    <3>1. \A n \in Node : \A e \in Entries(n) : h[n][e] <= k[n][e]
      <4>1. \A n \in Node : \A e \in Entries(n) : h[n][e] \in Nat
        BY <1>1 DEF Table
      <4>. QED BY <1>3, <2>4, <4>1
    <3>. QED BY <1>1, <1>2, <3>1, WorthMonotone
  <2>. QED BY <2>1, <2>2, <2>3, <2>4
<1>6. NeverOverbilled'
  BY <1>4, <1>5 DEF NeverOverbilled
<1>7. LossExplained'
  <2>1. SUFFICES ASSUME mishaps' \subseteq {"soft"}, NEW u \in User
                 PROVE  row'[u].lifetime + OnItsWay(u)' = Bill(u)'
    BY DEF LossExplained
  <2>2. row[u].lifetime + OnItsWay(u) = Bill(u)
    BY <1>3, <2>1 DEF LossExplained
  <2>. QED BY <1>4, <1>5, <2>1, <2>2
<1>. QED
  BY <1>6, <1>7

\* A unit of traffic is on its way for as much as it adds to the bill.
LEMMA BooksCarry ==
  ASSUME Shape, Shape', NeverOverbilled, LossExplained, NEW n \in Node, NEW u \in User, Carry(n, u)
  PROVE  NeverOverbilled' /\ LossExplained'
<1>1. UNCHANGED <<row, mishaps, poll>>
  BY DEF Carry, dbVars
<1>2. CASE UNCHANGED <<counter, sent>>
  <2>1. OnlyLost
    <3>1. \A m \in Node : \A e \in Entries(m) : counter[m][e] \in Nat /\ poll[m].left[e] \in Nat
      BY HeldNow
    <3>. QED BY <1>1, <1>2, <3>1 DEF OnlyLost
  <2>. QED BY <2>1, BooksKept
<1>3. ASSUME NEW c \in PerUser(n),
             counter' = [counter EXCEPT ![n] = Plus(@, <<c, u>>, 1)],
             sent' = [sent EXCEPT ![n] = Plus(@, <<c, u>>, 1)]
      PROVE  NeverOverbilled' /\ LossExplained'
  <2> DEFINE e == <<c, u>>
             h == HeldOf(counter, poll)
             k == HeldOf(counter', poll')
  <2>1. e \in Entries(n) /\ e[2] = u
    BY EntryFacts
  <2>2. /\ counter'[n] = [counter[n] EXCEPT ![e] = @ + 1] /\ sent'[n] = [sent[n] EXCEPT ![e] = @ + 1]
        /\ \A m \in Node \ {n} : counter'[m] = counter[m] /\ sent'[m] = sent[m]
    BY <1>3 DEF Shape, Plus
  <2>3. /\ Table(h) /\ \A m \in Node : \A d \in Entries(m) : h[m][d] = counter[m][d] + poll[m].left[d]
        /\ \A m \in Node : \A d \in Entries(m) : counter[m][d] \in Nat /\ poll[m].left[d] \in Nat
    BY HeldNow
  <2>4. /\ Table(k) /\ \A m \in Node : \A d \in Entries(m) : k[m][d] = counter'[m][d] + poll[m].left[d]
    BY <1>1, HeldNext
  <2>5. Table(sent) /\ Table(sent')
    BY DEF Shape
  <2>6. \A v \in User : /\ OnItsWay(v) = Worth(h, v) /\ OnItsWay(v)' = Worth(k, v)
                        /\ Bill(v) = Worth(sent, v) /\ Bill(v)' = Worth(sent', v)
    BY WayIs
  <2>. HIDE DEF e, h, k
  <2>7. /\ k[n][e] = h[n][e] + 1 /\ sent'[n][e] = sent[n][e] + 1
        /\ \A d \in Entries(n) \ {e} : h[n][d] = k[n][d] /\ sent[n][d] = sent'[n][d]
    <3>1. counter'[n][e] = counter[n][e] + 1 /\ sent'[n][e] = sent[n][e] + 1
          /\ \A d \in Entries(n) \ {e} : counter'[n][d] = counter[n][d] /\ sent'[n][d] = sent[n][d]
      BY <2>1, <2>2, <2>5 DEF Shape, Table
    <3>. QED BY <2>1, <2>3, <2>4, <3>1
  <2>8. \A m \in Node \ {n} : h[m] = k[m] /\ sent[m] = sent'[m]
    <3>1. TAKE m \in Node \ {n}
    <3>2. counter'[m] = counter[m] /\ sent'[m] = sent[m]
      BY <2>2
    <3>3. h[m] \in [Entries(m) -> Nat] /\ k[m] \in [Entries(m) -> Nat]
      BY <2>3, <2>4 DEF Table
    <3>. QED BY <2>3, <2>4, <3>2, <3>3
  <2>9. /\ Worth(h, u) + Multiplier[n] * k[n][e] = Worth(k, u) + Multiplier[n] * h[n][e]
        /\ \A v \in User \ {u} : Worth(h, v) = Worth(k, v)
    <3>. QED BY <2>1, <2>3, <2>4, <2>7, <2>8, WorthChange
  <2>10. /\ Worth(sent, u) + Multiplier[n] * sent'[n][e] = Worth(sent', u) + Multiplier[n] * sent[n][e]
         /\ \A v \in User \ {u} : Worth(sent, v) = Worth(sent', v)
    <3>. QED BY <2>1, <2>5, <2>7, <2>8, WorthChange
  <2>11. /\ Multiplier[n] \in Nat /\ h[n][e] \in Nat /\ sent[n][e] \in Nat
         /\ \A x \in Nat : Multiplier[n] * (x + 1) = Multiplier[n] * x + Multiplier[n]
         /\ \A x \in Nat : Multiplier[n] * x \in Nat
    <3>1. Multiplier[n] \in Nat
      BY TrafficAssumption
    <3>2. h[n][e] \in Nat /\ sent[n][e] \in Nat
      BY <2>1, <2>3, <2>5 DEF Table
    <3>. QED BY <3>1, <3>2
  <2>12. \A v \in User : /\ Worth(h, v) \in Nat /\ Worth(k, v) \in Nat /\ Worth(sent, v) \in Nat
                         /\ Worth(sent', v) \in Nat /\ row[v].lifetime \in Nat
    BY <2>3, <2>4, <2>5, WorthNat DEF Shape, RowType
  <2>13. Worth(k, u) = Worth(h, u) + Multiplier[n] /\ Worth(sent', u) = Worth(sent, u) + Multiplier[n]
    <3>1. /\ Multiplier[n] * k[n][e] = Multiplier[n] * h[n][e] + Multiplier[n]
          /\ Multiplier[n] * sent'[n][e] = Multiplier[n] * sent[n][e] + Multiplier[n]
          /\ Multiplier[n] * h[n][e] \in Nat /\ Multiplier[n] * sent[n][e] \in Nat
      BY <2>7, <2>11
    <3>2. /\ Worth(h, u) \in Nat /\ Worth(k, u) \in Nat /\ Worth(sent, u) \in Nat
          /\ Worth(sent', u) \in Nat /\ Multiplier[n] \in Nat
      BY <2>11, <2>12
    <3>3. \A a, b, x, y, i \in Nat : a + y = b + x /\ y = x + i => b = a + i
      OBVIOUS
    <3>4. \A a, b, x, i \in Nat : \A y : a + y = b + x /\ y = x + i => b = a + i
      BY <3>3
    <3>5. Worth(k, u) = Worth(h, u) + Multiplier[n]
      BY <2>9, <3>1, <3>2, <3>4
    <3>6. Worth(sent', u) = Worth(sent, u) + Multiplier[n]
      BY <2>10, <3>1, <3>2, <3>4
    <3>. QED BY <3>5, <3>6
  <2>14. \A v \in User : Worth(k, v) + Worth(sent, v) = Worth(h, v) + Worth(sent', v)
    <3>1. TAKE v \in User
    <3>2. CASE v = u
      <4>1. Multiplier[n] \in Nat
        BY <2>11
      <4>. QED BY <2>12, <2>13, <3>2, <4>1
    <3>3. CASE v # u
      <4>1. Worth(k, v) = Worth(h, v) /\ Worth(sent', v) = Worth(sent, v)
        BY <2>9, <2>10, <3>3
      <4>. QED BY <2>12, <4>1
    <3>. QED BY <3>2, <3>3
  <2>. QED BY <1>1, <2>6, <2>12, <2>14 DEF NeverOverbilled, LossExplained
<1>. QED
  BY <1>2, <1>3 DEF Carry

\* An upsert moves bytes from the answer to the row at the same price.
LEMMA BooksBillUser ==
  ASSUME Shape, Shape', NeverOverbilled, LossExplained, NEW n \in Node, NEW e \in Entries(n),
         BillUser(n, e)
  PROVE  NeverOverbilled' /\ LossExplained'
<1> DEFINE h == HeldOf(counter, poll)
           k == HeldOf(counter', poll')
           b == poll[n].left[e]
           u == e[2]
<1>1. UNCHANGED <<counter, sent, mishaps>>
  BY DEF BillUser, agentVars, realVars
<1>2. /\ b \in Nat /\ u \in User /\ Multiplier[n] \in Nat /\ Multiplier[n] * b \in Nat
      /\ row'[u].lifetime = row[u].lifetime + Multiplier[n] * b
      /\ \A v \in User \ {u} : row'[v] = row[v]
  <2>1. /\ row[u] \in RowType /\ Multiplier[n] * b \in Nat /\ b \in Nat /\ u \in User
        /\ row' = [row EXCEPT ![u] = Billed(row[u], Multiplier[n] * b)]
    BY BillUserIs
  <2>2. Billed(row[u], Multiplier[n] * b).lifetime = row[u].lifetime + Multiplier[n] * b
    BY <2>1, BilledIs
  <2>3. DOMAIN row = User
    BY DEF Shape
  <2>. HIDE DEF b, u
  <2>. QED BY <2>1, <2>2, <2>3, TrafficAssumption
<1>3. /\ \A m \in Node \ {n} : poll'[m] = poll[m]
      /\ poll'[n].left[e] = 0
      /\ \A d \in Entries(n) \ {e} : poll'[n].left[d] = poll[n].left[d]
  <2>1. poll'[n] = Settled(poll[n], e) /\ \A m \in Node \ {n} : poll'[m] = poll[m]
    BY BillUserIs DEF Shape
  <2>. QED BY <2>1, BillUserIs, SettledIs
<1>4. /\ Table(h) /\ \A m \in Node : \A d \in Entries(m) :
                       /\ counter[m][d] \in Nat
                       /\ h[m][d] = counter[m][d] + poll[m].left[d]
  BY HeldNow
<1>5. /\ Table(k) /\ \A m \in Node : \A d \in Entries(m) :
                       k[m][d] = counter[m][d] + poll'[m].left[d]
  BY <1>1, HeldNext
<1>6. \A v \in User : /\ OnItsWay(v) = Worth(h, v) /\ OnItsWay(v)' = Worth(k, v)
                      /\ Bill(v) = Worth(sent, v) /\ Bill(v)' = Worth(sent, v)
  BY <1>1, WayIs
<1>7. \A v \in User : /\ Worth(h, v) \in Nat /\ Worth(k, v) \in Nat /\ Worth(sent, v) \in Nat
                      /\ row[v].lifetime \in Nat
  BY <1>4, <1>5, WorthNat DEF Shape, RowType
<1>. HIDE DEF h, k
<1>8. /\ h[n][e] = k[n][e] + b /\ k[n][e] \in Nat
      /\ \A d \in Entries(n) \ {e} : h[n][d] = k[n][d]
      /\ \A m \in Node \ {n} : h[m] = k[m]
  <2>1. h[n][e] = counter[n][e] + b /\ k[n][e] = counter[n][e] + 0 /\ counter[n][e] \in Nat
    BY <1>3, <1>4, <1>5
  <2>2. \A d \in Entries(n) \ {e} : h[n][d] = k[n][d]
    BY <1>3, <1>4, <1>5
  <2>3. \A m \in Node \ {n} : h[m] = k[m]
    <3>1. TAKE m \in Node \ {n}
    <3>2. h[m] \in [Entries(m) -> Nat] /\ k[m] \in [Entries(m) -> Nat]
      BY <1>4, <1>5 DEF Table
    <3>. QED BY <1>3, <1>4, <1>5, <3>2
  <2>. HIDE DEF b
  <2>. QED BY <1>2, <2>1, <2>2, <2>3
<1>9. /\ Worth(h, u) + Multiplier[n] * k[n][e] = Worth(k, u) + Multiplier[n] * h[n][e]
      /\ \A v \in User \ {u} : Worth(h, v) = Worth(k, v)
  BY <1>4, <1>5, <1>8, WorthChange
<1>10. Worth(h, u) = Worth(k, u) + Multiplier[n] * b
  <2>. HIDE DEF b, u
  <2>1. Multiplier[n] * h[n][e] = Multiplier[n] * k[n][e] + Multiplier[n] * b
        /\ Multiplier[n] * k[n][e] \in Nat
    BY <1>2, <1>8
  <2>2. \A a, c, x, i \in Nat : \A y : a + x = c + y /\ y = x + i => a = c + i
    OBVIOUS
  <2>. QED BY <1>2, <1>7, <1>9, <2>1, <2>2
<1>11. \A v \in User : row'[v].lifetime + Worth(k, v) = row[v].lifetime + Worth(h, v)
  <2>1. TAKE v \in User
  <2>2. CASE v = u
    <3>1. Worth(k, u) \in Nat /\ row[u].lifetime \in Nat
      BY <1>2, <1>7
    <3>. HIDE DEF b, u
    <3>. QED BY <1>2, <1>10, <2>2, <3>1
  <2>3. CASE v # u
    BY <1>2, <1>9, <2>3
  <2>. QED BY <2>2, <2>3
<1>. QED
  BY <1>1, <1>6, <1>11 DEF NeverOverbilled, LossExplained

(* The poll of a node ends: what was left of its answer is no longer held. *)
LEMMA LostQuiet ==
  ASSUME Shape, NEW n \in Node, poll' = [poll EXCEPT ![n] = Quiet(n)],
         UNCHANGED <<counter, sent>>, \A u \in User : row'[u].lifetime = row[u].lifetime,
         ~(mishaps' \subseteq {"soft"}) \/ (Positive(poll[n].left) = {} /\ mishaps' = mishaps)
  PROVE  OnlyLost
<1>1. poll'[n] = Quiet(n) /\ \A m \in Node \ {n} : poll'[m] = poll[m]
  BY DEF Shape
<1>2. \A e \in Entries(n) : poll'[n].left[e] = 0
  BY <1>1, QuietIs
<1>3. \A m \in Node : \A e \in Entries(m) : counter[m][e] \in Nat /\ poll[m].left[e] \in Nat
  BY HeldNow
<1>4. \A m \in Node : \A e \in Entries(m) :
        counter'[m][e] + poll'[m].left[e] <= counter[m][e] + poll[m].left[e]
  BY <1>1, <1>2, <1>3
<1>5. ASSUME mishaps' \subseteq {"soft"}, NEW m \in Node, NEW e \in Entries(m)
      PROVE  counter'[m][e] + poll'[m].left[e] = counter[m][e] + poll[m].left[e]
  <2>1. CASE m # n
    BY <1>1, <2>1
  <2>2. CASE m = n
    <3>1. poll[n].left[e] = 0
      <4>1. DOMAIN poll[n].left = Entries(n)
        BY DEF Shape, PollOK
      <4>2. ~(poll[n].left[e] > 0)
        BY <1>5, <2>2, <4>1 DEF Positive
      <4>. QED BY <1>3, <2>2, <4>2
    <3>. QED BY <1>2, <2>2, <3>1
  <2>. QED BY <2>1, <2>2
<1>. QED
  BY <1>4, <1>5 DEF OnlyLost

\* GET /stats moves bytes from the counters to the answer, and loses only
\* those of users it does not track.
LEMMA LostReadCounters ==
  ASSUME Shape, NoKernel, Drained, NEW n \in Node, NEW failed \in SUBSET Cores[n],
         ReadCounters(n, failed)
  PROVE  OnlyLost
<1>1. /\ poll'[n].left = AnswerOf(n, failed) /\ counter'[n] = AfterRead(n, failed)
      /\ \A m \in Node \ {n} : poll'[m] = poll[m] /\ counter'[m] = counter[m]
      /\ UNCHANGED <<sent, row>> /\ (mishaps' = mishaps \/ mishaps' = mishaps \cup {"soft"})
  BY ReadCountersIs DEF Shape, Answer
<1>2. \A m \in Node : \A e \in Entries(m) : counter[m][e] \in Nat /\ poll[m].left[e] \in Nat
  BY HeldNow
<1>3. \A e \in Entries(n) : poll[n].left[e] = 0
  <2>1. poll[n].left = NoBytes(n)
    BY ReadCountersIs DEF Shape, PollOK
  <2>. QED BY <2>1 DEF NoBytes
<1>4. \A e \in Entries(n) : e[1] \in failed \/ GetStats[e[1]].drains
  <2>1. TAKE e \in Entries(n)
  <2>2. e[1] \in PerUser(n) /\ e[1] # "amneziawg"
    BY EntryFacts, CoreFacts DEF NoKernel
  <2>. QED BY <2>2, CoreFacts
<1>5. \A e \in Entries(n) :
        /\ AfterRead(n, failed)[e] = (IF e[1] \notin failed THEN 0 ELSE counter[n][e])
        /\ AnswerOf(n, failed)[e] =
             (IF e[1] \notin failed /\ e[2] \in tracked[n] THEN counter[n][e] ELSE 0)
  BY <1>4 DEF AfterRead, AnswerOf, Answers
<1>6. \A e \in Entries(n) : counter'[n][e] + poll'[n].left[e] <= counter[n][e] + poll[n].left[e]
  BY <1>1, <1>2, <1>3, <1>5
<1>7. ASSUME mishaps' \subseteq {"soft"}, NEW e \in Entries(n)
      PROVE  counter'[n][e] + poll'[n].left[e] = counter[n][e] + poll[n].left[e]
  <2>1. e[2] \notin tracked[n] => counter[n][e] = 0
    BY <1>1, <1>7 DEF Drained
  <2>. QED BY <1>1, <1>2, <1>3, <1>5, <2>1
<1>. QED
  BY <1>1, <1>2, <1>6, <1>7 DEF OnlyLost

\* Counters that only fall keep untracked users without bytes.
LEMMA DrainedKept ==
  ASSUME Shape, Shape', Drained, tracked' = tracked, mishaps \subseteq mishaps',
         \A n \in Node : \A e \in Entries(n) : counter'[n][e] <= counter[n][e]
  PROVE  Drained'
<1>1. \A n \in Node : \A e \in Entries(n) : counter'[n][e] \in Nat /\ counter[n][e] \in Nat
  BY HeldNow, HeldNext
<1>. QED
  BY <1>1 DEF Drained

\* Only tracked users move bytes.
LEMMA DrainedCarry ==
  ASSUME Shape, Drained, NEW n \in Node, NEW u \in User, Carry(n, u)
  PROVE  Drained'
<1>1. UNCHANGED <<tracked, mishaps>>
  BY DEF Carry
<1>2. CASE UNCHANGED counter
  BY <1>1, <1>2 DEF Drained
<1>3. ASSUME NEW c \in PerUser(n), u \in tracked[n],
             counter' = [counter EXCEPT ![n] = Plus(@, <<c, u>>, 1)]
      PROVE  Drained'
  <2>1. /\ counter'[n] = [counter[n] EXCEPT ![<<c, u>>] = @ + 1]
        /\ \A m \in Node \ {n} : counter'[m] = counter[m]
    BY <1>3 DEF Shape, Plus
  <2>2. \A e \in Entries(n) : e[2] \notin tracked[n] => counter'[n][e] = counter[n][e]
    <3>1. TAKE e \in Entries(n)
    <3>2. HAVE e[2] \notin tracked[n]
    <3>3. e # <<c, u>>
      BY <1>3, <3>2
    <3>4. counter[n] \in [Entries(n) -> Nat]
      BY ThroughNat
    <3>. QED BY <2>1, <3>3, <3>4
  <2>3. SUFFICES ASSUME mishaps \subseteq {"soft"}, NEW m \in Node, NEW e \in Entries(m),
                        e[2] \notin tracked[m]
                 PROVE  counter'[m][e] = 0
    BY <1>1 DEF Drained
  <2>4. counter[m][e] = 0
    BY <2>3 DEF Drained
  <2>5. counter'[m][e] = counter[m][e]
    BY <2>1, <2>2, <2>3
  <2>. QED BY <2>4, <2>5
<1>. QED
  BY <1>2, <1>3 DEF Carry

\* A change of users over unread counters leaves its mark.
LEMMA DrainedChangeUser ==
  ASSUME Shape, Drained, NEW n \in Node, NEW u \in User, ChangeUser(n, u)
  PROVE  Drained' /\ OnlyLost
<1>1. /\ counter' = [counter EXCEPT ![n] = AfterChange(n, u)]
      /\ \A e \in Entries(n) : AfterChange(n, u)[e] <= counter[n][e]
      /\ AfterChange(n, u) \in [Entries(n) -> Nat]
  BY ChangeUserIs
<1>2. counter'[n] = AfterChange(n, u) /\ \A m \in Node \ {n} : counter'[m] = counter[m]
  BY <1>1 DEF Shape
<1>3. /\ mishaps \subseteq mishaps'
      /\ mishaps' \subseteq {"soft"} =>
           counter'[n] = counter[n] /\ \A c \in PerUser(n) : ~(counter[n][<<c, u>>] > 0)
  BY DEF ChangeUser
<1>4. \A m \in Node : \A e \in Entries(m) : counter[m][e] \in Nat /\ poll[m].left[e] \in Nat
  BY HeldNow
<1>5. UNCHANGED <<poll, sent, row>>
  BY DEF ChangeUser, realVars, dbVars
<1>6. OnlyLost
  <2>1. \A e \in Entries(n) : counter'[n][e] <= counter[n][e] /\ counter'[n][e] \in Nat
    BY <1>1, <1>2
  <2>2. \A m \in Node : \A e \in Entries(m) :
          counter'[m][e] + poll'[m].left[e] <= counter[m][e] + poll[m].left[e]
    BY <1>2, <1>4, <1>5, <2>1
  <2>3. mishaps' \subseteq {"soft"} => \A m \in Node : \A e \in Entries(m) : counter'[m][e] = counter[m][e]
    BY <1>2, <1>3
  <2>. QED BY <1>3, <1>5, <2>2, <2>3 DEF OnlyLost
<1>7. Drained'
  <2>1. SUFFICES ASSUME mishaps' \subseteq {"soft"}, NEW m \in Node, NEW e \in Entries(m),
                        e[2] \notin tracked'[m]
                 PROVE  counter'[m][e] = 0
    BY DEF Drained
  <2>2. mishaps \subseteq {"soft"} /\ counter'[m] = counter[m]
    BY <1>2, <1>3, <2>1
  <2>3. CASE e[2] \notin tracked[m]
    BY <2>2, <2>3 DEF Drained
  <2>4. CASE e[2] \in tracked[m]
    <3>1. m = n /\ e[2] = u
      BY <2>1, <2>4 DEF ChangeUser, Shape
    <3>2. e = <<e[1], u>> /\ e[1] \in PerUser(n)
      BY <3>1, EntryFacts
    <3>3. ~(counter[n][e] > 0)
      BY <1>3, <2>1, <3>2
    <3>. QED BY <1>4, <2>2, <3>1, <3>3
  <2>. QED BY <2>3, <2>4
<1>. QED
  BY <1>6, <1>7

Books == NeverOverbilled /\ LossExplained /\ Drained

(* The counters and the poll stand still. *)
LEMMA BooksStill ==
  ASSUME Shape, Shape', Books, UNCHANGED <<counter, sent, tracked>>,
         \A u \in User : row'[u].lifetime = row[u].lifetime, mishaps' = mishaps,
         \A n \in Node : \A e \in Entries(n) : poll'[n].left[e] = poll[n].left[e]
  PROVE  Books'
<1>1. \A n \in Node : \A e \in Entries(n) : counter[n][e] \in Nat /\ poll[n].left[e] \in Nat
  BY HeldNow
<1>2. OnlyLost
  BY <1>1 DEF OnlyLost
<1>3. Drained'
  BY DEF Books, Drained
<1>. QED
  BY <1>2, <1>3, BooksKept DEF Books

\* Every step keeps both properties of the bills.
LEMMA BooksStep ==
  ASSUME NoKernel, Shape, Books, [Next]_vars
  PROVE  Books'
<1>1. Shape'
  BY ShapeStep
<1>2. \A n \in Node : \A e \in Entries(n) : counter[n][e] \in Nat /\ poll[n].left[e] \in Nat
  BY HeldNow
<1>3. CASE UNCHANGED vars
  BY <1>1, <1>3, BooksStill DEF vars, agentVars, realVars, dbVars
<1>4. ASSUME NEW n \in Node, NEW u \in User, Carry(n, u) PROVE Books'
  BY <1>1, <1>4, BooksCarry, DrainedCarry DEF Books
<1>5. ASSUME NEW n \in Node, NEW u \in User, ChangeUser(n, u) PROVE Books'
  BY <1>1, <1>5, DrainedChangeUser, BooksKept DEF Books
<1>6. ASSUME NEW n \in Node, NEW c \in Kinds, CoreRestarts(n, c) PROVE Books'
  <2>1. UNCHANGED <<poll, sent, row, tracked>> /\ mishaps' = mishaps \cup {"restart"}
    BY <1>6 DEF CoreRestarts, realVars, dbVars, Mishap
  <2>2. \A m \in Node : \A e \in Entries(m) : counter'[m][e] <= counter[m][e] /\ counter'[m][e] \in Nat
    BY <1>6, CoreRestartsIs
  <2>3. OnlyLost
    <3>1. \A m \in Node : \A e \in Entries(m) :
            counter'[m][e] + poll'[m].left[e] <= counter[m][e] + poll[m].left[e]
      BY <1>2, <2>1, <2>2
    <3>. QED BY <2>1, <3>1 DEF OnlyLost
  <2>. QED BY <1>1, <2>1, <2>2, <2>3, BooksKept, DrainedKept DEF Books
<1>7. ASSUME NEW n \in Node, PollFails(n) \/ BillFails(n) \/ BillNode(n) PROVE Books'
  <2>1. /\ poll' = [poll EXCEPT ![n] = Quiet(n)] /\ UNCHANGED <<counter, tracked, sent, row>>
    BY <1>7 DEF PollFails, BillFails, BillNode, agentVars, realVars, dbVars
  <2>2. \/ ~(mishaps' \subseteq {"soft"}) /\ mishaps \subseteq mishaps'
        \/ Positive(poll[n].left) = {} /\ mishaps' = mishaps
    BY <1>7 DEF PollFails, BillFails, BillNode, Mishap
  <2>3. OnlyLost
    BY <2>1, <2>2, LostQuiet
  <2>4. Drained'
    BY <2>1, <2>2 DEF Books, Drained
  <2>. QED BY <1>1, <2>3, <2>4, BooksKept DEF Books
<1>8. ASSUME NEW n \in Node, NEW failed \in SUBSET Cores[n], ReadCounters(n, failed)
      PROVE  Books'
  <2>1. OnlyLost
    BY <1>8, LostReadCounters DEF Books
  <2>2. /\ tracked' = tracked /\ mishaps \subseteq mishaps'
        /\ counter' = [counter EXCEPT ![n] = AfterRead(n, failed)]
        /\ \A e \in Entries(n) : AfterRead(n, failed)[e] <= counter[n][e]
    BY <1>8, ReadCountersIs, AnswerIs
  <2>3. \A m \in Node : \A e \in Entries(m) : counter'[m][e] <= counter[m][e]
    <3>1. counter'[n] = AfterRead(n, failed) /\ \A m \in Node \ {n} : counter'[m] = counter[m]
      BY <2>2 DEF Shape
    <3>. QED BY <1>2, <2>2, <3>1
  <2>. QED BY <1>1, <2>1, <2>2, <2>3, BooksKept, DrainedKept DEF Books
<1>9. ASSUME NEW n \in Node, NEW e \in Entries(n), BillUser(n, e) PROVE Books'
  <2>1. Drained'
    BY <1>9 DEF Books, Drained, BillUser, agentVars
  <2>. QED BY <1>1, <1>9, <2>1, BooksBillUser DEF Books
<1>10. CASE StartPoll
  <2>1. UNCHANGED <<counter, sent, tracked, row, mishaps>> /\ poll = NoPoll
    BY <1>10 DEF StartPoll, agentVars, realVars, dbVars, Shape
  <2>2. \A n \in Node : poll'[n] = Asking(n) \/ poll'[n] = Quiet(n)
    BY <1>10 DEF StartPoll
  <2>3. \A n \in Node : poll[n] = Quiet(n)
    BY <2>1 DEF NoPoll
  <2>4. \A n \in Node : poll'[n].left = poll[n].left
    BY <2>2, <2>3, QuietIs
  <2>. QED BY <1>1, <2>1, <2>4, BooksStill
<1>11. CASE PanelCrash
  <2>1. UNCHANGED <<counter, tracked, sent, row>> /\ mishaps' = mishaps \cup {"crash"}
    BY <1>11 DEF PanelCrash, agentVars, realVars, dbVars, Mishap
  <2>2. \A n \in Node : \A e \in Entries(n) : poll'[n].left[e] = 0
    BY <1>11, QuietIs DEF PanelCrash, NoPoll, NoBytes
  <2>3. \A m \in Node : \A e \in Entries(m) :
          counter'[m][e] + poll'[m].left[e] <= counter[m][e] + poll[m].left[e]
    BY <1>2, <2>1, <2>2
  <2>4. OnlyLost
    BY <2>1, <2>3 DEF OnlyLost
  <2>5. Drained'
    BY <2>1 DEF Books, Drained
  <2>. QED BY <1>1, <2>4, <2>5, BooksKept DEF Books
<1>12. CASE PollEnds \/ FindExceeded \/ MarkLimited \/ ResetTraffic
               \/ \E u \in User : UpdateUser(u)
  <2>1. Apart
    BY <1>12, PollEndsIs, FindExceededIs, MarkLimitedIs, ResetTrafficIs, UpdateUserIs
  <2>2. tracked' = tracked
    BY <1>12 DEF PollEnds, FindExceeded, MarkLimited, ResetTraffic, UpdateUser, agentVars
  <2>. QED BY <1>1, <2>1, <2>2, BooksStill DEF Apart
<1>. QED
  BY <1>3, <1>4, <1>5, <1>6, <1>7, <1>8, <1>9, <1>10, <1>11, <1>12 DEF Next, PollStep

\* Nothing is billed before anything is sent.
LEMMA BooksInit == Init => Books
<1>. SUFFICES ASSUME Init PROVE Books
  OBVIOUS
<1>1. Shape
  BY ShapeInit
<1>2. ASSUME NEW n \in Node, NEW e \in Entries(n)
      PROVE  counter[n][e] = 0 /\ poll[n].left[e] = 0 /\ sent[n][e] = 0
  BY QuietIs DEF Init, NoPoll, NoBytes
<1>3. ASSUME NEW u \in User
      PROVE  row[u].lifetime = 0 /\ OnItsWay(u) = Bill(u) /\ Bill(u) \in Nat
  <2> DEFINE h == HeldOf(counter, poll)
  <2>1. /\ Table(h) /\ \A n \in Node : \A e \in Entries(n) : h[n][e] = counter[n][e] + poll[n].left[e]
    BY <1>1, HeldNow
  <2>2. OnItsWay(u) = Worth(h, u) /\ Bill(u) = Worth(sent, u)
    BY WayIs
  <2>. HIDE DEF h
  <2>3. Table(sent) /\ row[u].lifetime = 0
    BY <1>1 DEF Shape, Init
  <2>4. \A n \in Node : h[n] = sent[n]
    <3>1. TAKE n \in Node
    <3>2. h[n] \in [Entries(n) -> Nat] /\ sent[n] \in [Entries(n) -> Nat]
      BY <2>1, <2>3 DEF Table
    <3>3. \A e \in Entries(n) : h[n][e] = sent[n][e]
      BY <1>2, <2>1
    <3>. QED BY <3>2, <3>3
  <2>5. Worth(h, u) <= Worth(sent, u) /\ Worth(sent, u) <= Worth(h, u)
    <3>1. \A n \in Node : \A e \in Entries(n) : h[n][e] <= sent[n][e] /\ sent[n][e] <= h[n][e]
      BY <2>1, <2>3, <2>4 DEF Table
    <3>. QED BY <2>1, <2>3, <3>1, WorthMonotone
  <2>6. Worth(h, u) \in Nat /\ Worth(sent, u) \in Nat
    BY <2>1, <2>3, WorthNat
  <2>. QED BY <2>2, <2>3, <2>5, <2>6
<1>4. Drained
  BY <1>2 DEF Drained
<1>. QED
  BY <1>3, <1>4 DEF Books, NeverOverbilled, LossExplained

(* Whatever fails, is repeated or restarts, nobody is billed for bytes they *)
(* did not move, on nodes whose cores are emptied by reading them; and what *)
(* the cores and the poll still hold is on nobody's bill yet.               *)
THEOREM NeverOverbilledHolds ==
  ASSUME NoKernel
  PROVE  Spec => []NeverOverbilled
<1>1. Init => Books
  BY BooksInit
<1>2. Shape /\ Books /\ [Next]_vars => Books'
  BY BooksStep
<1>3. Books => NeverOverbilled
  BY DEF Books
<1>. QED
  BY <1>1, <1>2, <1>3, ShapeHolds, PTL DEF Spec

(* Bytes escape a bill only after an answer was lost, a write failed, a     *)
(* process died, or users changed over counters that were not read.         *)
THEOREM LossExplainedHolds ==
  ASSUME NoKernel
  PROVE  Spec => []LossExplained
<1>1. Init => Books
  BY BooksInit
<1>2. Shape /\ Books /\ [Next]_vars => Books'
  BY BooksStep
<1>3. Books => LossExplained
  BY DEF Books
<1>. QED
  BY <1>1, <1>2, <1>3, ShapeHolds, PTL DEF Spec

-----------------------------------------------------------------------------
(* The books of a node: what is in its history, what the poll will add to   *)
(* it, what its cores have still to report.                                 *)
NextSnapshot(n) ==
  IF poll[n].sum = 0 /\ poll[n].total > 0 THEN poll[n].total ELSE snapshot[n]
Ungrown(n) == IF wide[n] > NextSnapshot(n) THEN wide[n] - NextSnapshot(n) ELSE 0
Balanced(n) ==
  hours[n] + Counted(n) + Total(counter[n]) + Ungrown(n) <= Through(n) + retold[n]
Ledger == \A n \in Node : Balanced(n)

\* The books of a node are naturals.
LEMMA LedgerNat ==
  ASSUME Shape, NEW n \in Node
  PROVE  /\ hours[n] \in Nat /\ Counted(n) \in Nat /\ Total(counter[n]) \in Nat
         /\ NextSnapshot(n) \in Nat /\ Ungrown(n) \in Nat /\ Through(n) \in Nat
         /\ wide[n] \in Nat /\ poll[n].sum \in Nat /\ poll[n].total \in Nat
         /\ snapshot[n] \in Nat /\ retold[n] \in Nat
<1>1. /\ hours[n] \in Nat /\ Counted(n) \in Nat /\ Total(counter[n]) \in Nat
      /\ Through(n) \in Nat /\ wide[n] \in Nat /\ snapshot[n] \in Nat
      /\ poll[n].sum \in Nat /\ poll[n].total \in Nat /\ retold[n] \in Nat
  BY CountedNat, ThroughNat DEF Shape
<1>2. NextSnapshot(n) \in Nat
  BY <1>1 DEF NextSnapshot
<1>. QED
  BY <1>1, <1>2 DEF Ungrown

(* A node whose history, poll and snapshot stand still, and that sends      *)
(* nothing.                                                                 *)
LEMMA BalancedKept ==
  ASSUME Shape, Shape', NEW n \in Node, Balanced(n),
         hours'[n] = hours[n], snapshot'[n] = snapshot[n],
         poll'[n].sum = poll[n].sum, poll'[n].total = poll[n].total,
         sent'[n] = sent[n], wideSent'[n] = wideSent[n], wide'[n] <= wide[n],
         retold'[n] = retold[n],
         \A e \in Entries(n) : counter'[n][e] <= counter[n][e]
  PROVE  Balanced(n)'
<1>1. /\ counter[n] \in [Entries(n) -> Nat] /\ counter'[n] \in [Entries(n) -> Nat]
      /\ wide[n] \in Nat /\ wide'[n] \in Nat
  BY DEF Shape, Table
<1>2. /\ Total(counter'[n]) <= Total(counter[n])
      /\ Total(counter'[n]) \in Nat
  BY <1>1, EntryFacts, TotalMonotone, TotalNat
<1>3. Counted(n)' = Counted(n) /\ NextSnapshot(n)' = NextSnapshot(n) /\ Through(n)' = Through(n)
  BY DEF Counted, Growth, NextSnapshot, Through
<1>4. Ungrown(n)' <= Ungrown(n) /\ Ungrown(n)' \in Nat
  BY <1>1, <1>3, LedgerNat DEF Ungrown
<1>. QED
  BY <1>2, <1>3, <1>4, LedgerNat DEF Balanced

(* A poll ends without a mark in the history; the snapshot may have moved.  *)
LEMMA BalancedQuiet ==
  ASSUME Shape, Shape', NEW n \in Node, Balanced(n),
         UNCHANGED <<counter, wide, sent, wideSent, retold>>, poll'[n] = Quiet(n),
         \/ hours'[n] = hours[n]
            /\ (snapshot'[n] = snapshot[n] \/ snapshot'[n] = NextSnapshot(n))
         \/ hours'[n] = hours[n] + Counted(n) /\ snapshot'[n] = NextSnapshot(n)
  PROVE  Balanced(n)'
<1>1. /\ Counted(n)' = 0 /\ NextSnapshot(n)' = snapshot'[n]
  BY QuietIs, LedgerNat DEF Counted, Growth, NextSnapshot, Shape
<1>2. Through(n)' = Through(n)
  BY DEF Through
<1>3. Ungrown(n)' = IF wide[n] > snapshot'[n] THEN wide[n] - snapshot'[n] ELSE 0
  BY <1>1 DEF Ungrown
<1>4. Ungrown(n) = IF wide[n] > NextSnapshot(n) THEN wide[n] - NextSnapshot(n) ELSE 0
  BY DEF Ungrown
<1>5. CASE snapshot'[n] = NextSnapshot(n)
  BY <1>1, <1>2, <1>3, <1>4, <1>5, LedgerNat DEF Balanced
<1>6. CASE snapshot'[n] = snapshot[n] /\ hours'[n] = hours[n]
  <2>1. Ungrown(n)' <= Counted(n) + Ungrown(n)
    <3>1. CASE poll[n].sum = 0 /\ poll[n].total > 0
      <4>1. NextSnapshot(n) = poll[n].total
        BY <3>1 DEF NextSnapshot
      <4>2. Counted(n) = IF poll[n].total > snapshot[n] THEN poll[n].total - snapshot[n] ELSE 0
        BY <3>1, LedgerNat DEF Counted, Growth
      <4>. QED BY <1>3, <1>4, <1>6, <4>1, <4>2, LedgerNat
    <3>2. CASE ~(poll[n].sum = 0 /\ poll[n].total > 0)
      <4>1. NextSnapshot(n) = snapshot[n]
        BY <3>2 DEF NextSnapshot
      <4>. QED BY <1>3, <1>4, <1>6, <4>1, LedgerNat
    <3>. QED BY <3>1, <3>2
  <2>2. Ungrown(n)' \in Nat
    BY <1>3, <1>6, LedgerNat
  <2>. QED BY <1>1, <1>2, <1>6, <2>1, <2>2, LedgerNat DEF Balanced
<1>. QED
  BY <1>5, <1>6

(* The answer of an agent without per-user bytes is the node-wide counter.  *)
LEMMA AnswerTotals ==
  ASSUME Shape, NEW n \in Node, NEW failed \in SUBSET Cores[n],
         Total(AnswerOf(n, failed)) = 0
  PROVE  TotalsOf(n, failed) \in {0, wide[n]}
<1> DEFINE f == AnswerOf(n, failed)
           T == {e \in Entries(n) : GetStats[e[1]].totals}
           r == Restrict(f, T)
<1>1. Total(r) \in Nat /\ Total(r) <= Total(f)
  <2>1. T \subseteq Entries(n) /\ r = [e \in T |-> f[e]] /\ f \in [Entries(n) -> Nat]
    BY AnswerIs DEF Restrict
  <2>. HIDE DEF f, T, r
  <2>. QED BY <2>1, EntryFacts, TotalPart
<1>2. TotalsOf(n, failed) = Total(r) + IF "mtproto" \in failed THEN 0 ELSE wide[n]
  BY DEF TotalsOf
<1>3. Total(f) = 0
  OBVIOUS
<1>. HIDE DEF f, T, r
<1>. QED
  BY <1>1, <1>2, <1>3, LedgerNat

\* GET /stats moves bytes from the counters to the answer; the totals stand in
\* for the users only when those report nothing.
LEMMA BalancedRead ==
  ASSUME NoKernel, Shape, Shape', NEW n \in Node, Balanced(n), NEW failed \in SUBSET Cores[n],
         ReadCounters(n, failed)
  PROVE  Balanced(n)'
<1> DEFINE f == AnswerOf(n, failed)
           g == AfterRead(n, failed)
<1>1. /\ poll'[n].sum = Total(f) /\ poll'[n].total = TotalsOf(n, failed)
      /\ counter'[n] = g /\ UNCHANGED <<wide, sent, wideSent, retold, hours, snapshot>>
      /\ poll[n].sum = 0 /\ poll[n].total = 0
  BY ReadCountersIs DEF Shape, Answer, PollOK
<1>2. /\ f \in [Entries(n) -> Nat] /\ g \in [Entries(n) -> Nat]
      /\ counter[n] \in [Entries(n) -> Nat]
  BY AnswerIs, ThroughNat
<1>3. \A e \in Entries(n) : f[e] + g[e] <= counter[n][e]
  <2>1. TAKE e \in Entries(n)
  <2>2. e[1] \in failed \/ GetStats[e[1]].drains
    <3>1. e[1] \in PerUser(n) /\ e[1] # "amneziawg"
      BY EntryFacts, CoreFacts DEF NoKernel
    <3>. QED BY <3>1, CoreFacts
  <2>3. counter[n][e] \in Nat
    BY <1>2
  <2>. QED BY <2>2, <2>3 DEF AnswerOf, AfterRead, Answers
<1>4. Total(f) + Total(g) <= Total(counter[n]) /\ Total(f) \in Nat /\ Total(g) \in Nat
  <2> DEFINE h == [e \in Entries(n) |-> f[e] + g[e]]
  <2>1. h \in [Entries(n) -> Nat] /\ \A e \in Entries(n) : h[e] = f[e] + g[e]
    BY <1>2
  <2>. HIDE DEF f, g, h
  <2>2. Total(h) = Total(f) + Total(g)
    BY <1>2, <2>1, EntryFacts, TotalPlus
  <2>3. Total(h) <= Total(counter[n])
    BY <1>2, <1>3, <2>1, EntryFacts, TotalMonotone
  <2>. QED BY <1>2, <2>2, <2>3, EntryFacts, TotalNat
<1>5. /\ Counted(n) = 0 /\ NextSnapshot(n) = snapshot[n] /\ Through(n)' = Through(n)
      /\ Total(counter'[n]) = Total(g)
  BY <1>1, LedgerNat DEF Counted, Growth, NextSnapshot, Through
<1>6. Ungrown(n) = IF wide[n] > snapshot[n] THEN wide[n] - snapshot[n] ELSE 0
  BY <1>5 DEF Ungrown
<1>7. Counted(n)' + Ungrown(n)' <= Total(f) + Ungrown(n)
      /\ Counted(n)' \in Nat /\ Ungrown(n)' \in Nat
  <2>1. CASE Total(f) # 0
    <3>1. Counted(n)' = Total(f) /\ NextSnapshot(n)' = snapshot[n]
      BY <1>1, <1>4, <2>1 DEF Counted, Growth, NextSnapshot
    <3>2. Ungrown(n)' = Ungrown(n)
      BY <1>1, <1>6, <3>1 DEF Ungrown
    <3>. QED BY <1>4, <3>1, <3>2, LedgerNat
  <2>2. CASE Total(f) = 0
    <3>1. TotalsOf(n, failed) \in {0, wide[n]}
      BY <2>2, AnswerTotals
    <3>2. CASE TotalsOf(n, failed) = 0
      <4>1. Counted(n)' = 0 /\ NextSnapshot(n)' = snapshot[n]
        BY <1>1, <2>2, <3>2, LedgerNat DEF Counted, Growth, NextSnapshot
      <4>2. Ungrown(n)' = Ungrown(n)
        BY <1>1, <1>6, <4>1 DEF Ungrown
      <4>. QED BY <2>2, <4>1, <4>2, LedgerNat
    <3>3. CASE TotalsOf(n, failed) = wide[n] /\ wide[n] > 0
      <4>1. /\ NextSnapshot(n)' = wide[n]
            /\ Counted(n)' = IF wide[n] > snapshot[n] THEN wide[n] - snapshot[n] ELSE 0
        BY <1>1, <2>2, <3>3, LedgerNat DEF Counted, Growth, NextSnapshot
      <4>2. Ungrown(n)' = 0
        BY <1>1, <4>1, LedgerNat DEF Ungrown
      <4>. QED BY <1>6, <2>2, <4>1, <4>2, LedgerNat
    <3>. QED BY <3>1, <3>2, <3>3, LedgerNat
  <2>. QED BY <2>1, <2>2
<1>. HIDE DEF f, g
<1>. QED
  BY <1>1, <1>4, <1>5, <1>7, LedgerNat DEF Balanced

\* A unit of traffic adds one to what is through and at most one to what is
\* counted.
LEMMA BalancedCarry ==
  ASSUME Shape, Shape', NEW n \in Node, Balanced(n), NEW u \in User, Carry(n, u)
  PROVE  Balanced(n)'
<1>1. UNCHANGED <<hours, poll, snapshot, retold>>
  BY DEF Carry, dbVars
<1>2. Counted(n)' = Counted(n) /\ NextSnapshot(n)' = NextSnapshot(n)
  BY <1>1 DEF Counted, Growth, NextSnapshot
<1>3. CASE /\ wide' = [wide EXCEPT ![n] = @ + 1] /\ wideSent' = [wideSent EXCEPT ![n] = @ + 1]
           /\ UNCHANGED <<counter, sent>>
  <2>1. wide'[n] = wide[n] + 1 /\ wideSent'[n] = wideSent[n] + 1
    BY <1>3 DEF Shape
  <2>2. Through(n)' = Through(n) + 1
    BY <1>3, <2>1, ThroughNat DEF Through
  <2>3. Ungrown(n)' <= Ungrown(n) + 1 /\ Ungrown(n)' \in Nat
    BY <1>2, <2>1, LedgerNat DEF Ungrown
  <2>. QED BY <1>1, <1>2, <1>3, <2>2, <2>3, LedgerNat DEF Balanced
<1>4. ASSUME NEW c \in PerUser(n),
             counter' = [counter EXCEPT ![n] = Plus(@, <<c, u>>, 1)],
             sent' = [sent EXCEPT ![n] = Plus(@, <<c, u>>, 1)],
             UNCHANGED <<wide, wideSent>>
      PROVE  Balanced(n)'
  <2> DEFINE e == <<c, u>>
  <2>1. e \in Entries(n)
    BY EntryFacts
  <2>2. /\ counter'[n] = [counter[n] EXCEPT ![e] = @ + 1]
        /\ sent'[n] = [sent[n] EXCEPT ![e] = @ + 1]
    BY <1>4 DEF Shape, Plus
  <2>. HIDE DEF e
  <2>3. ASSUME NEW f \in [Entries(n) -> Nat], NEW g, g = [f EXCEPT ![e] = @ + 1]
        PROVE  Total(g) = Total(f) + 1
    <3>1. g \in [Entries(n) -> Nat] /\ g[e] = f[e] + 1 /\ f[e] \in Nat
          /\ \A d \in Entries(n) \ {e} : g[d] = f[d]
      BY <2>1, <2>3
    <3>2. Total(g) + f[e] = Total(f) + g[e]
      BY <2>1, <3>1, EntryFacts, TotalChange
    <3>3. Total(g) \in Nat /\ Total(f) \in Nat
      BY <3>1, EntryFacts, TotalNat
    <3>. QED BY <3>1, <3>2, <3>3
  <2>4. /\ Total(counter'[n]) = Total(counter[n]) + 1 /\ Total(sent'[n]) = Total(sent[n]) + 1
    BY <2>2, <2>3, ThroughNat
  <2>5. Through(n)' = Through(n) + 1 /\ Ungrown(n)' = Ungrown(n)
    BY <1>2, <1>4, <2>4, ThroughNat DEF Through, Ungrown
  <2>. QED BY <1>1, <1>2, <2>4, <2>5, LedgerNat DEF Balanced
<1>. QED
  BY <1>3, <1>4 DEF Carry

\* The panel dies: what the poll held is dropped, and what the snapshot stood for
\* is to be told again.
LEMMA BalancedCrash ==
  ASSUME Shape, Shape', NEW n \in Node, Balanced(n), PanelCrash
  PROVE  Balanced(n)'
<1>1. /\ UNCHANGED <<counter, wide, sent, wideSent, hours>>
      /\ poll'[n] = Quiet(n) /\ snapshot'[n] = 0 /\ retold'[n] = retold[n] + snapshot[n]
  BY DEF PanelCrash, NoPoll, agentVars, dbVars
<1>2. Counted(n)' = 0 /\ NextSnapshot(n)' = 0 /\ Through(n)' = Through(n)
  BY <1>1, QuietIs DEF Counted, Growth, NextSnapshot, Through
<1>3. Ungrown(n)' = wide[n]
  BY <1>1, <1>2, LedgerNat DEF Ungrown
<1>4. wide[n] <= snapshot[n] + Counted(n) + Ungrown(n)
  <2>1. CASE poll[n].sum = 0 /\ poll[n].total > 0
    <3>1. NextSnapshot(n) = poll[n].total
      BY <2>1 DEF NextSnapshot
    <3>2. Counted(n) = IF poll[n].total > snapshot[n] THEN poll[n].total - snapshot[n] ELSE 0
      BY <2>1, LedgerNat DEF Counted, Growth
    <3>. QED BY <3>1, <3>2, LedgerNat DEF Ungrown
  <2>2. CASE ~(poll[n].sum = 0 /\ poll[n].total > 0)
    <3>1. NextSnapshot(n) = snapshot[n]
      BY <2>2 DEF NextSnapshot
    <3>. QED BY <3>1, LedgerNat DEF Ungrown
  <2>. QED BY <2>1, <2>2
<1>. QED
  BY <1>1, <1>2, <1>3, <1>4, LedgerNat DEF Balanced

\* Every step keeps the books of every node balanced.
LEMMA LedgerStep ==
  ASSUME NoKernel, Shape, Ledger, [Next]_vars
  PROVE  Ledger'
<1>1. Shape'
  BY ShapeStep
<1>2. ASSUME NEW n \in Node
      PROVE  /\ wide[n] \in Nat /\ counter[n] \in [Entries(n) -> Nat]
             /\ wide[n] <= wide[n]
             /\ \A e \in Entries(n) : counter[n][e] \in Nat /\ counter[n][e] <= counter[n][e]
  BY LedgerNat, ThroughNat
(* A step that moves only the poll, the history and the snapshot of a node. *)
<1>3. ASSUME NEW n \in Node, UNCHANGED <<counter, wide, sent, wideSent, retold>>,
             \A m \in Node \ {n} : /\ hours'[m] = hours[m] /\ snapshot'[m] = snapshot[m]
                                   /\ poll'[m] = poll[m],
             Balanced(n)'
      PROVE  Ledger'
  <2>1. SUFFICES ASSUME NEW m \in Node PROVE Balanced(m)'
    BY DEF Ledger
  <2>2. Balanced(m)
    BY DEF Ledger
  <2>3. CASE m = n
    BY <1>3, <2>2, <2>3
  <2>4. CASE m # n
    BY <1>1, <1>2, <1>3, <2>2, <2>4, BalancedKept
  <2>. QED BY <2>3, <2>4
(* A step that only loses what is counted. *)
<1>4. ASSUME UNCHANGED <<sent, wideSent, retold, hours, snapshot>>,
             \A m \in Node : /\ poll'[m].sum = poll[m].sum /\ poll'[m].total = poll[m].total
                             /\ wide'[m] <= wide[m]
                             /\ \A e \in Entries(m) : counter'[m][e] <= counter[m][e]
      PROVE  Ledger'
  <2>1. SUFFICES ASSUME NEW m \in Node PROVE Balanced(m)'
    BY DEF Ledger
  <2>2. Balanced(m)
    BY DEF Ledger
  <2>. QED BY <1>1, <1>4, <2>2, BalancedKept
<1>5. CASE UNCHANGED vars
  <2>1. UNCHANGED <<counter, wide, poll, sent, wideSent, retold, hours, snapshot>>
    BY <1>5 DEF vars, agentVars, realVars, dbVars
  <2>. QED BY <1>2, <1>4, <2>1
<1>6. ASSUME NEW n \in Node, NEW u \in User, Carry(n, u) PROVE Ledger'
  <2>1. SUFFICES ASSUME NEW m \in Node PROVE Balanced(m)'
    BY DEF Ledger
  <2>2. Balanced(m)
    BY DEF Ledger
  <2>3. CASE m = n
    BY <1>1, <1>6, <2>2, <2>3, BalancedCarry
  <2>4. CASE m # n
    <3>1. UNCHANGED <<hours, snapshot, poll, retold>>
      BY <1>6 DEF Carry, dbVars
    <3>2. counter'[m] = counter[m] /\ sent'[m] = sent[m] /\ wide'[m] = wide[m]
          /\ wideSent'[m] = wideSent[m]
      BY <1>6, <2>4 DEF Carry, Shape
    <3>. QED BY <1>1, <1>2, <2>2, <3>1, <3>2, BalancedKept
  <2>. QED BY <2>3, <2>4
<1>7. ASSUME NEW n \in Node, NEW u \in User, ChangeUser(n, u) PROVE Ledger'
  <2>1. /\ counter' = [counter EXCEPT ![n] = AfterChange(n, u)]
        /\ \A e \in Entries(n) : AfterChange(n, u)[e] <= counter[n][e]
    BY <1>7, ChangeUserIs
  <2>2. \A m \in Node : \A e \in Entries(m) : counter'[m][e] <= counter[m][e]
    <3>1. counter'[n] = AfterChange(n, u) /\ \A m \in Node \ {n} : counter'[m] = counter[m]
      BY <2>1 DEF Shape
    <3>. QED BY <1>2, <2>1, <3>1
  <2>3. UNCHANGED <<wide, poll, sent, wideSent, retold, hours, snapshot>>
    BY <1>7 DEF ChangeUser, realVars, dbVars
  <2>. QED BY <1>2, <1>4, <2>2, <2>3
<1>8. ASSUME NEW n \in Node, NEW c \in Kinds, CoreRestarts(n, c) PROVE Ledger'
  <2>1. UNCHANGED <<poll, sent, wideSent, retold, hours, snapshot>>
    BY <1>8 DEF CoreRestarts, realVars, dbVars
  <2>. QED BY <1>4, <1>8, <2>1, CoreRestartsIs
<1>9. ASSUME NEW n \in Node, PollFails(n) \/ BillFails(n) \/ BillNode(n) PROVE Ledger'
  <2>1. /\ poll' = [poll EXCEPT ![n] = Quiet(n)]
        /\ UNCHANGED <<counter, wide, sent, wideSent, retold>>
    BY <1>9 DEF PollFails, BillFails, BillNode, agentVars, realVars
  <2>2. \/ hours' = hours /\ (snapshot' = snapshot \/ TakeSnapshot(n))
        \/ hours' = [hours EXCEPT ![n] = @ + Counted(n)] /\ TakeSnapshot(n)
    BY <1>9 DEF PollFails, BillFails, BillNode, dbVars
  <2>3. /\ \/ hours'[n] = hours[n]
              /\ (snapshot'[n] = snapshot[n] \/ snapshot'[n] = NextSnapshot(n))
           \/ hours'[n] = hours[n] + Counted(n) /\ snapshot'[n] = NextSnapshot(n)
        /\ \A m \in Node \ {n} : hours'[m] = hours[m] /\ snapshot'[m] = snapshot[m]
    <3>1. TakeSnapshot(n) => /\ snapshot'[n] = NextSnapshot(n)
                             /\ \A m \in Node \ {n} : snapshot'[m] = snapshot[m]
      BY TakeSnapshotIs DEF NextSnapshot
    <3>. QED BY <2>2, <3>1 DEF Shape
  <2>4. poll'[n] = Quiet(n) /\ \A m \in Node \ {n} : poll'[m] = poll[m]
    BY <2>1 DEF Shape
  <2>5. Balanced(n)
    BY DEF Ledger
  <2>6. Balanced(n)'
    BY <1>1, <2>1, <2>3, <2>4, <2>5, BalancedQuiet
  <2>. QED BY <1>3, <2>1, <2>3, <2>4, <2>6
<1>10. ASSUME NEW n \in Node, NEW failed \in SUBSET Cores[n], ReadCounters(n, failed)
       PROVE  Ledger'
  <2>1. SUFFICES ASSUME NEW m \in Node PROVE Balanced(m)'
    BY DEF Ledger
  <2>2. /\ poll' = [poll EXCEPT ![n] = Answer(n, failed)]
        /\ counter' = [counter EXCEPT ![n] = AfterRead(n, failed)]
        /\ UNCHANGED <<wide, sent, wideSent, retold, hours, snapshot>>
    BY <1>10, ReadCountersIs
  <2>3. Balanced(m)
    BY DEF Ledger
  <2>4. CASE m = n
    BY <1>1, <1>10, <2>3, <2>4, BalancedRead
  <2>5. CASE m # n
    <3>1. poll'[m] = poll[m] /\ counter'[m] = counter[m]
      BY <2>2, <2>5 DEF Shape
    <3>. QED BY <1>1, <1>2, <2>2, <2>3, <3>1, BalancedKept
  <2>. QED BY <2>4, <2>5
<1>11. ASSUME NEW n \in Node, NEW e \in Entries(n), BillUser(n, e) PROVE Ledger'
  <2>1. UNCHANGED <<counter, wide, sent, wideSent, retold, hours, snapshot>>
    BY <1>11 DEF BillUser, agentVars, realVars
  <2>2. \A m \in Node : poll'[m].sum = poll[m].sum /\ poll'[m].total = poll[m].total
    <3>1. poll'[n] = Settled(poll[n], e) /\ \A m \in Node \ {n} : poll'[m] = poll[m]
      BY <1>11, BillUserIs DEF Shape
    <3>2. poll'[n].sum = poll[n].sum /\ poll'[n].total = poll[n].total
      BY <1>11, <3>1, BillUserIs, SettledIs
    <3>. QED BY <3>1, <3>2
  <2>. QED BY <1>2, <1>4, <2>1, <2>2
<1>12. CASE StartPoll
  <2>1. UNCHANGED <<counter, wide, sent, wideSent, retold, hours, snapshot>> /\ poll = NoPoll
    BY <1>12 DEF StartPoll, agentVars, realVars, dbVars, Shape
  <2>2. \A n \in Node : (poll'[n] = Asking(n) \/ poll'[n] = Quiet(n)) /\ poll[n] = Quiet(n)
    BY <1>12, <2>1 DEF StartPoll, NoPoll
  <2>3. \A n \in Node : poll'[n].sum = poll[n].sum /\ poll'[n].total = poll[n].total
    BY <2>2, QuietIs
  <2>. QED BY <1>2, <1>4, <2>1, <2>3
<1>13. CASE PanelCrash
  <2>1. SUFFICES ASSUME NEW n \in Node PROVE Balanced(n)'
    BY DEF Ledger
  <2>2. Balanced(n)
    BY DEF Ledger
  <2>. QED BY <1>1, <1>13, <2>2, BalancedCrash
<1>14. CASE PollEnds \/ FindExceeded \/ MarkLimited \/ ResetTraffic
               \/ \E u \in User : UpdateUser(u)
  <2>1. Apart
    BY <1>14, PollEndsIs, FindExceededIs, MarkLimitedIs, ResetTrafficIs, UpdateUserIs
  <2>. QED BY <1>2, <1>4, <2>1 DEF Apart
<1>. QED
  BY <1>5, <1>6, <1>7, <1>8, <1>9, <1>10, <1>11, <1>12, <1>13, <1>14 DEF Next, PollStep

-----------------------------------------------------------------------------
(* The story the history tells of the bills.                                *)
BillsOf(r) == [u \in User |-> r[u].lifetime]
LeftOf(p) == [n \in Node |-> Multiplier[n] * Total(p[n].left)]
PastOf(h, p) == [n \in Node |-> Multiplier[n] * (h[n] + p[n].sum)]
Told(r, h, p) == Total(BillsOf(r)) + Total(LeftOf(p)) <= Total(PastOf(h, p))
Story == mishaps \cap {"db", "crash"} = {} => Told(row, hours, poll)

\* The bills total a natural.
LEMMA BillsNat ==
  ASSUME NEW r \in [User -> RowType]
  PROVE  BillsOf(r) \in [User -> Nat] /\ Total(BillsOf(r)) \in Nat
<1>1. BillsOf(r) \in [User -> Nat]
  BY DEF BillsOf, RowType
<1>. QED
  BY <1>1, TotalNat, TrafficAssumption

\* Answers and histories total naturals.
LEMMA BooksNat ==
  ASSUME NEW p, \A n \in Node : PollOK(n, p[n]), NEW h \in [Node -> Nat]
  PROVE  /\ \A n \in Node : Total(p[n].left) \in Nat /\ p[n].sum \in Nat /\ Multiplier[n] \in Nat
         /\ LeftOf(p) \in [Node -> Nat] /\ Total(LeftOf(p)) \in Nat
         /\ PastOf(h, p) \in [Node -> Nat] /\ Total(PastOf(h, p)) \in Nat
<1>1. \A n \in Node : Total(p[n].left) \in Nat /\ p[n].sum \in Nat /\ Multiplier[n] \in Nat
  <2>1. TAKE n \in Node
  <2>2. p[n].left \in [Entries(n) -> Nat] /\ p[n].sum \in Nat
    BY DEF PollOK
  <2>. QED BY <2>2, EntryFacts, TotalNat, TrafficAssumption
<1>2. LeftOf(p) \in [Node -> Nat] /\ PastOf(h, p) \in [Node -> Nat]
  BY <1>1 DEF LeftOf, PastOf
<1>. QED
  BY <1>1, <1>2, TotalNat, TrafficAssumption

(* The books of one node change, and the bills with them.                   *)
LEMMA ToldNode ==
  ASSUME NEW p, \A m \in Node : PollOK(m, p[m]), NEW q, \A m \in Node : PollOK(m, q[m]),
         NEW h \in [Node -> Nat], NEW k \in [Node -> Nat],
         NEW r \in [User -> RowType], NEW s \in [User -> RowType], NEW n \in Node,
         \A m \in Node \ {n} : q[m] = p[m] /\ k[m] = h[m],
         Total(BillsOf(s)) + Multiplier[n] * Total(q[n].left) + Multiplier[n] * (h[n] + p[n].sum)
           <= Total(BillsOf(r)) + Multiplier[n] * Total(p[n].left)
              + Multiplier[n] * (k[n] + q[n].sum),
         Told(r, h, p)
  PROVE  Told(s, k, q)
<1> DEFINE a == Multiplier[n] * Total(p[n].left)
           b == Multiplier[n] * Total(q[n].left)
           c == Multiplier[n] * (h[n] + p[n].sum)
           d == Multiplier[n] * (k[n] + q[n].sum)
<1>1. /\ LeftOf(p) \in [Node -> Nat] /\ Total(LeftOf(p)) \in Nat
      /\ PastOf(h, p) \in [Node -> Nat] /\ Total(PastOf(h, p)) \in Nat
      /\ LeftOf(q) \in [Node -> Nat] /\ Total(LeftOf(q)) \in Nat
      /\ PastOf(k, q) \in [Node -> Nat] /\ Total(PastOf(k, q)) \in Nat
  BY BooksNat
<1>2. LeftOf(p)[n] = a /\ LeftOf(q)[n] = b /\ PastOf(h, p)[n] = c /\ PastOf(k, q)[n] = d
  BY DEF LeftOf, PastOf
<1>3. /\ \A m \in Node \ {n} : LeftOf(q)[m] = LeftOf(p)[m]
      /\ \A m \in Node \ {n} : PastOf(k, q)[m] = PastOf(h, p)[m]
  BY DEF LeftOf, PastOf
<1>4. Total(BillsOf(s)) + b + c <= Total(BillsOf(r)) + a + d
  OBVIOUS
<1>. HIDE DEF a, b, c, d
<1>5. Total(LeftOf(q)) + a = Total(LeftOf(p)) + b
  BY <1>1, <1>2, <1>3, TotalChange, TrafficAssumption
<1>6. Total(PastOf(k, q)) + c = Total(PastOf(h, p)) + d
  BY <1>1, <1>2, <1>3, TotalChange, TrafficAssumption
<1>7. a \in Nat /\ b \in Nat /\ c \in Nat /\ d \in Nat
  BY <1>1, <1>2
<1>8. Total(BillsOf(r)) \in Nat /\ Total(BillsOf(s)) \in Nat
  BY BillsNat
<1>. QED
  BY <1>1, <1>4, <1>5, <1>6, <1>7, <1>8 DEF Told

(* What a change of the poll of one node leaves of the story.               *)
LEMMA StoryNode ==
  ASSUME Shape, Shape', Story, NEW n \in Node, mishaps \subseteq mishaps', row' = row,
         \A m \in Node \ {n} : poll'[m] = poll[m] /\ hours'[m] = hours[m],
         mishaps' \cap {"db", "crash"} = {} =>
           Multiplier[n] * Total(poll'[n].left) + Multiplier[n] * (hours[n] + poll[n].sum)
             <= Multiplier[n] * Total(poll[n].left) + Multiplier[n] * (hours'[n] + poll'[n].sum)
  PROVE  Story'
<1>1. SUFFICES ASSUME mishaps' \cap {"db", "crash"} = {} PROVE Told(row', hours', poll')
  BY DEF Story
<1>2. Told(row, hours, poll)
  BY <1>1 DEF Story
<1>3. /\ \A m \in Node : PollOK(m, poll[m]) /\ PollOK(m, poll'[m])
      /\ hours \in [Node -> Nat] /\ hours' \in [Node -> Nat]
      /\ row \in [User -> RowType] /\ row' \in [User -> RowType]
  BY DEF Shape
<1> DEFINE a == Multiplier[n] * Total(poll[n].left)
           b == Multiplier[n] * Total(poll'[n].left)
           c == Multiplier[n] * (hours[n] + poll[n].sum)
           d == Multiplier[n] * (hours'[n] + poll'[n].sum)
<1>4. a \in Nat /\ b \in Nat /\ c \in Nat /\ d \in Nat
  <2>1. /\ Total(poll[n].left) \in Nat /\ poll[n].sum \in Nat /\ Multiplier[n] \in Nat
        /\ Total(poll'[n].left) \in Nat /\ poll'[n].sum \in Nat
    BY <1>3, BooksNat
  <2>. QED BY <1>3, <2>1
<1>5. b + c <= a + d /\ Total(BillsOf(row)) \in Nat
  BY <1>1, <1>3, BillsNat
<1>6. Total(BillsOf(row)) + b + c <= Total(BillsOf(row)) + a + d
  <2>. HIDE DEF a, b, c, d
  <2>. QED BY <1>4, <1>5
<1>7. Told(row, hours', poll')
  <2>1. \A m \in Node \ {n} : poll'[m] = poll[m] /\ hours'[m] = hours[m]
    OBVIOUS
  <2>. QED BY <1>2, <1>3, <1>6, <2>1, ToldNode
<1>. QED
  BY <1>7

\* Steps that move neither bills nor books keep the story.
LEMMA StoryStill ==
  ASSUME Shape, Story, hours' = hours, mishaps \subseteq mishaps',
         \A u \in User : row'[u].lifetime = row[u].lifetime,
         \A n \in Node : poll'[n].left = poll[n].left /\ poll'[n].sum = poll[n].sum
  PROVE  Story'
<1>1. LeftOf(poll') = LeftOf(poll) /\ PastOf(hours', poll') = PastOf(hours, poll)
  BY DEF LeftOf, PastOf
<1>2. BillsOf(row') = BillsOf(row)
  BY DEF BillsOf
<1>. QED
  BY <1>1, <1>2 DEF Story, Told

\* Multiplication distributes over addition.
LEMMA Distributes ==
  ASSUME NEW k \in Nat, NEW a \in Nat, NEW b \in Nat
  PROVE  k * (a + b) = k * a + k * b /\ k * a \in Nat /\ k * b \in Nat /\ k * 0 = 0
OBVIOUS

\* A sum may move from the answer to the history and back.
LEMMA OnTop ==
  ASSUME NEW k \in Nat, NEW t \in Nat, NEW b \in Nat
  PROVE  /\ k * 0 + k * (t + b) <= k * b + k * (t + 0)
         /\ k * b + k * (t + 0) <= k * 0 + k * (t + b)
BY Distributes

\* An upsert moves bytes from the answer to a bill: the history counts them
\* already.
LEMMA StoryBillUser ==
  ASSUME Shape, Shape', Story, NEW n \in Node, NEW e \in Entries(n), BillUser(n, e)
  PROVE  Story'
<1> DEFINE b == poll[n].left[e]
           u == e[2]
<1>1. UNCHANGED <<hours, mishaps>>
  BY DEF BillUser
<1>2. /\ b \in Nat /\ u \in User /\ Multiplier[n] \in Nat /\ Multiplier[n] * b \in Nat
      /\ row'[u].lifetime = row[u].lifetime + Multiplier[n] * b
      /\ \A v \in User \ {u} : row'[v] = row[v]
  <2>1. /\ row[u] \in RowType /\ Multiplier[n] * b \in Nat /\ b \in Nat /\ u \in User
        /\ row' = [row EXCEPT ![u] = Billed(row[u], Multiplier[n] * b)]
    BY BillUserIs
  <2>2. Billed(row[u], Multiplier[n] * b).lifetime = row[u].lifetime + Multiplier[n] * b
    BY <2>1, BilledIs
  <2>3. DOMAIN row = User
    BY DEF Shape
  <2>. HIDE DEF b, u
  <2>. QED BY <2>1, <2>2, <2>3, TrafficAssumption
<1>3. /\ \A m \in Node \ {n} : poll'[m] = poll[m]
      /\ poll'[n].sum = poll[n].sum /\ poll'[n].left[e] = 0
      /\ \A d \in Entries(n) \ {e} : poll'[n].left[d] = poll[n].left[d]
  <2>1. poll'[n] = Settled(poll[n], e) /\ \A m \in Node \ {n} : poll'[m] = poll[m]
    BY BillUserIs DEF Shape
  <2>. QED BY <2>1, BillUserIs, SettledIs
<1>4. /\ \A m \in Node : PollOK(m, poll[m]) /\ PollOK(m, poll'[m])
      /\ hours \in [Node -> Nat] /\ row \in [User -> RowType] /\ row' \in [User -> RowType]
  BY DEF Shape
<1>5. /\ poll[n].left \in [Entries(n) -> Nat] /\ poll'[n].left \in [Entries(n) -> Nat]
      /\ Total(poll[n].left) \in Nat /\ Total(poll'[n].left) \in Nat /\ poll[n].sum \in Nat
      /\ hours[n] \in Nat
  <2>1. PollOK(n, poll[n]) /\ PollOK(n, poll'[n])
    BY <1>4
  <2>. QED BY <1>4, <2>1, EntryFacts, TotalNat DEF PollOK
<1>6. Total(poll[n].left) = Total(poll'[n].left) + b
  <2>1. Total(poll'[n].left) + poll[n].left[e] = Total(poll[n].left) + poll'[n].left[e]
    BY <1>3, <1>5, EntryFacts, TotalChange
  <2>. QED BY <1>2, <1>3, <1>5, <2>1
<1>7. Total(BillsOf(row')) = Total(BillsOf(row)) + Multiplier[n] * b
  <2>1. BillsOf(row) \in [User -> Nat] /\ BillsOf(row') \in [User -> Nat]
        /\ Total(BillsOf(row)) \in Nat /\ Total(BillsOf(row')) \in Nat
    BY <1>4, BillsNat
  <2>2. /\ BillsOf(row)[u] = row[u].lifetime /\ BillsOf(row')[u] = row'[u].lifetime
        /\ \A v \in User \ {u} : BillsOf(row')[v] = BillsOf(row)[v]
    <3>. HIDE DEF u, b
    <3>. QED BY <1>2 DEF BillsOf
  <2>3. Total(BillsOf(row')) + row[u].lifetime = Total(BillsOf(row)) + row'[u].lifetime
    <3>. HIDE DEF u, b
    <3>. QED BY <1>2, <2>1, <2>2, TotalChange, TrafficAssumption
  <2>4. row[u].lifetime \in Nat
    BY <1>2, <1>4 DEF RowType
  <2>5. \A i, j, l, z \in Nat : i + l = j + (l + z) => i = j + z
    OBVIOUS
  <2>6. Total(BillsOf(row')) + row[u].lifetime
          = Total(BillsOf(row)) + (row[u].lifetime + Multiplier[n] * b)
    <3>. HIDE DEF u, b
    <3>. QED BY <1>2, <2>3
  <2> DEFINE before == Total(BillsOf(row))
             after  == Total(BillsOf(row'))
             paid   == row[u].lifetime
             due    == Multiplier[n] * b
  <2>7. before \in Nat /\ after \in Nat /\ paid \in Nat /\ due \in Nat
    <3>. HIDE DEF u, b
    <3>. QED BY <1>2, <2>1, <2>4
  <2>8. after + paid = before + (paid + due)
    BY <2>6
  <2>9. after = before + due
    <3>. HIDE DEF before, after, paid, due
    <3>. QED BY <2>5, <2>7, <2>8
  <2>. QED BY <2>9
<1> DEFINE x == Multiplier[n] * Total(poll'[n].left)
           y == Multiplier[n] * (hours[n] + poll[n].sum)
           z == Multiplier[n] * b
<1>8. x \in Nat /\ y \in Nat /\ z \in Nat /\ Multiplier[n] * Total(poll[n].left) = x + z
  <2>. HIDE DEF b
  <2>. QED BY <1>2, <1>5, <1>6, Distributes
<1>9. Total(BillsOf(row)) \in Nat
  BY <1>4, BillsNat
<1>10. Total(BillsOf(row')) + x + y <= Total(BillsOf(row)) + (x + z) + y
  <2>. HIDE DEF x, y
  <2>. HIDE DEF b, u
  <2>. QED BY <1>7, <1>8, <1>9
<1>11. Total(BillsOf(row')) + Multiplier[n] * Total(poll'[n].left)
         + Multiplier[n] * (hours[n] + poll[n].sum)
       <= Total(BillsOf(row)) + Multiplier[n] * Total(poll[n].left)
          + Multiplier[n] * (hours[n] + poll'[n].sum)
  <2>1. Multiplier[n] * (hours[n] + poll'[n].sum) = y
    BY <1>3
  <2>. HIDE DEF z, b, u
  <2>. QED BY <1>8, <1>10, <2>1
<1>12. ASSUME Told(row, hours, poll) PROVE Told(row', hours, poll')
  <2>. HIDE DEF x, y, z, b, u
  <2>1. \A m \in Node \ {n} : poll'[m] = poll[m] /\ hours[m] = hours[m]
    BY <1>3
  <2>. QED BY <1>4, <1>11, <1>12, <2>1, ToldNode
<1>. QED
  BY <1>1, <1>12 DEF Story

(* What the other steps of a poll do to the books of their node.            *)
LEMMA StoryPoll ==
  ASSUME Shape, Shape', Story, NEW n \in Node,
         \/ PollFails(n) \/ BillFails(n) \/ BillNode(n)
         \/ \E failed \in SUBSET Cores[n] : ReadCounters(n, failed)
  PROVE  Story'
<1>1. /\ \A m \in Node : PollOK(m, poll[m]) /\ PollOK(m, poll'[m])
      /\ hours \in [Node -> Nat] /\ hours' \in [Node -> Nat]
  BY DEF Shape
<1>2. /\ Total(poll[n].left) \in Nat /\ Total(poll'[n].left) \in Nat /\ poll[n].sum \in Nat
      /\ poll'[n].sum \in Nat /\ hours[n] \in Nat /\ hours'[n] \in Nat /\ Multiplier[n] \in Nat
  BY <1>1, BooksNat
<1>3. Total(NoBytes(n)) = 0
  BY QuietIs, EntryFacts, TotalOfZeros
<1>4. CASE PollFails(n)
  <2>1. /\ poll' = [poll EXCEPT ![n] = Quiet(n)] /\ UNCHANGED <<hours, row>>
        /\ mishaps \subseteq mishaps'
        /\ poll[n].at = "ask" \/ Total(poll[n].left) = poll[n].sum
    BY <1>4 DEF PollFails, Mishap, dbVars
  <2>2. /\ poll'[n] = Quiet(n) /\ \A m \in Node \ {n} : poll'[m] = poll[m]
    BY <2>1 DEF Shape
  <2>3. Total(poll'[n].left) = 0 /\ poll'[n].sum = 0
    BY <1>3, <2>2, QuietIs
  <2>4. Total(poll[n].left) = poll[n].sum
    <3>1. PollOK(n, poll[n])
      BY <1>1
    <3>. QED BY <1>3, <2>1, <3>1 DEF PollOK
  <2>5. Multiplier[n] * Total(poll'[n].left) + Multiplier[n] * (hours[n] + poll[n].sum)
        <= Multiplier[n] * Total(poll[n].left) + Multiplier[n] * (hours'[n] + poll'[n].sum)
    <3>1. hours'[n] = hours[n]
      BY <2>1
    <3>. QED BY <1>2, <2>3, <2>4, <3>1, OnTop
  <2>. QED BY <2>1, <2>2, <2>5, StoryNode
<1>5. CASE BillFails(n)
  <2>1. "db" \in mishaps'
    BY <1>5 DEF BillFails, Mishap
  <2>. QED BY <2>1 DEF Story
<1>6. CASE BillNode(n)
  <2>1. /\ poll' = [poll EXCEPT ![n] = Quiet(n)] /\ UNCHANGED <<row, mishaps>>
        /\ hours' = [hours EXCEPT ![n] = @ + Counted(n)] /\ Positive(poll[n].left) = {}
    BY <1>6 DEF BillNode
  <2>2. /\ poll'[n] = Quiet(n) /\ \A m \in Node \ {n} : poll'[m] = poll[m] /\ hours'[m] = hours[m]
        /\ hours'[n] = hours[n] + Counted(n)
    BY <1>1, <2>1 DEF Shape
  <2>3. Total(poll'[n].left) = 0 /\ poll'[n].sum = 0
    BY <1>3, <2>2, QuietIs
  <2>4. Total(poll[n].left) = 0
    <3>1. poll[n].left \in [Entries(n) -> Nat]
      BY <1>1 DEF PollOK
    <3>2. \A e \in Entries(n) : poll[n].left[e] = 0
      BY <2>1, <3>1 DEF Positive
    <3>3. poll[n].left \in [Entries(n) -> {0}]
      BY <3>1, <3>2
    <3>. QED BY <3>3, EntryFacts, TotalOfZeros
  <2>5. hours[n] + poll[n].sum <= hours'[n] + poll'[n].sum
    BY <1>2, <2>2, <2>3, CountedNat DEF Counted
  <2>6. Multiplier[n] * (hours[n] + poll[n].sum) <= Multiplier[n] * (hours'[n] + poll'[n].sum)
    <3>1. hours[n] + poll[n].sum \in Nat /\ hours'[n] + poll'[n].sum \in Nat
      BY <1>2
    <3>. QED BY <1>2, <2>5, <3>1, Times
  <2>7. Multiplier[n] * Total(poll'[n].left) = 0 /\ Multiplier[n] * Total(poll[n].left) = 0
    BY <1>2, <2>3, <2>4, Distributes
  <2>8. /\ Multiplier[n] * (hours[n] + poll[n].sum) \in Nat
        /\ Multiplier[n] * (hours'[n] + poll'[n].sum) \in Nat
    BY <1>2, Distributes
  <2>9. Multiplier[n] * Total(poll'[n].left) + Multiplier[n] * (hours[n] + poll[n].sum)
        <= Multiplier[n] * Total(poll[n].left) + Multiplier[n] * (hours'[n] + poll'[n].sum)
    BY <2>6, <2>7, <2>8
  <2>. QED BY <2>1, <2>2, <2>9, StoryNode
<1>7. ASSUME NEW failed \in SUBSET Cores[n], ReadCounters(n, failed) PROVE Story'
  <2>1. /\ poll' = [poll EXCEPT ![n] = Answer(n, failed)] /\ UNCHANGED <<hours, row>>
        /\ mishaps \subseteq mishaps' /\ poll[n].at = "ask"
    BY <1>7, ReadCountersIs
  <2>2. /\ poll'[n] = Answer(n, failed) /\ \A m \in Node \ {n} : poll'[m] = poll[m]
    BY <2>1 DEF Shape
  <2>3. Total(poll'[n].left) = poll'[n].sum
    BY <2>2 DEF Answer
  <2>4. Total(poll[n].left) = 0 /\ poll[n].sum = 0
    <3>1. PollOK(n, poll[n])
      BY <1>1
    <3>. QED BY <1>3, <2>1, <3>1 DEF PollOK
  <2>5. Multiplier[n] * Total(poll'[n].left) + Multiplier[n] * (hours[n] + poll[n].sum)
        <= Multiplier[n] * Total(poll[n].left) + Multiplier[n] * (hours'[n] + poll'[n].sum)
    <3>1. hours'[n] = hours[n]
      BY <2>1
    <3>. QED BY <1>2, <2>3, <2>4, <3>1, OnTop
  <2>. QED BY <2>1, <2>2, <2>5, StoryNode
<1>. QED
  BY <1>4, <1>5, <1>6, <1>7

\* Every step keeps the history's story of the bills.
LEMMA StoryStep ==
  ASSUME Shape, Story, [Next]_vars
  PROVE  Story'
<1>1. Shape'
  BY ShapeStep
<1>2. CASE UNCHANGED vars
  <2>1. UNCHANGED <<row, hours, poll, mishaps>>
    BY <1>2 DEF vars, dbVars
  <2>. QED BY <2>1, StoryStill
<1>3. ASSUME NEW n \in Node, NEW u \in User, Carry(n, u) \/ ChangeUser(n, u) PROVE Story'
  <2>1. UNCHANGED <<row, hours, poll>> /\ mishaps \subseteq mishaps'
    BY <1>3 DEF Carry, ChangeUser, dbVars
  <2>. QED BY <2>1, StoryStill
<1>4. ASSUME NEW n \in Node, NEW c \in Kinds, CoreRestarts(n, c) PROVE Story'
  <2>1. UNCHANGED <<row, hours, poll>> /\ mishaps \subseteq mishaps'
    BY <1>4 DEF CoreRestarts, dbVars, Mishap
  <2>. QED BY <2>1, StoryStill
<1>5. ASSUME NEW n \in Node,
             \/ PollFails(n) \/ BillFails(n) \/ BillNode(n)
             \/ \E failed \in SUBSET Cores[n] : ReadCounters(n, failed)
      PROVE  Story'
  BY <1>1, <1>5, StoryPoll
<1>6. ASSUME NEW n \in Node, NEW e \in Entries(n), BillUser(n, e) PROVE Story'
  BY <1>1, <1>6, StoryBillUser
<1>7. CASE StartPoll
  <2>1. UNCHANGED <<row, hours, mishaps>> /\ poll = NoPoll
    BY <1>7 DEF StartPoll, dbVars, Shape
  <2>2. \A n \in Node : (poll'[n] = Asking(n) \/ poll'[n] = Quiet(n)) /\ poll[n] = Quiet(n)
    BY <1>7, <2>1 DEF StartPoll, NoPoll
  <2>3. \A n \in Node : poll'[n].left = poll[n].left /\ poll'[n].sum = poll[n].sum
    BY <2>2, QuietIs
  <2>. QED BY <2>1, <2>3, StoryStill
<1>8. CASE PanelCrash
  <2>1. "crash" \in mishaps'
    BY <1>8 DEF PanelCrash, Mishap
  <2>. QED BY <2>1 DEF Story
<1>9. CASE PollEnds \/ FindExceeded \/ MarkLimited \/ ResetTraffic
               \/ \E u \in User : UpdateUser(u)
  <2>1. Apart
    BY <1>9, PollEndsIs, FindExceededIs, MarkLimitedIs, ResetTrafficIs, UpdateUserIs
  <2>. QED BY <2>1, StoryStill DEF Apart
<1>. QED
  BY <1>2, <1>3, <1>4, <1>5, <1>6, <1>7, <1>8, <1>9 DEF Next, PollStep

\* Empty books tell an empty story.
LEMMA HistoryInit == Init => Ledger /\ Story
<1>. SUFFICES ASSUME Init PROVE Ledger /\ Story
  OBVIOUS
<1>1. Shape
  BY ShapeInit
<1>2. ASSUME NEW n \in Node
      PROVE  /\ counter[n] = NoBytes(n) /\ sent[n] = NoBytes(n) /\ poll[n] = Quiet(n)
             /\ wide[n] = 0 /\ wideSent[n] = 0 /\ snapshot[n] = 0 /\ hours[n] = 0
             /\ retold[n] = 0
             /\ Total(NoBytes(n)) = 0
  <2>1. Total(NoBytes(n)) = 0
    BY QuietIs, EntryFacts, TotalOfZeros
  <2>. QED BY <2>1 DEF Init, NoPoll
<1>3. \A n \in Node : Balanced(n)
  <2>1. TAKE n \in Node
  <2>2. poll[n].sum = 0 /\ poll[n].total = 0
    BY <1>2, QuietIs
  <2>3. Counted(n) = 0 /\ NextSnapshot(n) = 0 /\ Through(n) = 0
    BY <1>2, <2>2 DEF Counted, Growth, NextSnapshot, Through
  <2>. QED BY <1>2, <2>3 DEF Balanced, Ungrown
<1>4. Told(row, hours, poll)
  <2>1. \A n \in Node : Multiplier[n] \in Nat /\ Multiplier[n] * 0 = 0
    BY TrafficAssumption
  <2>2. BillsOf(row) \in [User -> {0}]
    BY DEF Init, BillsOf
  <2>3. \A n \in Node : Total(poll[n].left) = 0 /\ hours[n] + poll[n].sum = 0
    BY <1>2, QuietIs
  <2>4. LeftOf(poll) \in [Node -> {0}] /\ PastOf(hours, poll) \in [Node -> {0}]
    BY <2>1, <2>3 DEF LeftOf, PastOf
  <2>. QED BY <2>2, <2>4, TotalOfZeros, TrafficAssumption DEF Told
<1>. QED
  BY <1>3, <1>4 DEF Ledger, Story

\* The balanced books and the story are what the property says.
LEMMA HistoryFollows ==
  ASSUME Shape, Ledger, Story
  PROVE  HistoryExplained
<1>1. ASSUME NEW n \in Node PROVE hours[n] <= Through(n) + retold[n]
  BY LedgerNat DEF Ledger, Balanced
<1>2. ASSUME mishaps \cap {"db", "crash"} = {}
      PROVE  Total([u \in User |-> row[u].lifetime])
               <= Total([n \in Node |-> Multiplier[n] * (hours[n] + poll[n].sum)])
  <2>1. Total(BillsOf(row)) + Total(LeftOf(poll)) <= Total(PastOf(hours, poll))
    BY <1>2 DEF Story, Told
  <2>3. /\ Total(BillsOf(row)) \in Nat /\ Total(LeftOf(poll)) \in Nat
        /\ Total(PastOf(hours, poll)) \in Nat
    <3>1. (\A n \in Node : PollOK(n, poll[n])) /\ hours \in [Node -> Nat] /\ row \in [User -> RowType]
      BY DEF Shape
    <3>. QED BY <3>1, BillsNat, BooksNat
  <2>4. Total(BillsOf(row)) <= Total(PastOf(hours, poll))
    BY <2>1, <2>3
  <2>. QED BY <2>4 DEF BillsOf, PastOf
<1>. QED
  BY <1>1, <1>2 DEF HistoryExplained

(* The hourly history of a node never shows more than went through it and   *)
(* the totals whose snapshots died with a panel, crashes included; and it   *)
(* holds at least what all users were billed for until a write fails or the *)
(* panel dies (stats.cron.ts).                                              *)
THEOREM HistoryExplainedHolds ==
  ASSUME NoKernel
  PROVE  Spec => []HistoryExplained
<1>1. Init => Ledger /\ Story
  BY HistoryInit
<1>2. Shape /\ Ledger /\ Story /\ [Next]_vars => Ledger' /\ Story'
  BY LedgerStep, StoryStep
<1>3. Shape /\ Ledger /\ Story => HistoryExplained
  BY HistoryFollows
<1>. QED
  BY <1>1, <1>2, <1>3, ShapeHolds, PTL DEF Spec
=============================================================================
