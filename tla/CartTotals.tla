------------------------------ MODULE CartTotals ------------------------------
(***************************************************************************)
(* What Cart's proofs need to know of the total of a cart, which is a fold *)
(* over the set of its lines: that it is a natural number, and that each   *)
(* line adds its amount to it.  A property of all sets of lines is shown   *)
(* by induction over the subsets of a finite set, stated for the SET of    *)
(* those that have the property.                                           *)
(***************************************************************************)
EXTENDS Cart, FiniteSetTheorems, TLAPS

-----------------------------------------------------------------------------

\* Induction over the subsets of a finite set, for a property given as the set of those that have it.
LEMMA SubsetInduction ==
  ASSUME NEW S, IsFiniteSet(S), NEW Good,
         \A T \in SUBSET S : (\A x \in T : T \ {x} \in Good) => T \in Good
  PROVE  \A T \in SUBSET S : T \in Good
  <1> DEFINE bad == {T \in SUBSET S : T \notin Good}
  <1>1. SUFFICES ASSUME bad # {} PROVE FALSE
    OBVIOUS
  <1>2. bad \subseteq FiniteSubsetsOf(S)
    BY FS_Subset DEF FiniteSubsetsOf
  <1>3. PICK T \in bad : \A U \in bad : <<U, T>> \notin StrictSubsetOrdering(S)
    BY <1>1, <1>2, FS_StrictSubsetOrderingWellFounded, WFMin
  <1>4. ASSUME NEW x \in T PROVE T \ {x} \in Good
    <2>1. PICK u : u = T \ {x}
      OBVIOUS
    <2>2. u \in SUBSET S /\ u \subseteq T /\ u # T
      BY <2>1
    <2>3. <<u, T>> \in StrictSubsetOrdering(S)
      BY <2>2 DEF StrictSubsetOrdering
    <2>4. QED
      BY <1>3, <2>1, <2>2, <2>3
  <1>5. QED
    BY <1>3, <1>4

\* The element that a sum over s takes next.
Taken(s) == CHOOSE id \in s : TRUE

LEMMA TakenIs == \A s : s # {} => Taken(s) \in s
  BY DEF Taken

-----------------------------------------------------------------------------
(* Tables of sums: what a fold over lines has for each set of them.        *)

\* What a line costs.
Amount(ls, id) == Price[ls[id].item] * ls[id].quantity

\* What the table of sums g has for s.
SumAt(ls, g, s) == IF s = {} THEN 0 ELSE Amount(ls, Taken(s)) + g[s \ {Taken(s)}]

\* The sums of all sets of lines in S.
IsSum(ls, g, S) == g = [s \in SUBSET S |-> SumAt(ls, g, s)]

LEMMA SumRule == \A ls, S, g, s : IsSum(ls, g, S) /\ s \in SUBSET S => g[s] = SumAt(ls, g, s)
  <1> SUFFICES ASSUME NEW ls, NEW S, NEW g, NEW s, IsSum(ls, g, S), s \in SUBSET S PROVE g[s] = SumAt(ls, g, s)
    OBVIOUS
  <1> DEFINE h == [t \in SUBSET S |-> SumAt(ls, g, t)]
  <1>1. g = h
    BY DEF IsSum
  <1>2. h[s] = SumAt(ls, g, s)
    OBVIOUS
  <1> HIDE DEF h
  <1>3. QED
    BY <1>1, <1>2

\* Two such tables agree on a set of lines that both have and that cost the same in both.
LEMMA SumsAgree ==
  ASSUME NEW ls, NEW ms, NEW A, NEW B, NEW g, NEW h, IsSum(ls, g, A), IsSum(ms, h, B),
         NEW S, IsFiniteSet(S), S \subseteq A, S \subseteq B, \A id \in S : Amount(ls, id) = Amount(ms, id)
  PROVE  g[S] = h[S]
  <1> DEFINE Good == {s \in SUBSET S : g[s] = h[s]}
  <1>1. ASSUME NEW s \in SUBSET S, \A x \in s : s \ {x} \in Good PROVE s \in Good
    <2>0. /\ g[s] = SumAt(ls, g, s)
          /\ h[s] = SumAt(ms, h, s)
      <3>1. s \in SUBSET A /\ s \in SUBSET B
        OBVIOUS
      <3>2. QED
        BY <3>1, SumRule
    <2>1. CASE s = {}
      BY <2>0, <2>1 DEF SumAt
    <2>2. CASE s # {}
      <3>1. PICK x : x = Taken(s)
        OBVIOUS
      <3>2. x \in s /\ s \ {x} \in Good
        BY <1>1, <2>2, <3>1, TakenIs
      <3>3. g[s] = Amount(ls, x) + g[s \ {x}] /\ h[s] = Amount(ms, x) + h[s \ {x}]
        BY <2>0, <2>2, <3>1 DEF SumAt
      <3>4. QED
        BY <3>2, <3>3
    <2>3. QED
      BY <2>1, <2>2
  <1>2. \A s \in SUBSET S : s \in Good
    <2> HIDE DEF Good
    <2>1. QED
      BY <1>1, SubsetInduction
  <1>3. QED
    BY <1>2

LEMMA SumsExist ==
  ASSUME NEW ls, NEW S, IsFiniteSet(S)
  PROVE  \E g : IsSum(ls, g, S)
  <1> DEFINE Good == {s \in SUBSET S : \E g : IsSum(ls, g, s)}
  <1>1. ASSUME NEW T \in SUBSET S, \A x \in T : T \ {x} \in Good PROVE T \in Good
    <2> DEFINE Has(u, v) == \E x \in T : \E g : u \subseteq T \ {x} /\ IsSum(ls, g, T \ {x}) /\ v = g[u]
               Value(u) == CHOOSE v : Has(u, v)
               h == [s \in SUBSET T |-> IF s = {} THEN 0 ELSE Amount(ls, Taken(s)) + Value(s \ {Taken(s)})]
    <2>1. ASSUME NEW u \in SUBSET T, u # T PROVE \E v : Has(u, v)
      <3>1. PICK x \in T : x \notin u
        BY <2>1
      <3>2. PICK g : IsSum(ls, g, T \ {x})
        BY <1>1
      <3>3. u \subseteq T \ {x}
        BY <3>1
      <3>4. QED
        BY <3>2, <3>3
    <2>2. ASSUME NEW u \in SUBSET T, NEW v, NEW w, Has(u, v), Has(u, w) PROVE v = w
      <3>1. IsFiniteSet(u)
        BY FS_Subset
      <3>2. PICK x, g : x \in T /\ u \subseteq T \ {x} /\ IsSum(ls, g, T \ {x}) /\ v = g[u]
        BY <2>2
      <3>3. PICK y, k : y \in T /\ u \subseteq T \ {y} /\ IsSum(ls, k, T \ {y}) /\ w = k[u]
        BY <2>2
      <3>4. g[u] = k[u]
        BY <3>1, <3>2, <3>3, SumsAgree
      <3>5. QED
        BY <3>2, <3>3, <3>4
    <2>3. ASSUME NEW u \in SUBSET T, u # T PROVE h[u] = Value(u)
      <3>1. Has(u, Value(u))
        BY <2>1, <2>3
      <3>2. PICK x, g : x \in T /\ u \subseteq T \ {x} /\ IsSum(ls, g, T \ {x}) /\ Value(u) = g[u]
        BY <3>1
      <3>3. g[u] = SumAt(ls, g, u)
        <4>1. u \in SUBSET (T \ {x})
          BY <3>2
        <4>2. QED
          BY <3>2, <4>1, SumRule
      <3>4. CASE u # {}
        <4>1. PICK r : r = u \ {Taken(u)}
          OBVIOUS
        <4>2. r \in SUBSET T /\ r \subseteq T \ {x} /\ r # T
          BY <3>2, <4>1, <3>4, TakenIs
        <4>3. Has(r, g[r])
          BY <3>2, <4>2
        <4>4. Has(r, Value(r))
          BY <2>1, <4>2
        <4>5. Value(r) = g[r]
          BY <2>2, <4>2, <4>3, <4>4
        <4>6. h[u] = Amount(ls, Taken(u)) + Value(r)
          BY <3>4, <4>1
        <4>7. QED
          BY <3>2, <3>3, <3>4, <4>1, <4>5, <4>6 DEF SumAt
      <3>5. CASE u = {}
        BY <3>2, <3>3, <3>5 DEF SumAt
      <3>6. QED
        BY <3>4, <3>5
    <2>4. h = [s \in SUBSET T |-> IF s = {} THEN 0 ELSE Amount(ls, Taken(s)) + h[s \ {Taken(s)}]]
      <3>1. ASSUME NEW s \in SUBSET T, s # {} PROVE Value(s \ {Taken(s)}) = h[s \ {Taken(s)}]
        <4>1. PICK r : r = s \ {Taken(s)}
          OBVIOUS
        <4>2. r \in SUBSET T /\ r # T
          BY <3>1, <4>1, TakenIs
        <4>3. QED
          BY <2>3, <4>1, <4>2
      <3> HIDE DEF Value
      <3>2. QED
        BY <3>1
    <2>5. IsSum(ls, h, T)
      BY <2>4 DEF IsSum, SumAt
    <2>6. QED
      BY <2>5
  <1>2. \A s \in SUBSET S : s \in Good
    <2> HIDE DEF Good
    <2>1. QED
      BY <1>1, SubsetInduction
  <1>3. QED
    BY <1>2

-----------------------------------------------------------------------------
(* Sums of natural amounts.                                                *)

Costs(ls, S) == \A id \in S : Amount(ls, id) \in Nat

LEMMA SumsAreNat ==
  ASSUME NEW ls, NEW g, NEW S, IsFiniteSet(S), IsSum(ls, g, S), Costs(ls, S)
  PROVE  \A s \in SUBSET S : g[s] \in Nat
  <1> DEFINE Good == {s \in SUBSET S : g[s] \in Nat}
  <1>1. ASSUME NEW s \in SUBSET S, \A x \in s : s \ {x} \in Good PROVE s \in Good
    <2>1. g[s] = SumAt(ls, g, s)
      BY SumRule
    <2>2. CASE s = {}
      BY <2>1, <2>2 DEF SumAt
    <2>3. CASE s # {}
      <3>1. PICK x : x = Taken(s)
        OBVIOUS
      <3>2. x \in s /\ s \ {x} \in Good
        BY <1>1, <2>3, <3>1, TakenIs
      <3>3. g[s] = Amount(ls, x) + g[s \ {x}]
        BY <2>1, <2>3, <3>1 DEF SumAt
      <3>4. Amount(ls, x) \in Nat /\ g[s \ {x}] \in Nat
        BY <3>2 DEF Costs
      <3>5. QED
        BY <3>3, <3>4
    <2>4. QED
      BY <2>2, <2>3
  <1>2. \A s \in SUBSET S : s \in Good
    <2> HIDE DEF Good
    <2>1. QED
      BY <1>1, SubsetInduction
  <1>3. QED
    BY <1>2

\* A sum does not depend on the line that is taken first.
LEMMA SumOfAny ==
  ASSUME NEW ls, NEW g, NEW S, IsFiniteSet(S), IsSum(ls, g, S), Costs(ls, S)
  PROVE  \A s \in SUBSET S : \A x \in s : g[s] = Amount(ls, x) + g[s \ {x}]
  <1> DEFINE Good == {s \in SUBSET S : \A x \in s : g[s] = Amount(ls, x) + g[s \ {x}]}
  <1>1. ASSUME NEW s \in SUBSET S, \A x \in s : s \ {x} \in Good PROVE s \in Good
    <2>1. ASSUME NEW x \in s PROVE g[s] = Amount(ls, x) + g[s \ {x}]
      <3>1. PICK y : y = Taken(s)
        OBVIOUS
      <3>2. y \in s
        BY <3>1, TakenIs
      <3>3. g[s] = Amount(ls, y) + g[s \ {y}]
        BY <3>1, SumRule DEF SumAt
      <3>4. CASE x = y
        BY <3>3, <3>4
      <3>5. CASE x # y
        <4>1. PICK u : u = (s \ {x}) \ {y}
          OBVIOUS
        <4>2. u = (s \ {y}) \ {x} /\ u \in SUBSET S
          BY <4>1
        <4>3. g[s \ {y}] = Amount(ls, x) + g[u]
          BY <1>1, <3>2, <3>5, <4>2
        <4>4. g[s \ {x}] = Amount(ls, y) + g[u]
          BY <1>1, <3>2, <3>5, <4>1
        <4>5. Amount(ls, x) \in Nat /\ Amount(ls, y) \in Nat /\ g[u] \in Nat
          BY <3>2, <4>2, SumsAreNat DEF Costs
        <4>6. QED
          BY <3>3, <4>3, <4>4, <4>5
      <3>6. QED
        BY <3>4, <3>5
    <2>2. QED
      BY <2>1
  <1>2. \A s \in SUBSET S : s \in Good
    <2> HIDE DEF Good
    <2>1. QED
      BY <1>1, SubsetInduction
  <1>3. QED
    BY <1>2

-----------------------------------------------------------------------------
(* The total of a cart.                                                    *)

LEMMA TotalIs ==
  ASSUME NEW ls, IsFiniteSet(Attached(ls))
  PROVE  \E g : IsSum(ls, g, Attached(ls)) /\ Total(ls) = g[Attached(ls)]
  <1> DEFINE Sums(g) == g = [s \in SUBSET Attached(ls) |->
                               IF s = {} THEN 0
                               ELSE Price[ls[CHOOSE id \in s : TRUE].item] * ls[CHOOSE id \in s : TRUE].quantity
                                    + g[s \ {CHOOSE id \in s : TRUE}]]
  <1>1. Total(ls) = (CHOOSE g : Sums(g))[Attached(ls)]
    BY Zenon DEF Total, MapThenSumSet, MapThenFoldSet
  <1>2. \A g : Sums(g) <=> IsSum(ls, g, Attached(ls))
    BY DEF IsSum, SumAt, Amount, Taken
  <1> HIDE DEF Sums
  <1>3. \E g : Sums(g)
    <2>1. \E g : IsSum(ls, g, Attached(ls))
      BY SumsExist
    <2>2. QED
      BY <1>2, <2>1
  <1>4. Sums(CHOOSE g : Sums(g))
    BY <1>3
  <1>5. QED
    BY <1>1, <1>2, <1>4

LEMMA TotalOfNone ==
  ASSUME NEW ls, Attached(ls) = {}
  PROVE  Total(ls) = 0
  <1>1. IsFiniteSet(Attached(ls))
    BY FS_EmptySet
  <1>2. PICK g : IsSum(ls, g, Attached(ls)) /\ Total(ls) = g[Attached(ls)]
    BY <1>1, TotalIs
  <1>3. g[Attached(ls)] = SumAt(ls, g, Attached(ls))
    BY <1>2, SumRule
  <1>4. QED
    BY <1>2, <1>3 DEF SumAt

LEMMA TotalIsNat ==
  ASSUME NEW ls, IsFiniteSet(Attached(ls)), Costs(ls, Attached(ls))
  PROVE  Total(ls) \in Nat
  <1>1. PICK g : IsSum(ls, g, Attached(ls)) /\ Total(ls) = g[Attached(ls)]
    BY TotalIs
  <1>2. QED
    BY <1>1, SumsAreNat

\* One line more adds its amount.
LEMMA TotalWith ==
  ASSUME NEW ls, NEW ms, NEW x, IsFiniteSet(Attached(ls)), x \notin Attached(ls),
         Attached(ms) = Attached(ls) \cup {x}, Costs(ms, Attached(ms)),
         \A id \in Attached(ls) : Amount(ms, id) = Amount(ls, id)
  PROVE  Total(ms) = Total(ls) + Amount(ms, x)
  <1>1. PICK S : S = Attached(ls)
    OBVIOUS
  <1>2. IsFiniteSet(S) /\ IsFiniteSet(S \cup {x}) /\ x \notin S /\ Attached(ms) = S \cup {x}
    BY <1>1, FS_AddElement
  <1>3. PICK g : IsSum(ls, g, S) /\ Total(ls) = g[S]
    BY <1>1, TotalIs
  <1>4. PICK h : IsSum(ms, h, S \cup {x}) /\ Total(ms) = h[S \cup {x}]
    BY <1>2, TotalIs
  <1>5. g[S] = h[S]
    <2>1. S \subseteq S /\ S \subseteq S \cup {x} /\ \A id \in S : Amount(ls, id) = Amount(ms, id)
      BY <1>1
    <2>2. QED
      BY <1>2, <1>3, <1>4, <2>1, SumsAgree
  <1>6. h[S \cup {x}] = Amount(ms, x) + h[(S \cup {x}) \ {x}]
    BY <1>2, <1>4, SumOfAny
  <1>7. (S \cup {x}) \ {x} = S
    BY <1>2
  <1>8. Amount(ms, x) \in Nat /\ h[S] \in Nat
    BY <1>2, <1>4, SumsAreNat DEF Costs
  <1>9. Total(ms) = Amount(ms, x) + h[S] /\ Total(ls) = h[S]
    BY <1>3, <1>4, <1>5, <1>6, <1>7
  <1>10. QED
    BY <1>8, <1>9

\* summaryOrder, whatever the order in which it goes through the lines: a cart without lines costs
\* nothing, and each line adds its price times its quantity to what the others cost.
THEOREM TotalIsTheSum ==
  ASSUME NEW ls, IsFiniteSet(Attached(ls)), Costs(ls, Attached(ls))
  PROVE  /\ Attached(ls) = {} => Total(ls) = 0
         /\ \A id \in Attached(ls) : Total(ls) = Total(Restrict(ls, DOMAIN ls \ {id})) + Amount(ls, id)
  <1>1. Attached(ls) = {} => Total(ls) = 0
    BY TotalOfNone
  <1>2. ASSUME NEW id \in Attached(ls)
        PROVE  Total(ls) = Total(Restrict(ls, DOMAIN ls \ {id})) + Amount(ls, id)
    <2>1. PICK ms : ms = Restrict(ls, DOMAIN ls \ {id})
      OBVIOUS
    <2>2. Attached(ms) = Attached(ls) \ {id}
      BY <2>1 DEF Restrict, Attached
    <2>3. IsFiniteSet(Attached(ms)) /\ Attached(ls) = Attached(ms) \cup {id} /\ id \notin Attached(ms)
      BY <2>2, FS_RemoveElement
    <2>4. \A k \in Attached(ms) : Amount(ls, k) = Amount(ms, k)
      BY <2>1 DEF Restrict, Attached, Amount
    <2>5. Total(ls) = Total(ms) + Amount(ls, id)
      BY <2>3, <2>4, TotalWith
    <2>6. QED
      BY <2>1, <2>5
  <1>3. QED
    BY <1>1, <1>2

=============================================================================
