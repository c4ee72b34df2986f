--------------------------- MODULE PricingProofs ---------------------------
(***************************************************************************)
(* What the fold of Subtotal computes: whichever item it takes first, each *)
(* item is counted once.  The induction over the items is by a smallest    *)
(* set for which a claim fails, taken from the well-foundedness of strict  *)
(* inclusion among finite sets.                                            *)
(***************************************************************************)
EXTENDS Pricing, FiniteSetTheorems, TLAPS

\* The prices of the items are amounts of money.
Priced(items) == IsFiniteSet(items) /\ \A i \in items : i.price \in Nat

Amount(i) == i.price * Cent

Chosen(s) == CHOOSE i \in s : TRUE

\* What the fold gives for s, if g gives what it does for smaller sets.
Below(g, s) == IF s = {} THEN 0 ELSE Amount(Chosen(s)) + g[s \ {Chosen(s)}]

\* The functions that satisfy the recursion of the fold.
Sums(g, items) == g = [s \in SUBSET items |-> Below(g, s)]

-----------------------------------------------------------------------------
\* Among the sets of a family there is one with no smaller set in the family.
LEMMA Smallest ==
    ASSUME NEW S, IsFiniteSet(S), NEW F \in SUBSET (SUBSET S), F # {}
    PROVE  \E T \in F : \A U \in F : U \subseteq T => U = T
  <1>1. IsWellFoundedOn(StrictSubsetOrdering(S), FiniteSubsetsOf(S))
    BY FS_StrictSubsetOrderingWellFounded
  <1>2. F \subseteq FiniteSubsetsOf(S)
    BY FS_FiniteSubsetsOfFinite
  <1>3. PICK T \in F : \A U \in F : <<U, T>> \notin StrictSubsetOrdering(S)
    BY <1>1, <1>2, WFMin
  <1>4. \A U \in F : U \subseteq T => U = T
    BY <1>3 DEF StrictSubsetOrdering
  <1> QED
    BY <1>4

LEMMA ChosenIn == ASSUME NEW s, s # {} PROVE Chosen(s) \in s
  BY DEF Chosen

\* The recursion determines the sums of all sets that two functions share.
LEMMA SumsAgree ==
    ASSUME NEW V, NEW W, NEW g, NEW h, Sums(g, V), Sums(h, W),
           NEW S, IsFiniteSet(S), S \subseteq V, S \subseteq W
    PROVE  g[S] = h[S]
  <1> DEFINE F == {s \in SUBSET S : g[s] # h[s]}
  <1>1. SUFFICES ASSUME F # {} PROVE FALSE
    BY <1>1
  <1>a. F \in SUBSET (SUBSET S)
    OBVIOUS
  <1>b. \E T \in F : \A U \in F : U \subseteq T => U = T
    <2> HIDE DEF F
    <2> QED
      BY <1>1, <1>a, Smallest
  <1>2. PICK T \in F : \A U \in F : U \subseteq T => U = T
    BY <1>b
  <1>3. g[T] = Below(g, T) /\ h[T] = Below(h, T)
    BY <1>2 DEF Sums
  <1>4. T # {}
    BY <1>2, <1>3 DEF Below
  <1>5. T \ {Chosen(T)} \notin F
    BY <1>2, <1>4, ChosenIn
  <1>6. g[T \ {Chosen(T)}] = h[T \ {Chosen(T)}]
    BY <1>2, <1>5
  <1> QED
    BY <1>2, <1>3, <1>4, <1>6 DEF Below

\* The recursion has a solution on every finite set.
LEMMA SumsExist ==
    ASSUME NEW S, IsFiniteSet(S)
    PROVE  \E g : Sums(g, S)
  <1> DEFINE F == {s \in SUBSET S : ~ \E g : Sums(g, s)}
  <1>1. SUFFICES ASSUME F # {} PROVE FALSE
    BY <1>1
  <1>a. F \in SUBSET (SUBSET S)
    OBVIOUS
  <1>b. \E T \in F : \A U \in F : U \subseteq T => U = T
    <2> HIDE DEF F
    <2> QED
      BY <1>1, <1>a, Smallest
  <1>2. PICK T \in F : \A U \in F : U \subseteq T => U = T
    BY <1>b
  <1> DEFINE G(s) == CHOOSE g : Sums(g, s)
             rest(s) == s \ {Chosen(s)}
             h == [s \in SUBSET T |->
                     IF s = {} THEN 0 ELSE Amount(Chosen(s)) + G(rest(s))[rest(s)]]
  <1>3. ASSUME NEW s \in SUBSET T, s # T
        PROVE  Sums(G(s), s)
    <2>1. s \notin F
      BY <1>2, <1>3
    <2>2. \E g : Sums(g, s)
      BY <1>2, <2>1
    <2> QED
      BY <2>2
  <1>4. ASSUME NEW s \in SUBSET T, s # T
        PROVE  h[s] = G(s)[s]
    <2>1. Sums(G(s), s)
      BY <1>3, <1>4
    <2>2. G(s)[s] = Below(G(s), s)
      BY <2>1 DEF Sums
    <2>3. CASE s = {}
      BY <2>2, <2>3 DEF Below
    <2>4. CASE s # {}
      <3>1. rest(s) \in SUBSET T /\ rest(s) # T /\ rest(s) \subseteq s
        BY <1>4, <2>4, ChosenIn
      <3>2. Sums(G(rest(s)), rest(s))
        BY <1>3, <3>1
      <3>3. IsFiniteSet(rest(s))
        BY <1>2, <3>1, FS_Subset
      <3>4. G(s)[rest(s)] = G(rest(s))[rest(s)]
        BY <2>1, <3>1, <3>2, <3>3, SumsAgree
      <3> QED
        BY <2>2, <2>4, <3>4 DEF Below
    <2> QED
      BY <2>3, <2>4
  <1>5. ASSUME NEW s \in SUBSET T
        PROVE  h[s] = Below(h, s)
    <2>1. CASE s = {}
      BY <2>1 DEF Below
    <2>2. CASE s # {}
      <3>1. rest(s) \in SUBSET T /\ rest(s) # T
        BY <2>2, ChosenIn
      <3>2. h[rest(s)] = G(rest(s))[rest(s)]
        BY <1>4, <3>1
      <3> QED
        BY <2>2, <3>2 DEF Below
    <2> QED
      BY <2>1, <2>2
  <1>6. Sums(h, T)
    BY <1>5 DEF Sums
  <1> QED
    BY <1>2, <1>6

-----------------------------------------------------------------------------
\* Whichever item the fold takes first, taking i out of the sum leaves the sum
\* of the others.
LEMMA TakenOut ==
    ASSUME NEW S, Priced(S), NEW g, Sums(g, S),
           NEW s, s \subseteq S
    PROVE  /\ g[s] \in Nat
           /\ \A i \in s : g[s] = Amount(i) + g[s \ {i}]
  <1> DEFINE Fails(x) == ~ (/\ g[x] \in Nat
                            /\ \A i \in x : g[x] = Amount(i) + g[x \ {i}])
             F == {x \in SUBSET S : Fails(x)}
  <1>1. SUFFICES ASSUME F # {} PROVE FALSE
    BY <1>1
  <1>a. F \in SUBSET (SUBSET S) /\ IsFiniteSet(S)
    BY DEF Priced
  <1>b. \E T \in F : \A U \in F : U \subseteq T => U = T
    <2> HIDE DEF F
    <2> QED
      BY <1>1, <1>a, Smallest
  <1>2. PICK T \in F : \A U \in F : U \subseteq T => U = T
    BY <1>b
  <1> DEFINE x == Chosen(T)
  <1>3. g[T] = Below(g, T)
    BY <1>2 DEF Sums
  <1>4. T # {}
    BY <1>2, <1>3 DEF Below
  <1>5. x \in T /\ g[T] = Amount(x) + g[T \ {x}]
    BY <1>3, <1>4, ChosenIn DEF Below
  <1>6. ASSUME NEW U \in SUBSET T, U # T
        PROVE  g[U] \in Nat /\ \A i \in U : g[U] = Amount(i) + g[U \ {i}]
    BY <1>2, <1>6
  <1>7. \A i \in T : Amount(i) \in Nat
    BY <1>2 DEF Priced, Amount, Cent
  <1>8. g[T] \in Nat
    BY <1>5, <1>6, <1>7
  <1>9. ASSUME NEW i \in T
        PROVE  g[T] = Amount(i) + g[T \ {i}]
    <2>1. CASE i = x
      BY <1>5, <2>1
    <2>2. CASE i # x
      <3> DEFINE rest == T \ {i, x}
      <3>1. g[T \ {x}] = Amount(i) + g[rest]
        <4>1. (T \ {x}) \ {i} = rest
          OBVIOUS
        <4> QED
          BY <1>5, <1>6, <2>2, <4>1
      <3>2. g[T \ {i}] = Amount(x) + g[rest]
        <4>1. (T \ {i}) \ {x} = rest
          OBVIOUS
        <4> QED
          BY <1>5, <1>6, <2>2, <4>1
      <3>3. g[rest] \in Nat
        BY <1>6
      <3> HIDE DEF rest
      <3> QED
        BY <1>5, <1>7, <3>1, <3>2, <3>3
    <2> QED
      BY <2>1, <2>2
  <1> QED
    BY <1>2, <1>8, <1>9

\* The sum of all items is the fold's value for the whole set.
LEMMA SubtotalSums ==
    ASSUME NEW S, IsFiniteSet(S)
    PROVE  \E g : Sums(g, S) /\ Subtotal(S) = g[S]
  <1> DEFINE g == CHOOSE f : f = [s \in SUBSET S |-> Below(f, s)]
  <1>1. Subtotal(S) = g[S]
    BY DEF Subtotal, MapThenSumSet, MapThenFoldSet, Below, Chosen, Amount
  <1>2. Sums(g, S)
    BY SumsExist DEF Sums
  <1> QED
    BY <1>1, <1>2

\* An empty cart costs nothing; every item adds its price, once, whichever the
\* others are (the reduce of createOrder, orders.service.ts:37).
THEOREM SubtotalAdds ==
    ASSUME NEW S, Priced(S)
    PROVE  /\ Subtotal(S) \in Nat
           /\ S = {} => Subtotal(S) = 0
           /\ \A i \in S : Subtotal(S) = Subtotal(S \ {i}) + Amount(i)
  <1>1. PICK g : Sums(g, S) /\ Subtotal(S) = g[S]
    BY SubtotalSums DEF Priced
  <1>2. Subtotal(S) \in Nat
    BY <1>1, TakenOut
  <1>3. S = {} => Subtotal(S) = 0
    BY <1>1 DEF Sums, Below
  <1>4. ASSUME NEW i \in S
        PROVE  Subtotal(S) = Subtotal(S \ {i}) + Amount(i)
    <2>1. IsFiniteSet(S \ {i}) /\ Amount(i) \in Nat
      BY FS_Subset DEF Priced, Amount, Cent
    <2>2. PICK h : Sums(h, S \ {i}) /\ Subtotal(S \ {i}) = h[S \ {i}]
      BY <2>1, SubtotalSums
    <2>3. g[S \ {i}] = h[S \ {i}]
      BY <1>1, <2>1, <2>2, SumsAgree
    <2>4. g[S] = Amount(i) + g[S \ {i}] /\ g[S \ {i}] \in Nat
      BY <1>1, TakenOut
    <2> QED
      BY <1>1, <2>1, <2>2, <2>3, <2>4
  <1> QED
    BY <1>2, <1>3, <1>4

\* Prices are whole cents, and so is their sum.
LEMMA SubtotalInCents ==
    ASSUME NEW S, Priced(S)
    PROVE  \E n \in Nat : Subtotal(S) = 100 * n
  <1> DEFINE F == {s \in SUBSET S : ~ \E n \in Nat : Subtotal(s) = 100 * n}
  <1>1. SUFFICES ASSUME F # {} PROVE FALSE
    BY <1>1
  <1>a. F \in SUBSET (SUBSET S) /\ IsFiniteSet(S)
    BY DEF Priced
  <1>b. \E T \in F : \A U \in F : U \subseteq T => U = T
    <2> HIDE DEF F
    <2> QED
      BY <1>1, <1>a, Smallest
  <1>2. PICK T \in F : \A U \in F : U \subseteq T => U = T
    BY <1>b
  <1>3. Priced(T)
    BY <1>2, FS_Subset DEF Priced
  <1>4. T # {}
    BY <1>2, <1>3, SubtotalAdds
  <1>5. PICK i \in T : TRUE
    BY <1>4
  <1>6. T \ {i} \notin F
    BY <1>2, <1>5
  <1>7. PICK n \in Nat : Subtotal(T \ {i}) = 100 * n
    BY <1>2, <1>6
  <1>8. Subtotal(T) = 100 * n + i.price * 100 /\ i.price \in Nat
    BY <1>3, <1>5, <1>7, SubtotalAdds DEF Amount, Cent, Priced
  <1>9. Subtotal(T) = 100 * (n + i.price) /\ n + i.price \in Nat
    BY <1>8
  <1> QED
    BY <1>2, <1>9

=============================================================================
