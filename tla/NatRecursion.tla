---------------------------- MODULE NatRecursion ----------------------------
(***************************************************************************)
(* Induction and primitive recursion on the natural numbers, stated about  *)
(* sets and functions so that the provers can use them: the loop of        *)
(* GetRetryDelay is a recursive function in Config, and what it computes   *)
(* for every attempt is proved from these lemmas.                          *)
(***************************************************************************)
EXTENDS Integers, WellFoundedInduction, TLAPS

\* Every set of numbers that is not empty has a least element.
LEMMA LeastElement ==
  ASSUME NEW T \in SUBSET Nat, T # {}
  PROVE  \E x \in T : \A y \in T : x <= y
<1> DEFINE Less == {p \in Nat \X Nat : p[1] < p[2]}
<1>1. IsWellFoundedOn(Less, Nat)
  BY NatLessThanWellFounded DEF OpToRel
<1> HIDE DEF Less
<1>2. PICK x \in T : \A y \in T : <<y, x>> \notin Less
  BY <1>1, WFMin
<1>3. \A y \in T : ~(y < x)
  BY <1>2 DEF Less
<1> QED
  BY <1>3

\* Induction over a set of numbers.
LEMMA SetInduction ==
  ASSUME NEW P \in SUBSET Nat, 0 \in P, \A n \in P : n + 1 \in P
  PROVE  P = Nat
<1> SUFFICES ASSUME Nat \ P # {} PROVE FALSE
  OBVIOUS
<1>1. PICK x \in Nat \ P : \A y \in Nat \ P : x <= y
  BY LeastElement
<1>2. x - 1 \in Nat /\ ~(x <= x - 1)
  BY <1>1
<1>3. x - 1 \in P
  BY <1>1, <1>2
<1> QED
  BY <1>1, <1>2, <1>3

\* g is what applying step again and again to a gives, n times.
Iterates(D, a, step, g, n) ==
  /\ g \in [0 .. n -> D] /\ g[0] = a
  /\ \A i \in 1 .. n : g[i] = step[g[i - 1]]

\* Two sequences of iterates agree as far as both go.
LEMMA IteratesAgree ==
  ASSUME NEW D, NEW a \in D, NEW step \in [D -> D], NEW m \in Nat, NEW n \in Nat,
         NEW g, NEW h, Iterates(D, a, step, g, m), Iterates(D, a, step, h, n)
  PROVE  \A i \in Nat : i <= m /\ i <= n => g[i] = h[i]
<1> DEFINE P == {i \in Nat : i <= m /\ i <= n => g[i] = h[i]}
<1>1. P \in SUBSET Nat /\ 0 \in P
  BY DEF Iterates
<1>2. ASSUME NEW i \in P PROVE i + 1 \in P
  <2> SUFFICES ASSUME i + 1 <= m, i + 1 <= n PROVE g[i + 1] = h[i + 1]
    OBVIOUS
  <2>1. i \in Nat /\ g[i] = h[i]
    OBVIOUS
  <2>2. i + 1 \in 1 .. m /\ i + 1 \in 1 .. n /\ (i + 1) - 1 = i
    BY <2>1
  <2> QED
    BY <2>1, <2>2 DEF Iterates
<1>3. P = Nat
  BY <1>1, <1>2, SetInduction
<1> QED
  BY <1>3

\* There are iterates of any length.
LEMMA IteratesExist ==
  ASSUME NEW D, NEW a \in D, NEW step \in [D -> D]
  PROVE  \A n \in Nat : \E g : Iterates(D, a, step, g, n)
<1> DEFINE P == {n \in Nat : \E g : Iterates(D, a, step, g, n)}
<1>1. 0 \in P
  <2>1. Iterates(D, a, step, [i \in 0 .. 0 |-> a], 0)
    BY DEF Iterates
  <2> QED
    BY <2>1
<1>2. ASSUME NEW n \in P PROVE n + 1 \in P
  <2>1. n \in Nat /\ n + 1 \in Nat
    OBVIOUS
  <2>2. PICK g : Iterates(D, a, step, g, n)
    OBVIOUS
  <2> DEFINE h == [i \in 0 .. n + 1 |-> IF i <= n THEN g[i] ELSE step[g[n]]]
  <2>3. h \in [0 .. n + 1 -> D] /\ h[0] = a
    BY <2>1, <2>2 DEF Iterates
  <2>4. ASSUME NEW i \in 1 .. n + 1 PROVE h[i] = step[h[i - 1]]
    <3>1. CASE i <= n
      BY <2>1, <2>2, <3>1 DEF Iterates
    <3>2. CASE i = n + 1
      BY <2>1, <2>2, <3>2 DEF Iterates
    <3> QED
      BY <2>1, <3>1, <3>2
  <2>5. Iterates(D, a, step, h, n + 1)
    BY <2>3, <2>4 DEF Iterates
  <2> QED
    BY <2>1, <2>5
<1>3. P = Nat
  BY <1>1, <1>2, SetInduction
<1> QED
  BY <1>3

\* A function defined by primitive recursion on the numbers exists.
LEMMA RecursionOnNat ==
  ASSUME NEW D, NEW a \in D, NEW step \in [D -> D]
  PROVE  \E f \in [Nat -> D] : f[0] = a /\ \A n \in Nat : f[n + 1] = step[f[n]]
<1> DEFINE G(n) == CHOOSE g : Iterates(D, a, step, g, n)
           f == [n \in Nat |-> G(n)[n]]
<1>1. \A n \in Nat : Iterates(D, a, step, G(n), n)
  BY IteratesExist
<1> HIDE DEF G
<1>2. f \in [Nat -> D]
  BY <1>1 DEF Iterates
<1>3. f[0] = a
  BY <1>1 DEF Iterates
<1>4. ASSUME NEW n \in Nat PROVE f[n + 1] = step[f[n]]
  <2>1. n + 1 \in Nat /\ n + 1 \in 1 .. n + 1 /\ (n + 1) - 1 = n /\ n <= n + 1 /\ n <= n
    OBVIOUS
  <2>2. G(n + 1)[n + 1] = step[G(n + 1)[n]]
    BY <1>1, <2>1 DEF Iterates
  <2>3. G(n + 1)[n] = G(n)[n]
    BY <1>1, <2>1, IteratesAgree
  <2> QED
    BY <2>1, <2>2, <2>3
<1> QED
  BY <1>2, <1>3, <1>4

\* The same, for a function whose values are integers.
LEMMA RecursionToInt ==
  \A a \in Int, step \in [Int -> Int] :
    \E f \in [Nat -> Int] : f[0] = a /\ \A n \in Nat : f[n + 1] = step[f[n]]
<1> DEFINE D == Int
<1>1. \A a \in D, step \in [D -> D] :
        \E f \in [Nat -> D] : f[0] = a /\ \A n \in Nat : f[n + 1] = step[f[n]]
  <2> HIDE DEF D
  <2> QED
    BY RecursionOnNat
<1> QED
  BY <1>1
=============================================================================
