------------------------------ MODULE Iteration ------------------------------
(***************************************************************************)
(* A loop of the program: Step (u, p, n) is pass n of its body, where u is *)
(* what the passes before it leave and p what does not change.  A pass     *)
(* that finds the loop left gives u.                                       *)
(*                                                                         *)
(* The theorems are about every loop, as Step is a parameter: that the     *)
(* recursion has the solution one expects, and the induction on Nat.       *)
(***************************************************************************)
EXTENDS Naturals, WellFoundedInduction, TLAPS

CONSTANT Step(_, _, _)

\* What n passes leave of v is Passes (v, p) [n].
Passes(v, p) ==
  LET after[n \in Nat] == IF n = 0 THEN v ELSE Step(after[n - 1], p, n) IN after

-----------------------------------------------------------------------------
LEMMA LeastOfSet ==
  ASSUME NEW T, T \subseteq Nat, T # {}
  PROVE  \E x \in T : \A y \in T : ~(y < x)
<1> DEFINE R == { r \in Nat \X Nat : r[1] < r[2] }
<1>1. IsWellFoundedOn(R, Nat)
  BY NatLessThanWellFounded DEF OpToRel
<1>2. \E x \in T : \A y \in T : <<y, x>> \notin R
  <2> HIDE DEF R
  <2> QED
    BY <1>1, WFMin
<1> QED
  BY <1>2

\* Induction on the natural numbers, about a set where others state a predicate.
THEOREM Upwards ==
  ASSUME NEW T, 0 \in T, \A n \in Nat : n \in T => n + 1 \in T
  PROVE  Nat \subseteq T
<1> DEFINE Missing == Nat \ T
<1> SUFFICES ASSUME Missing # {} PROVE FALSE
  OBVIOUS
<1>1. PICK x \in Missing : \A y \in Missing : ~(y < x)
  <2>1. Missing \subseteq Nat
    OBVIOUS
  <2> HIDE DEF Missing
  <2> QED
    BY <2>1, LeastOfSet
<1>2. x \in Nat /\ x # 0
  OBVIOUS
<1>3. x - 1 \in Nat /\ x - 1 < x
  BY <1>2
<1>4. x - 1 \in T
  BY <1>1, <1>3
<1> QED
  BY <1>2, <1>3, <1>4

-----------------------------------------------------------------------------
\* The first k passes from v on, as a function.
IsRun(g, v, p, k) ==
  /\ g = [ i \in 0 .. k |-> g[i] ]
  /\ g[0] = v
  /\ \A i \in 1 .. k : g[i] = Step(g[i - 1], p, i)

LEMMA RunGoesOn ==
  ASSUME NEW v, NEW p, NEW n \in Nat, NEW g, IsRun(g, v, p, n)
  PROVE  \E h : IsRun(h, v, p, n + 1)
<1> DEFINE h == [ i \in 0 .. n + 1 |-> IF i = n + 1 THEN Step(g[n], p, n + 1) ELSE g[i] ]
<1>1. h = [ i \in 0 .. n + 1 |-> h[i] ]
  OBVIOUS
<1>2. h[0] = v
  BY DEF IsRun
<1>3. ASSUME NEW i \in 1 .. n + 1 PROVE h[i] = Step(h[i - 1], p, i)
  <2>1. CASE i = n + 1
    BY <2>1
  <2>2. CASE i # n + 1
    <3>1. i \in 1 .. n /\ i - 1 \in 0 .. n + 1 /\ i - 1 # n + 1
      BY <2>2
    <3>2. h[i] = g[i] /\ h[i - 1] = g[i - 1]
      BY <3>1
    <3>3. g[i] = Step(g[i - 1], p, i)
      BY <3>1 DEF IsRun
    <3> QED
      BY <3>2, <3>3
  <2> QED
    BY <2>1, <2>2
<1> HIDE DEF h
<1> QED
  BY <1>1, <1>2, <1>3 DEF IsRun

LEMMA RunExists ==
  ASSUME NEW v, NEW p
  PROVE  \A n \in Nat : \E g : IsRun(g, v, p, n)
<1> DEFINE T == { n \in Nat : \E g : IsRun(g, v, p, n) }
<1>1. 0 \in T
  <2>1. IsRun([ i \in 0 .. 0 |-> v ], v, p, 0)
    BY DEF IsRun
  <2> QED
    BY <2>1
<1>2. \A n \in Nat : n \in T => n + 1 \in T
  BY RunGoesOn
<1>3. Nat \subseteq T
  <2> HIDE DEF T
  <2> QED
    BY <1>1, <1>2, Upwards
<1> QED
  BY <1>3

LEMMA RunsAgree ==
  ASSUME NEW v, NEW p, NEW n \in Nat, NEW m \in Nat, n <= m,
         NEW g, IsRun(g, v, p, n), NEW h, IsRun(h, v, p, m)
  PROVE  \A i \in 0 .. n : g[i] = h[i]
<1> DEFINE T == { i \in Nat : i <= n => g[i] = h[i] }
<1>1. 0 \in T
  BY DEF IsRun
<1>2. ASSUME NEW i \in Nat, i \in T PROVE i + 1 \in T
  <2> SUFFICES ASSUME i + 1 <= n PROVE g[i + 1] = h[i + 1]
    OBVIOUS
  <2>1. g[i] = h[i]
    BY <1>2
  <2>2. i + 1 \in 1 .. n /\ i + 1 \in 1 .. m /\ (i + 1) - 1 = i
    OBVIOUS
  <2>3. g[i + 1] = Step(g[i], p, i + 1) /\ h[i + 1] = Step(h[i], p, i + 1)
    BY <2>2 DEF IsRun
  <2> QED
    BY <2>1, <2>3
<1>3. Nat \subseteq T
  <2> HIDE DEF T
  <2> QED
    BY <1>1, <1>2, Upwards
<1> QED
  BY <1>3

\* A loop does what its body says, pass by pass.
THEOREM PassByPass ==
  ASSUME NEW v, NEW p
  PROVE  /\ Passes(v, p)[0] = v
         /\ \A n \in Nat : Passes(v, p)[n + 1] = Step(Passes(v, p)[n], p, n + 1)
<1> DEFINE D(f) == [ n \in Nat |-> IF n = 0 THEN v ELSE Step(f[n - 1], p, n) ]
           G(n) == CHOOSE g : IsRun(g, v, p, n)
           F == [ n \in Nat |-> G(n)[n] ]
<1>1. Passes(v, p) = CHOOSE f : f = D(f)
  BY DEF Passes
<1>2. \A n \in Nat : IsRun(G(n), v, p, n)
  BY RunExists
<1>3. F = D(F)
  <2>1. F[0] = v
    BY <1>2 DEF IsRun
  <2>2. ASSUME NEW n \in Nat, n # 0 PROVE F[n] = Step(F[n - 1], p, n)
    <3>1. n - 1 \in Nat /\ n - 1 <= n /\ n - 1 \in 0 .. n - 1 /\ n \in 1 .. n
      BY <2>2
    <3>2. IsRun(G(n), v, p, n) /\ IsRun(G(n - 1), v, p, n - 1)
      BY <3>1, <1>2
    <3> HIDE DEF G
    <3>3. G(n)[n - 1] = G(n - 1)[n - 1]
      BY <3>1, <3>2, RunsAgree
    <3>4. G(n)[n] = Step(G(n)[n - 1], p, n)
      BY <3>1, <3>2 DEF IsRun
    <3> QED
      BY <3>1, <3>3, <3>4
  <2> HIDE DEF G
  <2> QED
    BY <2>1, <2>2
<1>4. Passes(v, p) = D(Passes(v, p))
  <2> HIDE DEF F
  <2> QED
    BY <1>1, <1>3
<1>5. ASSUME NEW n \in Nat PROVE Passes(v, p)[n + 1] = Step(Passes(v, p)[n], p, n + 1)
  <2> DEFINE f == Passes(v, p)
  <2>1. f = D(f)
    BY <1>4
  <2>2. n + 1 \in Nat /\ n + 1 # 0 /\ (n + 1) - 1 = n
    OBVIOUS
  <2> HIDE DEF f
  <2>3. f[n + 1] = D(f)[n + 1]
    BY <2>1
  <2>4. f[n + 1] = Step(f[n], p, n + 1)
    BY <2>2, <2>3
  <2> QED
    BY <2>4 DEF f
<1>6. Passes(v, p)[0] = v
  BY <1>4
<1> QED
  BY <1>5, <1>6
=============================================================================
