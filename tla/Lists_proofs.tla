---------------------------- MODULE Lists_proofs ----------------------------
(***************************************************************************)
(* Facts about lists that the proofs of several components need.           *)
(* Induction over the natural numbers is derived here in a form that takes *)
(* a set, not a predicate.                                                 *)
(***************************************************************************)
EXTENDS Lists, Integers, Sequences, FiniteSets, TLAPS, WellFoundedInduction, FiniteSetTheorems

(* Every nonempty set of natural numbers has a least element. *)
LEMMA LeastNatural ==
  ASSUME NEW T, T \subseteq Nat, T # {}
  PROVE  \E x \in T : \A y \in T : x <= y
<1> DEFINE R == {ss \in Nat \X Nat : ss[1] < ss[2]}
<1>1. IsWellFoundedOn(R, Nat)
  BY NatLessThanWellFounded DEF OpToRel
<1>2. \A x, y \in Nat : y < x => <<y, x>> \in R
  OBVIOUS
<1> HIDE DEF R
<1>3. PICK x \in T : \A y \in T : ~(<<y, x>> \in R)
  BY <1>1, WFMin
<1>4. \A y \in T : ~(y < x)
  BY <1>2, <1>3
<1>5. \A y \in T : x <= y
  <2> SUFFICES ASSUME NEW y \in T PROVE x <= y
    OBVIOUS
  <2>1. x \in Nat /\ y \in Nat /\ ~(y < x)
    BY <1>4
  <2> QED
    BY <2>1
<1> QED
  BY <1>5

(* Induction over the natural numbers. *)
LEMMA Induction ==
  ASSUME NEW S, 0 \in S, \A n \in Nat : n \in S => n + 1 \in S
  PROVE  Nat \subseteq S
<1> SUFFICES ASSUME Nat \ S # {} PROVE FALSE
  OBVIOUS
<1>1. PICK x \in Nat \ S : \A y \in Nat \ S : x <= y
  BY LeastNatural
<1>2. x # 0 /\ x - 1 \in Nat /\ x - 1 \in S
  BY <1>1
<1>3. x \in S
  BY <1>2
<1> QED
  BY <1>1, <1>3

(* The recursive definition of RetainedUpTo has a solution. *)
LEMMA RetainedDefined ==
  ASSUME NEW S, NEW s \in Seq(S), NEW keep
  PROVE  RetainedUpTo(s, keep) =
           [i \in 0..Len(s) |-> IF i = 0 THEN <<>>
                                ELSE IF s[i] \in keep
                                     THEN Append(RetainedUpTo(s, keep)[i - 1], s[i])
                                     ELSE RetainedUpTo(s, keep)[i - 1]]
<1> DEFINE Solves(f, n) ==
             f = [i \in 0..n |-> IF i = 0 THEN <<>>
                                 ELSE IF s[i] \in keep THEN Append(f[i - 1], s[i])
                                 ELSE f[i - 1]]
           Good == {n \in Nat : \E f : Solves(f, n)}
<1>1. 0 \in Good
  <2> DEFINE f == [i \in 0..0 |-> <<>>]
  <2>1. Solves(f, 0)
    OBVIOUS
  <2> QED
    BY <2>1
<1>2. ASSUME NEW n \in Nat, n \in Good PROVE n + 1 \in Good
  <2>1. PICK f : Solves(f, n)
    BY <1>2
  <2> DEFINE last == IF s[n + 1] \in keep THEN Append(f[n], s[n + 1]) ELSE f[n]
             g == [i \in 0..(n + 1) |-> IF i = n + 1 THEN last ELSE f[i]]
  <2>2. \A i \in 0..n : f[i] = IF i = 0 THEN <<>>
                               ELSE IF s[i] \in keep THEN Append(f[i - 1], s[i]) ELSE f[i - 1]
    BY <2>1
  <2>3. /\ g[n + 1] = last /\ \A i \in 0..n : g[i] = f[i]
        /\ DOMAIN g = 0..(n + 1)
    OBVIOUS
  <2>4. last = IF s[n + 1] \in keep THEN Append(g[n], s[n + 1]) ELSE g[n]
    BY <2>3
  <2> HIDE DEF last, g
  <2>5. \A i \in 0..(n + 1) :
          g[i] = IF i = 0 THEN <<>>
                 ELSE IF s[i] \in keep THEN Append(g[i - 1], s[i]) ELSE g[i - 1]
    <3> SUFFICES ASSUME NEW i \in 0..(n + 1)
                 PROVE  g[i] = IF i = 0 THEN <<>>
                               ELSE IF s[i] \in keep THEN Append(g[i - 1], s[i]) ELSE g[i - 1]
      OBVIOUS
    <3>1. CASE i = n + 1
      BY <2>3, <2>4, <3>1
    <3>2. CASE i = 0
      BY <2>2, <2>3, <3>2
    <3>3. CASE i \in 1..n
      <4>1. i \in 0..n /\ i - 1 \in 0..n
        BY <3>3
      <4> QED
        BY <2>2, <2>3, <3>3, <4>1
    <3> QED
      BY <3>1, <3>2, <3>3
  <2>6. Solves(g, n + 1)
    <3>1. g = [i \in 0..(n + 1) |-> g[i]]
      BY <2>3 DEF g
    <3> QED
      BY <2>5, <3>1
  <2> QED
    BY <2>6
<1> HIDE DEF Good
<1>3. Len(s) \in Good
  BY <1>1, <1>2, Induction
<1>4. \E f : Solves(f, Len(s))
  BY <1>3 DEF Good
<1> QED
  BY <1>4 DEF RetainedUpTo

(* r holds the elements of s at 1..n that are in keep, in their order.     *)
Picks(r, s, keep, n, f) ==
  /\ f \in [1..Len(r) -> 1..n]
  /\ \A i \in 1..Len(r) : r[i] = s[f[i]] /\ r[i] \in keep
  /\ \A i, j \in 1..Len(r) : i < j => f[i] < f[j]
  /\ \A k \in 1..n : s[k] \in keep => \E i \in 1..Len(r) : f[i] = k

(* retain keeps what is asked for, all of it, and its order. *)
LEMMA RetainProperties ==
  ASSUME NEW S, NEW s \in Seq(S), NEW keep
  PROVE  /\ Retain(s, keep) \in Seq(S)
         /\ Len(Retain(s, keep)) <= Len(s)
         /\ \E f : Picks(Retain(s, keep), s, keep, Len(s), f)
<1> DEFINE F == RetainedUpTo(s, keep)
           Sound(n) == /\ F[n] \in Seq(S)
                       /\ Len(F[n]) <= n
                       /\ \E f : Picks(F[n], s, keep, n, f)
           Good == {n \in Nat : n <= Len(s) => Sound(n)}
<1>0. /\ F[0] = <<>>
      /\ \A i \in 1..Len(s) : F[i] = IF s[i] \in keep THEN Append(F[i - 1], s[i]) ELSE F[i - 1]
  <2>1. Len(s) \in Nat
    OBVIOUS
  <2> HIDE DEF F
  <2>2. F = [i \in 0..Len(s) |-> IF i = 0 THEN <<>>
                                 ELSE IF s[i] \in keep THEN Append(F[i - 1], s[i])
                                 ELSE F[i - 1]]
    BY RetainedDefined DEF F
  <2>3. F[0] = <<>>
    BY <2>1, <2>2
  <2>4. ASSUME NEW i \in 1..Len(s)
        PROVE  F[i] = IF s[i] \in keep THEN Append(F[i - 1], s[i]) ELSE F[i - 1]
    <3>1. i \in 0..Len(s) /\ i # 0
      BY <2>1
    <3> QED
      BY <2>2, <3>1
  <2> QED
    BY <2>3, <2>4
<1> HIDE DEF F
<1>1. Sound(0)
  <2> DEFINE f == [i \in 1..0 |-> 0]
  <2>1. F[0] \in Seq(S) /\ Len(F[0]) = 0
    BY <1>0
  <2>2. Picks(F[0], s, keep, 0, f)
    BY <2>1 DEF Picks
  <2> QED
    BY <2>1, <2>2
<1>2. ASSUME NEW n \in Nat, n + 1 <= Len(s), Sound(n) PROVE Sound(n + 1)
  <2>1. n + 1 \in 1..Len(s) /\ s[n + 1] \in S
    BY <1>2
  <2>2. PICK f : Picks(F[n], s, keep, n, f)
    BY <1>2
  <2>3. F[n] \in Seq(S) /\ Len(F[n]) \in Nat /\ Len(F[n]) <= n
    BY <1>2
  <2>4. CASE s[n + 1] \in keep
    <3> DEFINE m == Len(F[n])
               g == [i \in 1..(m + 1) |-> IF i = m + 1 THEN n + 1 ELSE f[i]]
    <3>1. F[n + 1] = Append(F[n], s[n + 1])
      <4>1. (n + 1) - 1 = n
        OBVIOUS
      <4> QED
        BY <1>0, <2>1, <2>4, <4>1
    <3>2. /\ F[n + 1] \in Seq(S) /\ Len(F[n + 1]) = m + 1
          /\ F[n + 1][m + 1] = s[n + 1]
          /\ \A i \in 1..m : F[n + 1][i] = F[n][i]
      BY <2>1, <2>3, <3>1
    <3>3. m \in Nat /\ m <= n
      BY <2>3
    <3>4. /\ f \in [1..m -> 1..n]
          /\ \A i \in 1..m : F[n][i] = s[f[i]] /\ F[n][i] \in keep
          /\ \A i, j \in 1..m : i < j => f[i] < f[j]
          /\ \A k \in 1..n : s[k] \in keep => \E i \in 1..m : f[i] = k
      BY <2>2 DEF Picks
    <3> HIDE DEF m
    <3>5. g \in [1..(m + 1) -> 1..(n + 1)] /\ g[m + 1] = n + 1 /\ \A i \in 1..m : g[i] = f[i]
      BY <3>3, <3>4
    <3> HIDE DEF g
    <3>6. \A i \in 1..(m + 1) : F[n + 1][i] = s[g[i]] /\ F[n + 1][i] \in keep
      <4> SUFFICES ASSUME NEW i \in 1..(m + 1)
                   PROVE  F[n + 1][i] = s[g[i]] /\ F[n + 1][i] \in keep
        OBVIOUS
      <4>1. CASE i = m + 1
        BY <2>4, <3>2, <3>5, <4>1
      <4>2. CASE i \in 1..m
        BY <3>2, <3>4, <3>5, <4>2
      <4> QED
        BY <3>3, <4>1, <4>2
    <3>7. \A i, j \in 1..(m + 1) : i < j => g[i] < g[j]
      <4> SUFFICES ASSUME NEW i \in 1..(m + 1), NEW j \in 1..(m + 1), i < j
                   PROVE  g[i] < g[j]
        OBVIOUS
      <4>1. i \in 1..m /\ f[i] \in 1..n
        BY <3>3, <3>4
      <4>2. CASE j = m + 1
        BY <3>5, <4>1, <4>2
      <4>3. CASE j \in 1..m
        BY <3>4, <3>5, <4>1, <4>3
      <4> QED
        BY <3>3, <4>2, <4>3
    <3>8. \A k \in 1..(n + 1) : s[k] \in keep => \E i \in 1..(m + 1) : g[i] = k
      <4> SUFFICES ASSUME NEW k \in 1..(n + 1), s[k] \in keep
                   PROVE  \E i \in 1..(m + 1) : g[i] = k
        OBVIOUS
      <4>1. CASE k = n + 1
        BY <3>3, <3>5, <4>1
      <4>2. CASE k \in 1..n
        <5>1. PICK i \in 1..m : f[i] = k
          BY <3>4, <4>2
        <5>2. i \in 1..(m + 1)
          BY <3>3
        <5> QED
          BY <3>5, <5>1, <5>2
      <4> QED
        BY <4>1, <4>2
    <3>9. Picks(F[n + 1], s, keep, n + 1, g)
      BY <3>2, <3>5, <3>6, <3>7, <3>8 DEF Picks
    <3> QED
      BY <3>2, <3>3, <3>9
  <2>5. CASE s[n + 1] \notin keep
    <3>1. F[n + 1] = F[n]
      BY <1>0, <2>1, <2>5
    <3>2. /\ f \in [1..Len(F[n]) -> 1..(n + 1)]
          /\ \A k \in 1..(n + 1) : s[k] \in keep => k \in 1..n
      <4>1. 1..n \subseteq 1..(n + 1)
        OBVIOUS
      <4>2. f \in [1..Len(F[n]) -> 1..n]
        BY <2>2 DEF Picks
      <4> QED
        BY <2>5, <4>1, <4>2
    <3>3. Picks(F[n], s, keep, n + 1, f)
      BY <2>2, <3>2 DEF Picks
    <3> QED
      BY <2>3, <3>1, <3>3
  <2> QED
    BY <2>4, <2>5
<1> HIDE DEF Sound
<1>3. 0 \in Good
  BY <1>1
<1>4. ASSUME NEW n \in Nat, n \in Good PROVE n + 1 \in Good
  BY <1>2, <1>4
<1> HIDE DEF Good
<1>5. Len(s) \in Good /\ Len(s) \in Nat
  BY <1>3, <1>4, Induction
<1>6. Sound(Len(s))
  BY <1>5 DEF Good
<1> QED
  BY <1>6 DEF Sound, Retain, F

(* retain shortens a list that holds something else. *)
LEMMA RetainShortens ==
  ASSUME NEW S, NEW s \in Seq(S), NEW keep, NEW k \in 1..Len(s), s[k] \notin keep
  PROVE  Len(Retain(s, keep)) < Len(s)
<1> DEFINE r == Retain(s, keep)
<1>1. r \in Seq(S) /\ Len(r) <= Len(s)
  BY RetainProperties
<1>2. PICK f : Picks(r, s, keep, Len(s), f)
  BY RetainProperties
<1> HIDE DEF r
<1>3. Len(r) \in Nat /\ Len(s) \in Nat
  BY <1>1
<1>4. f \in Injection(1..Len(r), 1..Len(s))
  <2>1. \A i, j \in 1..Len(r) : f[i] = f[j] => i = j
    <3> SUFFICES ASSUME NEW i \in 1..Len(r), NEW j \in 1..Len(r), f[i] = f[j], i # j
                 PROVE  FALSE
      OBVIOUS
    <3>1. f[i] \in Int /\ f[j] \in Int /\ (i < j \/ j < i)
      BY <1>2 DEF Picks
    <3>2. f[i] < f[j] \/ f[j] < f[i]
      BY <1>2, <3>1 DEF Picks
    <3> QED
      BY <3>1, <3>2
  <2> QED
    BY <1>2, <2>1 DEF Picks, Injection, IsInjective
<1>5. f \notin Surjection(1..Len(r), 1..Len(s))
  <2>1. \A i \in 1..Len(r) : f[i] # k
    BY <1>2 DEF Picks
  <2> QED
    BY <2>1 DEF Surjection
<1>6. /\ IsFiniteSet(1..Len(s)) /\ Cardinality(1..Len(s)) = Len(s)
      /\ Cardinality(1..Len(r)) = Len(r)
  <2>1. 1 \in Int /\ Len(s) \in Int /\ Len(r) \in Int
    BY <1>3
  <2>2. /\ IsFiniteSet(1..Len(s)) /\ Cardinality(1..Len(s)) = IF 1 > Len(s) THEN 0 ELSE Len(s) - 1 + 1
        /\ Cardinality(1..Len(r)) = IF 1 > Len(r) THEN 0 ELSE Len(r) - 1 + 1
    BY <2>1, FS_Interval
  <2> QED
    BY <1>3, <2>2
<1>7. Len(r) # Len(s)
  BY <1>4, <1>5, <1>6, FS_Injection
<1> QED
  BY <1>1, <1>3, <1>7 DEF r

=============================================================================
