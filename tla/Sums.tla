--------------------------------- MODULE Sums ---------------------------------
(***************************************************************************)
(* Facts about the sums of the community modules (SumFunctionOnSet), which *)
(* fold a recursive function over the subsets of a finite set.             *)
(*                                                                         *)
(* Induction goes by a smallest counterexample: a set of finite sets that  *)
(* is not empty has a member none of whose proper subsets is in it.        *)
(***************************************************************************)
EXTENDS Integers, Functions, FiniteSetTheorems, TLAPS

Minimal(M, X) == M \in X /\ \A s \in X : s \subseteq M => s = M

LEMMA Smallest ==
    ASSUME NEW S, NEW X \in SUBSET FiniteSubsetsOf(S), X # {}
    PROVE  \E M : Minimal(M, X)
<1>1. PICK M \in X : \A s \in X : ~(<<s, M>> \in StrictSubsetOrdering(S))
  BY FS_StrictSubsetOrderingWellFounded, WFMin
<1>2. \A s \in X : s \in SUBSET S /\ IsFiniteSet(s)
  BY DEF FiniteSubsetsOf
<1>3. \A s \in X : s \subseteq M => s = M
  BY <1>1, <1>2 DEF StrictSubsetOrdering
<1> QED
  BY <1>3 DEF Minimal

\* What holds of the empty set, and of s with one element more if it does of
\* s, holds of every finite set.  P is the set of the sets it holds of.
LEMMA Growing ==
    ASSUME NEW S, IsFiniteSet(S), NEW P, {} \in P,
           \A s \in P : \A x \in S \ s : s \subseteq S => s \cup {x} \in P
    PROVE  S \in P
<1> DEFINE Bad == {s \in FiniteSubsetsOf(S) : s \notin P}
<1>1. Bad = {}
  <2> SUFFICES ASSUME Bad # {} PROVE FALSE
    OBVIOUS
  <2>1. Bad \in SUBSET FiniteSubsetsOf(S)
    OBVIOUS
  <2>2. PICK M : Minimal(M, Bad)
    <3> HIDE DEF Bad
    <3> QED
      BY <2>1, Smallest
  <2>3. M \subseteq S /\ IsFiniteSet(M) /\ M \notin P
    BY <2>2 DEF Minimal, FiniteSubsetsOf
  <2>4. PICK x \in M : TRUE
    BY <2>3
  <2>5. M \ {x} \in FiniteSubsetsOf(S) /\ M \ {x} # M /\ M \ {x} \subseteq M
    BY <2>3, <2>4, FS_Subset DEF FiniteSubsetsOf
  <2>6. M \ {x} \in P
    BY <2>2, <2>5 DEF Minimal
  <2>7. (M \ {x}) \cup {x} = M
    BY <2>4
  <2> QED
    BY <2>3, <2>4, <2>6, <2>7
<1> QED
  BY <1>1 DEF FiniteSubsetsOf

\* So does a set of numbers have a least one.
LEMMA LeastNumber ==
    ASSUME NEW S \in SUBSET Nat, S # {}
    PROVE  \E x \in S : \A y \in S : x <= y
<1> DEFINE X == {0 .. n : n \in S}
<1>1. \A n \in S : 0 .. n \in FiniteSubsetsOf(Nat)
  BY FS_Interval DEF FiniteSubsetsOf
<1>2. X \in SUBSET FiniteSubsetsOf(Nat) /\ X # {}
  BY <1>1
<1>3. PICK M : Minimal(M, X)
  <2> HIDE DEF X
  <2> QED
    BY <1>2, Smallest
<1>4. PICK n \in S : M = 0 .. n
  BY <1>3 DEF Minimal
<1>5. ASSUME NEW y \in S PROVE n <= y
  <2>1. CASE n <= y
    BY <2>1
  <2>2. CASE y < n
    <3>1. 0 .. y \subseteq 0 .. n /\ n \notin 0 .. y /\ n \in 0 .. n
      BY <2>2
    <3>2. 0 .. y = 0 .. n
      BY <1>3, <1>4, <3>1 DEF Minimal
    <3> QED
      BY <3>1, <3>2
  <2> QED
    BY <2>1, <2>2
<1> QED
  BY <1>5

\* What holds of 0, and of n if of n - 1, holds up to N.  P is the set of the
\* numbers it holds of.
LEMMA UpTo ==
    ASSUME NEW N \in Nat, NEW P, 0 \in P, \A n \in 1 .. N : n - 1 \in P => n \in P
    PROVE  \A n \in 0 .. N : n \in P
<1> DEFINE Bad == {n \in 0 .. N : n \notin P}
<1> SUFFICES ASSUME Bad # {} PROVE FALSE
  OBVIOUS
<1>1. Bad \in SUBSET Nat
  OBVIOUS
<1>2. PICK m \in Bad : \A y \in Bad : m <= y
  <2> HIDE DEF Bad
  <2> QED
    BY <1>1, LeastNumber
<1>3. m \in 1 .. N /\ m - 1 \in 0 .. N
  BY <1>2
<1>4. m - 1 \in P
  BY <1>2, <1>3
<1> QED
  BY <1>2, <1>3, <1>4

\* The function w starts at base and goes on by step, in D, up to N.
GoesOn(w, N, D, base, step) ==
    /\ w = [n \in 0 .. N |-> w[n]] /\ \A n \in 0 .. N : w[n] \in D
    /\ w[0] = base /\ \A n \in 1 .. N : w[n] = step[n][w[n - 1]]

\* A function that steps through 0 .. N exists.
LEMMA Stepping ==
    ASSUME NEW N \in Nat, NEW D, NEW base \in D,
           NEW step, \A n \in 1 .. N : \A d \in D : step[n][d] \in D
    PROVE  \E w : GoesOn(w, N, D, base, step)
<1> DEFINE Good(w, m) ==
             /\ w = [n \in 0 .. N |-> w[n]] /\ \A n \in 0 .. N : w[n] \in D
             /\ w[0] = base /\ \A n \in 1 .. m : w[n] = step[n][w[n - 1]]
           P == {m \in 0 .. N : \E w : Good(w, m)}
<1>1. 0 \in P
  <2> DEFINE v == [n \in 0 .. N |-> base]
  <2>1. Good(v, 0)
    OBVIOUS
  <2> HIDE DEF v, Good
  <2> QED
    BY <2>1
<1>2. ASSUME NEW m \in 1 .. N, m - 1 \in P PROVE m \in P
  <2>1. PICK w : Good(w, m - 1)
    BY <1>2
  <2> DEFINE v == [n \in 0 .. N |-> IF n = m THEN step[m][w[m - 1]] ELSE w[n]]
  <2>2. m - 1 \in 0 .. N /\ m \in 0 .. N
    OBVIOUS
  <2>3. \A n \in 0 .. N : v[n] = IF n = m THEN step[m][w[m - 1]] ELSE w[n]
    OBVIOUS
  <2>4. \A n \in 0 .. N : v[n] \in D
    BY <2>1, <2>2, <2>3
  <2>5. v = [n \in 0 .. N |-> v[n]]
    OBVIOUS
  <2> HIDE DEF v
  <2>6. v[0] = base
    BY <2>1, <2>2, <2>3
  <2>7. ASSUME NEW n \in 1 .. m PROVE v[n] = step[n][v[n - 1]]
    <3>1. n \in 0 .. N /\ n - 1 \in 0 .. N /\ n - 1 # m
      BY <2>2
    <3>2. v[n - 1] = w[n - 1]
      BY <2>3, <3>1
    <3>3. CASE n = m
      BY <2>2, <2>3, <3>2, <3>3
    <3>4. CASE n # m
      <4>1. n \in 1 .. m - 1
        BY <3>4
      <4> QED
        BY <2>1, <2>3, <3>1, <3>2, <3>4, <4>1
    <3> QED
      BY <3>3, <3>4
  <2>8. Good(v, m)
    BY <2>4, <2>5, <2>6, <2>7
  <2> HIDE DEF Good
  <2> QED
    BY <2>2, <2>8
<1>3. \A m \in 0 .. N : m \in P
  <2> HIDE DEF P
  <2> QED
    BY <1>1, <1>2, UpTo, Zenon
<1>4. \E w : Good(w, N)
  <2> HIDE DEF Good
  <2> QED
    BY <1>3
<1> QED
  BY <1>4 DEF GoesOn

(***************************************************************************)
(* The function that the fold defines.                                     *)
(***************************************************************************)
Pick(s) == CHOOSE x \in s : TRUE
Less(s) == s \ {Pick(s)}

IsSum(g, f, S) ==
    g = [s \in SUBSET S |-> IF s = {} THEN 0 ELSE f[Pick(s)] + g[Less(s)]]

SumOf(f, S) == CHOOSE g : IsSum(g, f, S)

LEMMA SumUnfolded ==
    ASSUME NEW f, NEW S
    PROVE  SumFunctionOnSet(f, S) = SumOf(f, S)[S]
BY DEF SumFunctionOnSet, FoldFunctionOnSet, MapThenFoldSet, SumOf, IsSum, Pick, Less

LEMMA Picked ==
    ASSUME NEW s, s # {}
    PROVE  Pick(s) \in s /\ Less(s) \subseteq s /\ Less(s) # s
BY DEF Pick, Less

LEMMA IsSumAt ==
    ASSUME NEW g, NEW f, NEW S, IsSum(g, f, S), NEW s \in SUBSET S
    PROVE  g[s] = IF s = {} THEN 0 ELSE f[Pick(s)] + g[Less(s)]
BY DEF IsSum

LEMMA SumsAgree ==
    ASSUME NEW f, NEW g, NEW h, NEW S, NEW T, IsSum(g, f, S), IsSum(h, f, T),
           NEW U, IsFiniteSet(U), U \subseteq S, U \subseteq T
    PROVE  g[U] = h[U]
<1> DEFINE Wrong == {s \in FiniteSubsetsOf(U) : g[s] # h[s]}
<1> SUFFICES ASSUME Wrong # {} PROVE FALSE
  BY DEF FiniteSubsetsOf
<1>0. Wrong \in SUBSET FiniteSubsetsOf(U)
  OBVIOUS
<1>1. PICK M : Minimal(M, Wrong)
  <2> HIDE DEF Wrong
  <2> QED
    BY <1>0, Smallest
<1>2. M \subseteq U /\ IsFiniteSet(M) /\ g[M] # h[M]
  BY <1>1 DEF Minimal, FiniteSubsetsOf
<1>3. /\ g[M] = IF M = {} THEN 0 ELSE f[Pick(M)] + g[Less(M)]
      /\ h[M] = IF M = {} THEN 0 ELSE f[Pick(M)] + h[Less(M)]
  BY <1>2, IsSumAt
<1>4. M # {} /\ g[Less(M)] # h[Less(M)]
  BY <1>2, <1>3
<1>5. Less(M) \subseteq M /\ Less(M) # M /\ IsFiniteSet(Less(M))
  BY <1>2, <1>4, Picked, FS_Subset
<1>6. Less(M) \in Wrong
  BY <1>2, <1>4, <1>5 DEF FiniteSubsetsOf
<1> QED
  BY <1>1, <1>5, <1>6 DEF Minimal

LEMMA SumExists ==
    ASSUME NEW f, NEW S, IsFiniteSet(S)
    PROVE  IsSum(SumOf(f, S), f, S)
<1> DEFINE Bad == {s \in FiniteSubsetsOf(S) : ~ \E g : IsSum(g, f, s)}
<1>1. ASSUME Bad # {} PROVE FALSE
  <2>0. Bad \in SUBSET FiniteSubsetsOf(S)
    OBVIOUS
  <2>a. PICK M : Minimal(M, Bad)
    <3> HIDE DEF Bad
    <3> QED
      BY <1>1, <2>0, Smallest
  <2>1. /\ M \in Bad /\ M \subseteq S /\ IsFiniteSet(M)
        /\ \A s \in Bad : s \subseteq M => s = M
    BY <2>a DEF Minimal, FiniteSubsetsOf
  <2>2. ASSUME NEW s \in SUBSET M, s # M PROVE IsSum(SumOf(f, s), f, s) /\ IsFiniteSet(s)
    <3>1. IsFiniteSet(s)
      BY <2>1, FS_Subset
    <3>2. s \in FiniteSubsetsOf(S)
      BY <2>1, <3>1 DEF FiniteSubsetsOf
    <3>3. \E g : IsSum(g, f, s)
      BY <2>1, <2>2, <3>2
    <3> QED
      BY <3>1, <3>3 DEF SumOf
  <2> DEFINE Value(s) == SumOf(f, s)[s]
  <2>3. ASSUME NEW s \in SUBSET M, s # M
        PROVE  Value(s) = IF s = {} THEN 0 ELSE f[Pick(s)] + Value(Less(s))
    <3>1. IsSum(SumOf(f, s), f, s) /\ IsFiniteSet(s)
      BY <2>2, <2>3
    <3>2. SumOf(f, s)[s] = IF s = {} THEN 0 ELSE f[Pick(s)] + SumOf(f, s)[Less(s)]
      BY <3>1, IsSumAt
    <3>3. CASE s = {}
      BY <3>2, <3>3
    <3>4. CASE s # {}
      <4>1. Less(s) \subseteq s /\ Less(s) # s
        BY <3>4, Picked
      <4>2. Less(s) \in SUBSET M /\ Less(s) # M
        BY <2>3, <4>1
      <4>3. IsSum(SumOf(f, Less(s)), f, Less(s)) /\ IsFiniteSet(Less(s))
        BY <2>2, <4>2
      <4>4. SumOf(f, s)[Less(s)] = SumOf(f, Less(s))[Less(s)]
        BY <3>1, <4>1, <4>3, SumsAgree
      <4> QED
        BY <3>2, <4>4, <3>4
    <3> QED
      BY <3>3, <3>4
  <2> DEFINE g == [s \in SUBSET M |->
                     IF s = M THEN (IF s = {} THEN 0 ELSE f[Pick(s)] + Value(Less(s)))
                     ELSE Value(s)]
  <2>4. ASSUME NEW s \in SUBSET M
        PROVE  g[s] = IF s = {} THEN 0 ELSE f[Pick(s)] + g[Less(s)]
    <3>1. s # {} => Less(s) \in SUBSET M /\ Less(s) # M
      BY Picked
    <3>2. s # {} => g[Less(s)] = Value(Less(s))
      BY <3>1
    <3>3. g[s] = IF s = {} THEN 0 ELSE f[Pick(s)] + Value(Less(s))
      BY <2>3
    <3> QED
      BY <3>2, <3>3
  <2>5. g = [s \in SUBSET M |-> IF s = {} THEN 0 ELSE f[Pick(s)] + g[Less(s)]]
    <3> HIDE DEF Value
    <3> QED
      BY <2>4
  <2>6. IsSum(g, f, M)
    <3> HIDE DEF g
    <3> QED
      BY <2>5 DEF IsSum
  <2> QED
    BY <2>1, <2>6
<1>2. \E g : IsSum(g, f, S)
  BY <1>1 DEF FiniteSubsetsOf
<1> QED
  BY <1>2 DEF SumOf

(***************************************************************************)
(* What a sum is.                                                          *)
(***************************************************************************)
LEMMA SumNone ==
    ASSUME NEW f
    PROVE  SumFunctionOnSet(f, {}) = 0
<1>1. IsSum(SumOf(f, {}), f, {})
  BY SumExists, FS_EmptySet
<1>2. SumOf(f, {})[{}] = 0
  BY <1>1, IsSumAt
<1> QED
  BY <1>2, SumUnfolded

LEMMA SumPicked ==
    ASSUME NEW f, NEW S, IsFiniteSet(S), S # {}
    PROVE  SumFunctionOnSet(f, S) = f[Pick(S)] + SumFunctionOnSet(f, Less(S))
<1>1. Less(S) \subseteq S /\ IsFiniteSet(Less(S))
  BY Picked, FS_Subset
<1>2. IsSum(SumOf(f, S), f, S) /\ IsSum(SumOf(f, Less(S)), f, Less(S))
  BY <1>1, SumExists
<1>3. SumOf(f, S)[S] = f[Pick(S)] + SumOf(f, S)[Less(S)]
  BY <1>2, IsSumAt
<1>4. SumOf(f, S)[Less(S)] = SumOf(f, Less(S))[Less(S)]
  BY <1>1, <1>2, SumsAgree
<1> QED
  BY <1>3, <1>4, SumUnfolded

\* Every element can be taken first.
LEMMA SumTaken ==
    ASSUME NEW f, NEW S, IsFiniteSet(S), \A x \in S : f[x] \in Int
    PROVE  /\ SumFunctionOnSet(f, S) \in Int
           /\ \A x \in S : SumFunctionOnSet(f, S) = f[x] + SumFunctionOnSet(f, S \ {x})
<1> DEFINE Fine(s) == /\ SumFunctionOnSet(f, s) \in Int
                      /\ \A x \in s : SumFunctionOnSet(f, s)
                                        = f[x] + SumFunctionOnSet(f, s \ {x})
           Bad == {s \in FiniteSubsetsOf(S) : ~Fine(s)}
<1>1. Bad = {}
  <2> SUFFICES ASSUME Bad # {} PROVE FALSE
    OBVIOUS
  <2>1. Bad \in SUBSET FiniteSubsetsOf(S)
    OBVIOUS
  <2>2. PICK M : Minimal(M, Bad)
    <3> HIDE DEF Bad
    <3> QED
      BY <2>1, Smallest
  <2>3. M \subseteq S /\ IsFiniteSet(M) /\ ~Fine(M)
    BY <2>2 DEF Minimal, FiniteSubsetsOf
  <2>4. ASSUME NEW s \in SUBSET M, s # M PROVE Fine(s)
    <3>1. s \in FiniteSubsetsOf(S)
      BY <2>3, FS_Subset DEF FiniteSubsetsOf
    <3> QED
      BY <2>2, <2>4, <3>1 DEF Minimal
  <2>5. M # {}
    BY <2>3, SumNone
  <2> DEFINE p == Pick(M)
  <2>6. p \in M /\ Less(M) = M \ {p}
    BY <2>5, Picked DEF Less
  <2>7. SumFunctionOnSet(f, M) = f[p] + SumFunctionOnSet(f, M \ {p})
    BY <2>3, <2>5, <2>6, SumPicked
  <2> HIDE DEF p
  <2>8. f[p] \in Int /\ SumFunctionOnSet(f, M \ {p}) \in Int
    <3>1. Fine(M \ {p})
      BY <2>4, <2>6
    <3> QED
      BY <2>3, <2>6, <3>1
  <2>9. ASSUME NEW x \in M
        PROVE  SumFunctionOnSet(f, M) = f[x] + SumFunctionOnSet(f, M \ {x})
    <3>1. CASE x = p
      BY <2>7, <3>1
    <3>2. CASE x # p
      <4>1. SumFunctionOnSet(f, M \ {p})
              = f[x] + SumFunctionOnSet(f, (M \ {p}) \ {x})
        <5>1. Fine(M \ {p})
          BY <2>4, <2>6
        <5> QED
          BY <5>1, <3>2, <2>9
      <4>2. SumFunctionOnSet(f, M \ {x})
              = f[p] + SumFunctionOnSet(f, (M \ {x}) \ {p})
        <5>1. Fine(M \ {x})
          BY <2>4, <2>9
        <5> QED
          BY <5>1, <3>2, <2>6
      <4>3. (M \ {p}) \ {x} = (M \ {x}) \ {p}
        OBVIOUS
      <4>4. SumFunctionOnSet(f, (M \ {p}) \ {x}) \in Int
        <5>1. Fine((M \ {p}) \ {x})
          BY <2>4, <2>6
        <5> QED
          BY <5>1
      <4>5. f[x] \in Int
        BY <2>3, <2>9
      <4> DEFINE rest == SumFunctionOnSet(f, (M \ {p}) \ {x})
      <4>6. SumFunctionOnSet(f, M) = f[p] + (f[x] + rest)
        BY <2>7, <4>1
      <4>7. SumFunctionOnSet(f, M \ {x}) = f[p] + rest
        BY <4>2, <4>3, Zenon
      <4>8. rest \in Int
        BY <4>4
      <4> HIDE DEF rest
      <4>9. f[p] + (f[x] + rest) = f[x] + (f[p] + rest)
        BY <2>8, <4>5, <4>8
      <4> QED
        BY <4>6, <4>7, <4>9, Zenon
    <3> QED
      BY <3>1, <3>2
  <2>10. SumFunctionOnSet(f, M) \in Int
    <3>1. \A a, b \in Int : a + b \in Int
      OBVIOUS
    <3> QED
      BY <2>7, <2>8, <3>1
  <2>11. Fine(M)
    BY <2>9, <2>10
  <2> QED
    BY <2>3, <2>11
<1>2. S \in FiniteSubsetsOf(S)
  BY DEF FiniteSubsetsOf
<1>3. Fine(S)
  BY <1>1, <1>2
<1> QED
  BY <1>3

LEMMA SumWith ==
    ASSUME NEW f, NEW S, IsFiniteSet(S), NEW x, x \notin S,
           f[x] \in Int, \A y \in S : f[y] \in Int
    PROVE  SumFunctionOnSet(f, S \cup {x}) = f[x] + SumFunctionOnSet(f, S)
<1>1. IsFiniteSet(S \cup {x})
  BY FS_AddElement
<1>2. \A y \in S \cup {x} : f[y] \in Int
  OBVIOUS
<1>3. SumFunctionOnSet(f, S \cup {x}) = f[x] + SumFunctionOnSet(f, (S \cup {x}) \ {x})
  BY <1>1, <1>2, SumTaken
<1>4. (S \cup {x}) \ {x} = S
  OBVIOUS
<1> QED
  BY <1>3, <1>4, Zenon

(***************************************************************************)
(* Sums of the same elements.                                              *)
(***************************************************************************)
LEMMA SumNatural ==
    ASSUME NEW f, NEW S, IsFiniteSet(S), \A x \in S : f[x] \in Nat
    PROVE  SumFunctionOnSet(f, S) \in Nat
<1> DEFINE P == {s \in SUBSET S : SumFunctionOnSet(f, s) \in Nat}
<1>1. {} \in P
  BY SumNone
<1>2. ASSUME NEW s \in P, NEW x \in S \ s PROVE s \cup {x} \in P
  <2>1. IsFiniteSet(s) /\ \A y \in s : f[y] \in Int
    BY FS_Subset
  <2>2. SumFunctionOnSet(f, s \cup {x}) = f[x] + SumFunctionOnSet(f, s)
    BY <2>1, SumWith
  <2>3. SumFunctionOnSet(f, s) \in Nat /\ f[x] \in Nat
    OBVIOUS
  <2>4. \A a, b \in Nat : a + b \in Nat
    OBVIOUS
  <2> QED
    BY <2>2, <2>3, <2>4
<1>3. S \in P
  <2> HIDE DEF P
  <2> QED
    BY <1>1, <1>2, Growing
<1> QED
  BY <1>3

\* The sum of smaller terms is smaller.
LEMMA SumOrdered ==
    ASSUME NEW f, NEW g, NEW S, IsFiniteSet(S),
           \A x \in S : f[x] \in Int /\ g[x] \in Int /\ f[x] <= g[x]
    PROVE  SumFunctionOnSet(f, S) <= SumFunctionOnSet(g, S)
<1> DEFINE P == {s \in SUBSET S : SumFunctionOnSet(f, s) <= SumFunctionOnSet(g, s)}
<1>1. {} \in P
  BY SumNone
<1>2. ASSUME NEW s \in P, NEW x \in S \ s PROVE s \cup {x} \in P
  <2>1. IsFiniteSet(s) /\ \A y \in s : f[y] \in Int /\ g[y] \in Int
    BY FS_Subset
  <2>2. /\ SumFunctionOnSet(f, s \cup {x}) = f[x] + SumFunctionOnSet(f, s)
        /\ SumFunctionOnSet(g, s \cup {x}) = g[x] + SumFunctionOnSet(g, s)
    BY <2>1, SumWith
  <2>3. SumFunctionOnSet(f, s) \in Int /\ SumFunctionOnSet(g, s) \in Int
    BY <2>1, SumTaken
  <2>4. \A a, b, c, d \in Int : a <= b /\ c <= d => a + c <= b + d
    OBVIOUS
  <2>5. f[x] \in Int /\ g[x] \in Int /\ f[x] <= g[x]
    OBVIOUS
  <2>6. SumFunctionOnSet(f, s) <= SumFunctionOnSet(g, s)
    OBVIOUS
  <2>7. f[x] + SumFunctionOnSet(f, s) <= g[x] + SumFunctionOnSet(g, s)
    BY <2>3, <2>4, <2>5, <2>6
  <2> QED
    BY <2>2, <2>7
<1>3. S \in P
  <2> HIDE DEF P
  <2> QED
    BY <1>1, <1>2, Growing
<1> QED
  BY <1>3

LEMMA SumSame ==
    ASSUME NEW f, NEW g, NEW S, IsFiniteSet(S), \A x \in S : f[x] \in Int /\ g[x] = f[x]
    PROVE  SumFunctionOnSet(g, S) = SumFunctionOnSet(f, S)
<1>1. /\ SumFunctionOnSet(f, S) <= SumFunctionOnSet(g, S)
      /\ SumFunctionOnSet(g, S) <= SumFunctionOnSet(f, S)
  BY SumOrdered
<1>2. SumFunctionOnSet(f, S) \in Int /\ SumFunctionOnSet(g, S) \in Int
  BY SumTaken
<1>3. \A a, b \in Int : a <= b /\ b <= a => a = b
  OBVIOUS
<1> QED
  BY <1>1, <1>2, <1>3

LEMMA SumZero ==
    ASSUME NEW f, NEW S, IsFiniteSet(S), \A x \in S : f[x] = 0
    PROVE  SumFunctionOnSet(f, S) = 0
<1> DEFINE P == {s \in SUBSET S : SumFunctionOnSet(f, s) = 0}
<1>1. {} \in P
  BY SumNone
<1>2. ASSUME NEW s \in P, NEW x \in S \ s PROVE s \cup {x} \in P
  <2>1. IsFiniteSet(s) /\ f[x] \in Int /\ \A y \in s : f[y] \in Int
    BY FS_Subset
  <2>2. SumFunctionOnSet(f, s \cup {x}) = f[x] + SumFunctionOnSet(f, s)
    BY <2>1, SumWith
  <2> QED
    BY <2>2
<1>3. S \in P
  <2> HIDE DEF P
  <2> QED
    BY <1>1, <1>2, Growing
<1> QED
  BY <1>3

\* One term has grown by n.
LEMMA SumRaised ==
    ASSUME NEW f, NEW g, NEW S, IsFiniteSet(S), \A y \in S : f[y] \in Int,
           NEW x \in S, NEW n \in Int, g[x] = f[x] + n,
           \A y \in S \ {x} : g[y] = f[y]
    PROVE  SumFunctionOnSet(g, S) = SumFunctionOnSet(f, S) + n
<1>1. IsFiniteSet(S \ {x})
  BY FS_Subset
<1>2. SumFunctionOnSet(g, S \ {x}) = SumFunctionOnSet(f, S \ {x})
  BY <1>1, SumSame
<1>3. SumFunctionOnSet(f, S) = f[x] + SumFunctionOnSet(f, S \ {x})
  BY SumTaken
<1>4. \A y \in S : g[y] \in Int
  OBVIOUS
<1>5. SumFunctionOnSet(g, S) = g[x] + SumFunctionOnSet(g, S \ {x})
  BY <1>4, SumTaken
<1>6. SumFunctionOnSet(f, S \ {x}) \in Int
  BY <1>1, SumTaken
<1>7. \A a, b \in Int : (a + n) + b = (a + b) + n
  OBVIOUS
<1>8. f[x] \in Int
  OBVIOUS
<1> QED
  BY <1>2, <1>3, <1>5, <1>6, <1>7, <1>8

(***************************************************************************)
(* Sums of other elements.                                                 *)
(***************************************************************************)
LEMMA SumJoined ==
    ASSUME NEW f, NEW S, NEW T, IsFiniteSet(S), IsFiniteSet(T), S \cap T = {},
           \A x \in S \cup T : f[x] \in Int
    PROVE  SumFunctionOnSet(f, S \cup T) = SumFunctionOnSet(f, S) + SumFunctionOnSet(f, T)
<1> DEFINE P == {s \in SUBSET S : SumFunctionOnSet(f, s \cup T)
                                    = SumFunctionOnSet(f, s) + SumFunctionOnSet(f, T)}
<1>1. SumFunctionOnSet(f, T) \in Int
  BY SumTaken
<1>2. {} \in P
  <2>1. {} \cup T = T
    OBVIOUS
  <2>2. \A a \in Int : 0 + a = a
    OBVIOUS
  <2>3. SumFunctionOnSet(f, {} \cup T) = 0 + SumFunctionOnSet(f, T)
    BY <1>1, <2>1, <2>2
  <2> QED
    BY <2>3, SumNone
<1>3. ASSUME NEW s \in P, NEW x \in S \ s PROVE s \cup {x} \in P
  <2>1. IsFiniteSet(s) /\ IsFiniteSet(s \cup T)
    BY FS_Subset, FS_Union
  <2>2. f[x] \in Int /\ \A y \in s \cup T : f[y] \in Int
    OBVIOUS
  <2>3. x \notin s /\ x \notin s \cup T
    OBVIOUS
  <2>4. SumFunctionOnSet(f, s \cup {x}) = f[x] + SumFunctionOnSet(f, s)
    BY <2>1, <2>2, <2>3, SumWith
  <2>5. SumFunctionOnSet(f, (s \cup T) \cup {x}) = f[x] + SumFunctionOnSet(f, s \cup T)
    BY <2>1, <2>2, <2>3, SumWith
  <2>6. (s \cup {x}) \cup T = (s \cup T) \cup {x}
    OBVIOUS
  <2>7. SumFunctionOnSet(f, (s \cup {x}) \cup T)
          = f[x] + (SumFunctionOnSet(f, s) + SumFunctionOnSet(f, T))
    <3>1. SumFunctionOnSet(f, s \cup T) = SumFunctionOnSet(f, s) + SumFunctionOnSet(f, T)
      OBVIOUS
    <3> QED
      BY <2>5, <2>6, <3>1, Zenon
  <2>8. SumFunctionOnSet(f, s) \in Int
    BY <2>1, <2>2, SumTaken
  <2>9. \A a, b, c \in Int : a + (b + c) = (a + b) + c
    OBVIOUS
  <2>10. SumFunctionOnSet(f, (s \cup {x}) \cup T)
           = SumFunctionOnSet(f, s \cup {x}) + SumFunctionOnSet(f, T)
    BY <1>1, <2>2, <2>4, <2>7, <2>8, <2>9
  <2> QED
    BY <2>10
<1>4. S \in P
  <2> HIDE DEF P
  <2> QED
    BY <1>2, <1>3, Growing
<1> QED
  BY <1>4

LEMMA SumOfPart ==
    ASSUME NEW f, NEW S, IsFiniteSet(S), \A x \in S : f[x] \in Nat, NEW T \in SUBSET S
    PROVE  SumFunctionOnSet(f, T) <= SumFunctionOnSet(f, S)
<1>1. IsFiniteSet(T) /\ IsFiniteSet(S \ T)
  BY FS_Subset
<1>2. T \cap (S \ T) = {} /\ T \cup (S \ T) = S
  OBVIOUS
<1>3. \A x \in T \cup (S \ T) : f[x] \in Int
  OBVIOUS
<1>4. SumFunctionOnSet(f, T \cup (S \ T))
        = SumFunctionOnSet(f, T) + SumFunctionOnSet(f, S \ T)
  BY <1>1, <1>2, <1>3, SumJoined
<1>5. SumFunctionOnSet(f, S) = SumFunctionOnSet(f, T) + SumFunctionOnSet(f, S \ T)
  BY <1>2, <1>4, Zenon
<1>6. SumFunctionOnSet(f, T) \in Nat /\ SumFunctionOnSet(f, S \ T) \in Nat
  BY <1>1, SumNatural
<1>7. \A a, b \in Nat : a <= a + b
  OBVIOUS
<1> QED
  BY <1>5, <1>6, <1>7

\* The terms are the same, under other names: b renames them.
LEMMA SumRenamed ==
    ASSUME NEW f, NEW g, NEW b, NEW S, IsFiniteSet(S),
           \A x \in S : g[x] \in Int /\ f[b[x]] = g[x],
           \A x, y \in S : b[x] = b[y] => x = y
    PROVE  SumFunctionOnSet(f, {b[x] : x \in S}) = SumFunctionOnSet(g, S)
<1> DEFINE P == {s \in SUBSET S : /\ IsFiniteSet({b[x] : x \in s})
                                  /\ SumFunctionOnSet(f, {b[x] : x \in s})
                                       = SumFunctionOnSet(g, s)}
<1>1. {} \in P
  <2>1. {b[x] : x \in {}} = {}
    OBVIOUS
  <2>2. SumFunctionOnSet(f, {b[x] : x \in {}}) = SumFunctionOnSet(g, {})
    BY <2>1, SumNone
  <2>3. IsFiniteSet({b[x] : x \in {}})
    BY <2>1, FS_EmptySet
  <2> QED
    BY <2>2, <2>3
<1>2. ASSUME NEW s \in P, NEW x \in S \ s PROVE s \cup {x} \in P
  <2> DEFINE named == {b[y] : y \in s}
  <2>1. IsFiniteSet(s) /\ IsFiniteSet(named)
    BY FS_Subset
  <2>2. /\ SumFunctionOnSet(f, named) = SumFunctionOnSet(g, s)
        /\ {b[y] : y \in s \cup {x}} = named \cup {b[x]}
    OBVIOUS
  <2>3. b[x] \notin named /\ f[b[x]] = g[x] /\ g[x] \in Int
    OBVIOUS
  <2>4. (\A y \in named : f[y] \in Int) /\ (\A y \in s : g[y] \in Int)
    OBVIOUS
  <2>5. SumFunctionOnSet(g, s \cup {x}) = g[x] + SumFunctionOnSet(g, s)
    BY <2>1, <2>3, <2>4, SumWith
  <2>6. IsFiniteSet({b[y] : y \in s \cup {x}})
    <3> HIDE DEF named
    <3>1. IsFiniteSet(named \cup {b[x]})
      BY <2>1, FS_AddElement
    <3> QED
      BY <2>2, <3>1
  <2>7. SumFunctionOnSet(f, {b[y] : y \in s \cup {x}})
          = SumFunctionOnSet(g, s \cup {x})
    <3> HIDE DEF named
    <3>1. SumFunctionOnSet(f, named \cup {b[x]}) = f[b[x]] + SumFunctionOnSet(f, named)
      BY <2>1, <2>3, <2>4, SumWith
    <3> QED
      BY <2>2, <2>3, <2>5, <3>1, Zenon
  <2> QED
    BY <2>6, <2>7
<1>3. S \in P
  <2> HIDE DEF P
  <2> QED
    BY <1>1, <1>2, Growing
<1> QED
  BY <1>3

===============================================================================
