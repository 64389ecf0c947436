----------------------------- MODULE LimitsProofs -----------------------------
(***************************************************************************)
(* Proofs about the limits of calls and outputs (Limits), for any threads, *)
(* tools, limits and windows: rates and budget hold in every window, and   *)
(* the loop breaker lets no signature pass too often; and, at the end, of  *)
(* the matcher of path patterns (Glob), for any letters and lengths: its   *)
(* two loops accept what a pattern means.                                  *)
(***************************************************************************)
EXTENDS Limits, Glob, Sums, SequenceTheorems, FunctionTheorems

(***************************************************************************)
(* The inductive invariant.  What the code files lags behind the truth by  *)
(* at most Skew; so what was let pass within w is among what is filed to   *)
(* be younger than w + Skew.  Of a queue, which is emptied from the front, *)
(* this is said of every tail whose missing front is old enough.           *)
(***************************************************************************)
Limited == config.engine /\ config.enforcing /\ config.policyRate > 0

Rated ==
    \A t \in Tools :
        /\ SumFunction(history[t]) <= config.rate
        /\ \A w \in 1 .. Minute - Skew :
              Within(admitted[t], w) <= Within(history[t], w + Skew)

\* No fewer passed than are queued, and no fewer are queued than passed.
Tracks(queue, calls) ==
    /\ \A w \in 1 .. Minute - Skew, m \in 1 .. Len(queue) + 1 :
          (\A i \in 1 .. m - 1 : queue[i] >= w + Skew)
              => Within(calls, w) <= Len(queue) - m + 1
    /\ \A i \in 1 .. Len(queue) :
          queue[i] < Oldest => Len(queue) - i + 1 <= Within(calls, queue[i] + 1)

Queues == Limited => \A t \in Tools : Tracks(hits[t], passed[t])

Lately(s, x, k) == Cardinality({i \in DOMAIN s : s[i] = x /\ i > Len(s) - k})

Loops ==
    /\ Len(examined) <= Recent
    /\ \A x \in Signatures :
          /\ \A k \in 0 .. Recent : Lately(examined, <<x, TRUE>>, k) <= Lately(recent, x, k)
          /\ Count(examined, <<x, TRUE>>) <= config.threshold
          /\ clearing # 3 => Count(recent, x) <= since[x]
    /\ last # <<>> => last[2] <= since[last[1]]

\* What thread w has paid for and not released yet.
PaidBy(place) ==
    IF place.at = "charging" THEN SumFunction(place.texts) - SumFunction(place.due) ELSE 0
Paid(places) == [w \in Threads |-> PaidBy(places[w])]

Amounts(bill) == [i \in DOMAIN bill |-> bill[i][2]]
OwedFrom(bill, m) == SumFunctionOnSet(Amounts(bill), m .. Len(bill))

Covers(bill, out, paid) ==
    \A w \in 1 .. Hour - Skew, m \in 1 .. Len(bill) + 1 :
        (\A i \in 1 .. m - 1 : bill[i][1] >= w + Skew)
            => Within(out, w) + paid <= OwedFrom(bill, m)

Budgeted ==
    /\ \A w \in Threads :
          slot[w].at = "charging" =>
              /\ config.guardrail /\ config.budgeted
              /\ SumFunction(slot[w].due) <= SumFunction(slot[w].texts)
    /\ config.budgeted => Owed(charged) <= config.budget
    /\ Covers(charged, released, SumFunction(Paid(slot)))

IInv == TypeOK /\ Rated /\ Queues /\ Loops /\ Budgeted

(***************************************************************************)
(* Ages.                                                                   *)
(***************************************************************************)
LEMMA Bounds ==
    /\ Minute \in Nat \ {0} /\ Hour \in Nat \ {0} /\ Recent \in Nat \ {0} /\ Skew \in Nat
    /\ Oldest \in Nat /\ Minute + Skew + 1 <= Oldest /\ Hour + Skew + 1 <= Oldest
<1>1. /\ Minute \in Nat \ {0} /\ Hour \in Nat \ {0} /\ Recent \in Nat \ {0}
      /\ Skew \in Nat
  BY LimitsAssumption
<1> DEFINE both == {Minute, Hour}
<1>2. \E x \in both : \A y \in both : x >= y
  BY <1>1
<1>3. Max(both) \in both /\ \A y \in both : Max(both) >= y
  <2> HIDE DEF both
  <2> QED
    BY <1>2 DEF Max
<1>4. Max(both) \in Nat /\ Max(both) >= Minute /\ Max(both) >= Hour
  BY <1>1, <1>3
<1> HIDE DEF both
<1>5. Oldest = Max(both) + Skew + 1
  BY DEF Oldest, both
<1> QED
  BY <1>1, <1>4, <1>5

LEMMA AgesFinite == IsFiniteSet(Ages) /\ Ages \subseteq Nat /\ 0 \in Ages /\ Lags \subseteq Ages
<1>1. Oldest \in Nat /\ 0 \in Int /\ Skew \in Nat /\ Skew <= Oldest
  BY Bounds
<1>2. IsFiniteSet(0 .. Oldest)
  BY <1>1, FS_Interval
<1> QED
  BY <1>1, <1>2 DEF Ages, Lags

LEMMA Younger ==
    ASSUME NEW w
    PROVE  IsFiniteSet({a \in Ages : a < w})
BY AgesFinite, FS_Subset

LEMMA AgeIs ==
    ASSUME NEW a \in Ages
    PROVE  Age(a) \in Ages /\ Age(a) = IF a < Oldest THEN a + 1 ELSE Oldest
<1>1. Oldest \in Nat /\ a \in Nat /\ a <= Oldest
  BY Bounds DEF Ages
<1> DEFINE both == {a + 1, Oldest}
           least == IF a < Oldest THEN a + 1 ELSE Oldest
<1>2. least \in both /\ \A y \in both : least <= y
  BY <1>1
<1>3. \A x \in both : (\A y \in both : x <= y) => x = least
  BY <1>1
<1>4. Min(both) = least
  <2> HIDE DEF both, least
  <2> QED
    BY <1>2, <1>3 DEF Min
<1>5. Age(a) = least
  BY <1>4 DEF Age
<1> QED
  BY <1>1, <1>5 DEF Ages

(***************************************************************************)
(* Counts for each age.                                                    *)
(***************************************************************************)
Counts == [Ages -> Nat]

LEMMA WithinTyped ==
    ASSUME NEW f \in Counts, NEW v, NEW w
    PROVE  /\ Within(f, w) \in Nat
           /\ Within(f, w) <= SumFunction(f) /\ SumFunction(f) \in Nat
           /\ {a \in Ages : a < v} \subseteq {a \in Ages : a < w}
                 => Within(f, v) <= Within(f, w)
           /\ {a \in Ages : a < w} = {} => Within(f, w) = 0
<1>1. IsFiniteSet(Ages) /\ IsFiniteSet({a \in Ages : a < w})
  BY AgesFinite, Younger
<1>2. \A a \in Ages : f[a] \in Nat
  BY DEF Counts
<1>3. Within(f, w) \in Nat
  BY <1>1, <1>2, SumNatural DEF Within
<1>4. SumFunction(f) = SumFunctionOnSet(f, Ages)
  BY DEF SumFunction, Counts
<1>5. SumFunctionOnSet(f, Ages) \in Nat
  BY <1>1, <1>2, SumNatural
<1>6. SumFunctionOnSet(f, {a \in Ages : a < w}) <= SumFunctionOnSet(f, Ages)
  BY <1>1, <1>2, SumOfPart
<1>7. ASSUME {a \in Ages : a < v} \subseteq {a \in Ages : a < w}
      PROVE  Within(f, v) <= Within(f, w)
  BY <1>1, <1>2, <1>7, SumOfPart DEF Within
<1>8. ASSUME {a \in Ages : a < w} = {} PROVE Within(f, w) = 0
  BY <1>8, SumNone DEF Within
<1> QED
  BY <1>3, <1>4, <1>5, <1>6, <1>7, <1>8 DEF Within

LEMMA WithinOrdered ==
    ASSUME NEW f \in Counts, NEW v \in Int, NEW w \in Int, v <= w
    PROVE  Within(f, v) <= Within(f, w)
<1>0. \A a \in Ages : a \in Int /\ (a < v => a < w)
  BY AgesFinite
<1>1. {a \in Ages : a < v} \subseteq {a \in Ages : a < w}
  BY <1>0
<1> QED
  BY <1>1, WithinTyped

\* One more (or n more) of age k.
LEMMA WithinRaised ==
    ASSUME NEW f \in Counts, NEW k \in Ages, NEW n \in Nat, NEW w
    PROVE  LET g == [f EXCEPT ![k] = @ + n]
           IN  /\ g \in Counts
               /\ Within(g, w) = IF k < w THEN Within(f, w) + n ELSE Within(f, w)
               /\ SumFunction(g) = SumFunction(f) + n
<1> DEFINE g == [f EXCEPT ![k] = @ + n]
           young == {a \in Ages : a < w}
<1>1. g \in Counts /\ DOMAIN g = Ages /\ DOMAIN f = Ages
  BY DEF Counts
<1>2. g[k] = f[k] + n /\ \A a \in Ages \ {k} : g[a] = f[a]
  BY DEF Counts
<1>3. IsFiniteSet(Ages) /\ IsFiniteSet(young)
  BY AgesFinite, Younger
<1>4. \A a \in Ages : f[a] \in Int
  BY DEF Counts
<1> HIDE DEF g
<1>5. SumFunctionOnSet(g, Ages) = SumFunctionOnSet(f, Ages) + n
  BY <1>2, <1>3, <1>4, SumRaised
<1>6. ASSUME k \in young PROVE SumFunctionOnSet(g, young) = SumFunctionOnSet(f, young) + n
  <2>1. (\A a \in young : f[a] \in Int) /\ \A a \in young \ {k} : g[a] = f[a]
    BY <1>2, <1>4
  <2> HIDE DEF young
  <2> QED
    BY <1>2, <1>3, <1>6, <2>1, SumRaised
<1>7. ASSUME k \notin young PROVE SumFunctionOnSet(g, young) = SumFunctionOnSet(f, young)
  <2>1. \A a \in young : f[a] \in Int /\ g[a] = f[a]
    BY <1>2, <1>4, <1>7
  <2> HIDE DEF young
  <2> QED
    BY <1>3, <2>1, SumSame
<1>8. Within(g, w) = IF k < w THEN Within(f, w) + n ELSE Within(f, w)
  BY <1>6, <1>7 DEF Within
<1>9. SumFunction(g) = SumFunction(f) + n
  BY <1>1, <1>5 DEF SumFunction
<1> QED
  BY <1>1, <1>8, <1>9 DEF g

LEMMA WithinNone ==
    ASSUME NEW w
    PROVE  None \in Counts /\ Within(None, w) = 0 /\ SumFunction(None) = 0
<1>1. None \in Counts /\ DOMAIN None = Ages /\ \A a \in Ages : None[a] = 0
  BY DEF None, Counts
<1>2. Within(None, w) = 0
  BY <1>1, Younger, SumZero DEF Within
<1>3. SumFunction(None) = 0
  BY <1>1, AgesFinite, SumZero DEF SumFunction
<1> QED
  BY <1>1, <1>2, <1>3

\* A tick passes.
LEMMA WithinAged ==
    ASSUME NEW f \in Counts
    PROVE  /\ Aged(f) \in Counts
           /\ \A w \in 1 .. Oldest : Within(Aged(f), w) = Within(f, w - 1)
           /\ SumFunction(Aged(f)) <= SumFunction(f)
<1>0. Oldest \in Nat \ {0} /\ Ages = 0 .. Oldest
  BY Bounds DEF Ages
<1>1. Aged(f) \in Counts
  <2>1. \A a \in Ages : a \notin {0, Oldest} => a - 1 \in Ages
    BY <1>0
  <2>2. \A a \in Ages : (IF a \in {0, Oldest} THEN 0 ELSE f[a - 1]) \in Nat
    BY <2>1 DEF Counts
  <2> QED
    BY <2>2 DEF Aged, Counts
<1>2. ASSUME NEW w \in 1 .. Oldest
      PROVE  Within(Aged(f), w) = Within(f, w - 1)
  <2> DEFINE b == [a \in 0 .. w - 2 |-> a + 1]
             older == {b[a] : a \in 0 .. w - 2}
  <2>1. IsFiniteSet(0 .. w - 2) /\ IsFiniteSet(1 .. w - 1)
    BY FS_Interval
  <2>2. older = 1 .. w - 1
    <3>1. \A a \in 1 .. w - 1 : a - 1 \in 0 .. w - 2 /\ b[a - 1] = a
      OBVIOUS
    <3>2. \A a \in 0 .. w - 2 : b[a] \in 1 .. w - 1
      OBVIOUS
    <3> QED
      BY <3>1, <3>2
  <2>3. \A a \in 0 .. w - 2 : f[a] \in Int /\ Aged(f)[b[a]] = f[a]
    <3>1. \A a \in 0 .. w - 2 : a \in Ages /\ a + 1 \in Ages /\ a + 1 \notin {0, Oldest}
      BY <1>0
    <3>2. \A a \in 0 .. w - 2 : b[a] = a + 1 /\ (a + 1) - 1 = a
      OBVIOUS
    <3> QED
      BY <3>1, <3>2 DEF Aged, Counts
  <2>4. \A x, y \in 0 .. w - 2 : b[x] = b[y] => x = y
    OBVIOUS
  <2>5. SumFunctionOnSet(Aged(f), older) = SumFunctionOnSet(f, 0 .. w - 2)
    <3> DEFINE below == 0 .. w - 2
               g == Aged(f)
    <3>1. /\ IsFiniteSet(below) /\ \A x, y \in below : b[x] = b[y] => x = y
          /\ \A x \in below : f[x] \in Int /\ g[b[x]] = f[x]
      BY <2>1, <2>3, <2>4
    <3> HIDE DEF b, below, g
    <3>2. SumFunctionOnSet(g, {b[x] : x \in below}) = SumFunctionOnSet(f, below)
      BY <3>1, SumRenamed
    <3> QED
      BY <3>2 DEF below, g
  <2>6. /\ {a \in Ages : a < w} = 1 .. w - 1 \cup {0} /\ 0 \notin 1 .. w - 1
        /\ {a \in Ages : a < w - 1} = 0 .. w - 2
    BY <1>0
  <2>7. SumFunctionOnSet(Aged(f), 1 .. w - 1 \cup {0})
          = SumFunctionOnSet(Aged(f), 1 .. w - 1)
    <3> DEFINE part == 1 .. w - 1
               g == Aged(f)
    <3>1. /\ IsFiniteSet(part) /\ 0 \notin part /\ g[0] = 0
          /\ \A a \in part : g[a] \in Int
      <4>1. 0 \in Ages /\ part \subseteq Ages
        BY <1>0
      <4>2. g[0] = 0
        BY <4>1 DEF Aged
      <4>3. \A a \in part : g[a] \in Nat
        BY <1>1, <4>1 DEF Counts
      <4> QED
        BY <2>1, <2>6, <4>2, <4>3
    <3> HIDE DEF part, g
    <3>2. SumFunctionOnSet(g, part \cup {0}) = g[0] + SumFunctionOnSet(g, part)
      BY <3>1, SumWith
    <3>3. SumFunctionOnSet(g, part) \in Int
      BY <3>1, SumTaken
    <3>4. \A n \in Int : 0 + n = n
      OBVIOUS
    <3>5. SumFunctionOnSet(g, part \cup {0}) = SumFunctionOnSet(g, part)
      BY <3>1, <3>2, <3>3, <3>4
    <3> QED
      BY <3>5 DEF part, g
  <2>8. SumFunctionOnSet(Aged(f), 1 .. w - 1) = SumFunctionOnSet(f, 0 .. w - 2)
    BY <2>2, <2>5
  <2> QED
    BY <2>6, <2>7, <2>8 DEF Within
<1>3. SumFunction(Aged(f)) <= SumFunction(f)
  <2>1. SumFunction(Aged(f)) = Within(Aged(f), Oldest)
    <3> DEFINE g == Aged(f)
               young == {a \in Ages : a < Oldest}
    <3>1. Ages = young \cup {Oldest} /\ Oldest \notin young
      BY <1>0
    <3>2. IsFiniteSet(young) /\ g[Oldest] = 0 /\ (\A a \in young : g[a] \in Int)
          /\ DOMAIN g = Ages
      BY <1>0, <1>1, Younger DEF Aged, Counts
    <3> HIDE DEF g, young
    <3>3. SumFunctionOnSet(g, young \cup {Oldest}) = g[Oldest] + SumFunctionOnSet(g, young)
      BY <3>1, <3>2, SumWith
    <3>4. SumFunctionOnSet(g, young) \in Int
      BY <3>2, SumTaken
    <3>5. \A n \in Int : 0 + n = n
      OBVIOUS
    <3>6. SumFunctionOnSet(g, Ages) = SumFunctionOnSet(g, young)
      BY <3>1, <3>2, <3>3, <3>4, <3>5
    <3> QED
      BY <3>2, <3>6 DEF SumFunction, Within, g, young
  <2>2. Within(Aged(f), Oldest) = Within(f, Oldest - 1)
    BY <1>0, <1>2
  <2> QED
    BY <2>1, <2>2, WithinTyped
<1> QED
  BY <1>1, <1>2, <1>3

(***************************************************************************)
(* Queues.  What is dropped from the front is not kept, and the first that *)
(* stays is.                                                               *)
(***************************************************************************)
LEMMA Least ==
    ASSUME NEW S \in SUBSET Nat, S # {}
    PROVE  Min(S) \in S /\ \A y \in S : Min(S) <= y
BY LeastNumber DEF Min

Rest(s, m, t) ==
    /\ m \in 1 .. Len(s) + 1
    /\ Len(t) = Len(s) - m + 1
    /\ \A i \in 1 .. Len(t) : t[i] = s[i + m - 1]

LEMMA FromFirstIs ==
    ASSUME NEW S, NEW s \in Seq(S), NEW kept \in SUBSET (DOMAIN s)
    PROVE  /\ FromFirst(s, kept) \in Seq(S)
           /\ \E m \in 1 .. Len(s) + 1 :
                 /\ Rest(s, m, FromFirst(s, kept))
                 /\ \A i \in 1 .. m - 1 : i \notin kept
                 /\ m <= Len(s) => m \in kept
<1>1. Len(s) \in Nat /\ DOMAIN s = 1 .. Len(s) /\ \A i \in 1 .. Len(s) : s[i] \in S
  BY LenProperties, ElementOfSeq
<1>2. CASE kept = {}
  <2>1. FromFirst(s, kept) = <<>> /\ Len(<<>>) = 0 /\ <<>> \in Seq(S)
    BY <1>2, EmptySeq DEF FromFirst
  <2> DEFINE n == Len(s) + 1
  <2>2. n \in 1 .. Len(s) + 1 /\ Len(s) - n + 1 = 0 /\ ~(n <= Len(s))
    BY <1>1
  <2>3. Rest(s, n, FromFirst(s, kept))
    BY <2>1, <2>2 DEF Rest
  <2> QED
    BY <1>2, <2>1, <2>2, <2>3
<1>3. CASE kept # {}
  <2> DEFINE m == Min(kept)
  <2>1. kept \in SUBSET Nat
    BY <1>1
  <2>2. m \in kept /\ \A i \in kept : m <= i
    BY <1>3, <2>1, Least
  <2>3. m \in 1 .. Len(s)
    BY <1>1, <2>2
  <2> DEFINE t == SubSeq(s, m, Len(s))
  <2>4. FromFirst(s, kept) = t
    BY <1>3 DEF FromFirst
  <2> HIDE DEF m
  <2>5. \A i \in m .. Len(s) : s[i] \in S
    BY <1>1, <2>3
  <2>6. /\ t \in Seq(S)
        /\ Len(t) = (IF m <= Len(s) THEN Len(s) - m + 1 ELSE 0)
        /\ \A i \in 1 .. Len(s) - m + 1 : t[i] = s[m + i - 1]
    BY <1>1, <2>3, <2>5, SubSeqProperties
  <2> HIDE DEF t
  <2>7. Len(t) = Len(s) - m + 1
    BY <2>3, <2>6
  <2>8. \A i \in 1 .. Len(t) : t[i] = s[i + m - 1]
    <3>1. \A i \in 1 .. Len(t) : m + i - 1 = i + m - 1
      BY <1>1, <2>3
    <3> QED
      BY <2>6, <2>7, <3>1
  <2>9. Rest(s, m, t) /\ m \in 1 .. Len(s) + 1
    BY <1>1, <2>3, <2>7, <2>8 DEF Rest
  <2>10. \A i \in 1 .. m - 1 : i \notin kept
    BY <2>2, <2>3
  <2> QED
    BY <2>2, <2>4, <2>6, <2>9, <2>10
<1> QED
  BY <1>2, <1>3

(***************************************************************************)
(* What a bill adds up to, from its m-th entry on.                         *)
(***************************************************************************)
Bills == Seq(Ages \X Nat)

LEMMA BillIs ==
    ASSUME NEW bill \in Bills
    PROVE  /\ Len(bill) \in Nat /\ DOMAIN bill = 1 .. Len(bill)
           /\ \A i \in 1 .. Len(bill) :
                 /\ bill[i] \in Ages \X Nat /\ bill[i] = <<bill[i][1], bill[i][2]>>
                 /\ bill[i][1] \in Ages /\ bill[i][2] \in Nat
                 /\ Amounts(bill)[i] = bill[i][2]
<1>1. Len(bill) \in Nat /\ DOMAIN bill = 1 .. Len(bill)
  BY LenProperties DEF Bills
<1>2. \A i \in 1 .. Len(bill) : bill[i] \in Ages \X Nat
  BY ElementOfSeq DEF Bills
<1> QED
  BY <1>1, <1>2 DEF Amounts

LEMMA OwedTyped ==
    ASSUME NEW bill \in Bills
    PROVE  /\ Owed(bill) = OwedFrom(bill, 1)
           /\ \A m \in 1 .. Len(bill) + 1 :
                 OwedFrom(bill, m) \in Nat /\ OwedFrom(bill, m) <= OwedFrom(bill, 1)
<1>1. Len(bill) \in Nat /\ DOMAIN bill = 1 .. Len(bill)
      /\ \A i \in 1 .. Len(bill) : Amounts(bill)[i] \in Nat
  BY BillIs
<1>2. Owed(bill) = OwedFrom(bill, 1)
  <2>1. DOMAIN Amounts(bill) = 1 .. Len(bill)
    BY <1>1 DEF Amounts
  <2>2. Owed(bill) = SumFunctionOnSet(Amounts(bill), DOMAIN Amounts(bill))
    BY DEF Owed, SumFunction, Amounts
  <2> QED
    BY <2>1, <2>2 DEF OwedFrom
<1>3. ASSUME NEW m \in 1 .. Len(bill) + 1
      PROVE  OwedFrom(bill, m) \in Nat /\ OwedFrom(bill, m) <= OwedFrom(bill, 1)
  <2> DEFINE all == 1 .. Len(bill)
             part == m .. Len(bill)
             amounts == Amounts(bill)
  <2>1. /\ IsFiniteSet(all) /\ IsFiniteSet(part) /\ part \in SUBSET all
        /\ \A i \in all : amounts[i] \in Nat
    BY <1>1, FS_Interval
  <2>2. \A i \in part : amounts[i] \in Nat
    BY <2>1
  <2> HIDE DEF all, part, amounts
  <2>3. SumFunctionOnSet(amounts, part) \in Nat
    BY <2>1, <2>2, SumNatural
  <2>4. SumFunctionOnSet(amounts, part) <= SumFunctionOnSet(amounts, all)
    BY <2>1, SumOfPart
  <2> QED
    BY <2>3, <2>4 DEF OwedFrom, all, part, amounts
<1> QED
  BY <1>2, <1>3

LEMMA OwedAppended ==
    ASSUME NEW bill \in Bills, NEW k \in Ages, NEW n \in Nat, NEW m \in 1 .. Len(bill) + 1
    PROVE  OwedFrom(Append(bill, <<k, n>>), m) = OwedFrom(bill, m) + n
<1> DEFINE longer == Append(bill, <<k, n>>)
           old == m .. Len(bill)
           new == Len(bill) + 1
           f == Amounts(bill)
           g == Amounts(longer)
<1>1. Len(bill) \in Nat /\ \A i \in 1 .. Len(bill) : f[i] = bill[i][2] /\ f[i] \in Nat
  BY BillIs
<1>2. /\ longer \in Bills /\ Len(longer) = Len(bill) + 1 /\ longer[new] = <<k, n>>
      /\ \A i \in 1 .. Len(bill) : longer[i] = bill[i]
  BY AppendProperties DEF Bills
<1>3. \A i \in 1 .. Len(longer) : g[i] = longer[i][2]
  <2> HIDE DEF longer
  <2> QED
    BY <1>2, BillIs
<1>4. g[new] = n /\ \A i \in old : g[i] = f[i] /\ f[i] \in Int
  <2>1. new \in 1 .. Len(longer) /\ \A i \in old : i \in 1 .. Len(bill) /\ i \in 1 .. Len(longer)
    BY <1>1, <1>2
  <2> QED
    BY <1>1, <1>2, <1>3, <2>1
<1>5. m .. Len(longer) = old \cup {new} /\ new \notin old /\ IsFiniteSet(old)
  <2>1. IsFiniteSet(old)
    BY <1>1, FS_Interval
  <2>2. m .. Len(bill) + 1 = old \cup {new} /\ new \notin old
    BY <1>1
  <2> QED
    BY <1>2, <2>1, <2>2
<1> HIDE DEF f, g, longer, old, new
<1>6. SumFunctionOnSet(g, old \cup {new}) = n + SumFunctionOnSet(g, old)
  <2>1. \A i \in old : g[i] \in Int
    BY <1>4
  <2>2. g[new] \in Int
    BY <1>4
  <2>3. SumFunctionOnSet(g, old \cup {new}) = g[new] + SumFunctionOnSet(g, old)
    BY <1>5, <2>1, <2>2, SumWith
  <2> QED
    BY <1>4, <2>3
<1>7. SumFunctionOnSet(g, old) = SumFunctionOnSet(f, old)
  BY <1>4, <1>5, SumSame
<1>8. SumFunctionOnSet(f, old) \in Int
  BY <1>4, <1>5, SumTaken
<1>9. SumFunctionOnSet(g, m .. Len(longer)) = SumFunctionOnSet(f, old) + n
  <2>1. \A a \in Int : n + a = a + n
    OBVIOUS
  <2> QED
    BY <1>5, <1>6, <1>7, <1>8, <2>1
<1> QED
  BY <1>9 DEF OwedFrom, f, g, longer, old

\* Of a bill whose first entries were dropped.
LEMMA OwedDropped ==
    ASSUME NEW bill \in Bills, NEW rest \in Bills, NEW d \in 1 .. Len(bill) + 1,
           Rest(bill, d, rest), NEW m \in 1 .. Len(rest) + 1
    PROVE  OwedFrom(rest, m) = OwedFrom(bill, m + d - 1)
<1> DEFINE f == Amounts(bill)
           g == Amounts(rest)
           b == [i \in m .. Len(rest) |-> i + d - 1]
           here == m .. Len(rest)
           there == m + d - 1 .. Len(bill)
<1>1. /\ Len(bill) \in Nat /\ \A i \in 1 .. Len(bill) : f[i] = bill[i][2]
      /\ Len(rest) \in Nat /\ \A i \in 1 .. Len(rest) : g[i] = rest[i][2] /\ g[i] \in Nat
  BY BillIs
<1>2. /\ Len(rest) = Len(bill) - d + 1
      /\ \A i \in 1 .. Len(rest) : rest[i] = bill[i + d - 1]
  BY DEF Rest
<1>3. IsFiniteSet(here)
  BY <1>1, FS_Interval
<1>4. \A i \in here : g[i] \in Int /\ f[b[i]] = g[i]
  <2>1. \A i \in here : i \in 1 .. Len(rest) /\ b[i] = i + d - 1 /\ i + d - 1 \in 1 .. Len(bill)
    BY <1>1, <1>2
  <2> HIDE DEF f, g, b, here
  <2>2. ASSUME NEW i \in here PROVE g[i] \in Int /\ f[b[i]] = g[i]
    <3>1. f[i + d - 1] = bill[i + d - 1][2] /\ rest[i] = bill[i + d - 1]
      BY <1>1, <1>2, <2>1
    <3>2. g[i] = rest[i][2] /\ g[i] \in Nat /\ b[i] = i + d - 1
      BY <1>1, <2>1
    <3> QED
      BY <3>1, <3>2
  <2> QED
    BY <2>2
<1>5. \A x, y \in here : b[x] = b[y] => x = y
  BY <1>1
<1>6. {b[i] : i \in here} = there
  <2>1. \A j \in there : j - d + 1 \in here /\ b[j - d + 1] = j
    BY <1>1, <1>2
  <2>2. \A i \in here : b[i] \in there
    BY <1>1, <1>2
  <2> QED
    BY <2>1, <2>2
<1> HIDE DEF f, g, b, here, there
<1>7. SumFunctionOnSet(f, {b[i] : i \in here}) = SumFunctionOnSet(g, here)
  BY <1>3, <1>4, <1>5, SumRenamed
<1> QED
  BY <1>6, <1>7 DEF OwedFrom, f, g, here, there

\* The texts of a result.
LEMMA OneTextLess ==
    ASSUME NEW s \in Seq(Nat)
    PROVE  /\ SumFunction(s) \in Nat
           /\ s = <<>> => SumFunction(s) = 0
           /\ s # <<>> => /\ Head(s) \in Nat /\ Tail(s) \in Seq(Nat)
                          /\ SumFunction(s) = Head(s) + SumFunction(Tail(s))
<1>1. Len(s) \in Nat /\ DOMAIN s = 1 .. Len(s) /\ \A i \in 1 .. Len(s) : s[i] \in Nat
  BY LenProperties, ElementOfSeq
<1>2. SumFunction(s) \in Nat
  <2>1. IsFiniteSet(DOMAIN s) /\ \A i \in DOMAIN s : s[i] \in Nat
    BY <1>1, FS_Interval
  <2> QED
    BY <2>1, SumNatural DEF SumFunction
<1>3. ASSUME s = <<>> PROVE SumFunction(s) = 0
  <2>1. DOMAIN s = {}
    BY <1>3
  <2> QED
    BY <2>1, SumNone DEF SumFunction
<1>4. ASSUME s # <<>>
      PROVE  /\ Head(s) \in Nat /\ Tail(s) \in Seq(Nat)
             /\ SumFunction(s) = Head(s) + SumFunction(Tail(s))
  <2> DEFINE t == Tail(s)
  <2>1. /\ Head(s) \in Nat /\ Head(s) = s[1] /\ t \in Seq(Nat) /\ Len(t) = Len(s) - 1
        /\ \A i \in 1 .. Len(t) : t[i] = s[i + 1]
    BY <1>4, HeadTailProperties
  <2>2. Len(t) \in Nat /\ DOMAIN t = 1 .. Len(t) /\ \A i \in 1 .. Len(t) : t[i] \in Nat
    BY <2>1, LenProperties, ElementOfSeq
  <2> HIDE DEF t
  <2> DEFINE here == 1 .. Len(t)
             there == 2 .. Len(s)
             b == [i \in 1 .. Len(t) |-> i + 1]
  <2>3. /\ IsFiniteSet(here) /\ \A x, y \in here : b[x] = b[y] => x = y
        /\ \A i \in here : t[i] \in Int /\ s[b[i]] = t[i]
    <3>1. IsFiniteSet(here)
      BY <2>2, FS_Interval
    <3>2. \A i \in here : t[i] \in Int /\ t[i] = s[i + 1] /\ b[i] = i + 1
      BY <2>1, <2>2
    <3>3. \A x, y \in here : b[x] = b[y] => x = y
      BY <2>2
    <3> QED
      BY <3>1, <3>2, <3>3
  <2>4. {b[i] : i \in here} = there
    <3>1. \A j \in there : j - 1 \in here /\ b[j - 1] = j
      BY <1>1, <2>1
    <3>2. \A i \in here : b[i] \in there
      BY <1>1, <2>1
    <3> QED
      BY <3>1, <3>2
  <2>5. /\ DOMAIN s = there \cup {1} /\ 1 \notin there /\ IsFiniteSet(there)
        /\ s[1] \in Int /\ \A i \in there : s[i] \in Int
    <3>1. IsFiniteSet(there)
      BY <1>1, FS_Interval
    <3>2. Len(s) >= 1
      BY <1>1, <2>1, <2>2
    <3>3. 1 .. Len(s) = there \cup {1} /\ 1 \notin there
      BY <1>1, <3>2
    <3>4. \A i \in 1 .. Len(s) : s[i] \in Int
      BY <1>1
    <3> QED
      BY <1>1, <3>1, <3>3, <3>4
  <2>6. DOMAIN t = here
    BY <2>2
  <2> HIDE DEF here, there, b
  <2>7. SumFunctionOnSet(s, {b[i] : i \in here}) = SumFunctionOnSet(t, here)
    BY <2>3, SumRenamed
  <2>8. SumFunctionOnSet(s, there \cup {1}) = s[1] + SumFunctionOnSet(s, there)
    BY <2>5, SumWith
  <2>9. SumFunctionOnSet(s, DOMAIN s) = Head(s) + SumFunctionOnSet(t, DOMAIN t)
    BY <2>1, <2>4, <2>5, <2>6, <2>7, <2>8, Zenon
  <2> QED
    BY <2>1, <2>9 DEF SumFunction, t
<1> QED
  BY <1>2, <1>3, <1>4

(***************************************************************************)
(* A queue and what was let pass.                                          *)
(***************************************************************************)
LEMMA TracksNothing == Tracks(<<>>, None)
<1>1. Len(<<>>) = 0
  BY EmptySeq
<1>2. ASSUME NEW w \in 1 .. Minute - Skew, NEW m \in 1 .. 0 + 1
      PROVE  Within(None, w) <= 0 - m + 1
  BY WithinNone
<1> QED
  BY <1>1, <1>2 DEF Tracks

LEMMA TracksOneMore ==
    ASSUME NEW queue \in Seq(Ages), NEW calls \in Counts, Tracks(queue, calls),
           NEW k \in Lags
    PROVE  Tracks(Append(queue, k), [calls EXCEPT ![0] = @ + 1])
<1> DEFINE q == Append(queue, k)
           f == [calls EXCEPT ![0] = @ + 1]
<1>0. /\ Minute \in Nat /\ Skew \in Nat /\ k \in Nat /\ k <= Skew
      /\ k \in Ages /\ 0 \in Ages /\ Oldest \in Nat
  BY Bounds, AgesFinite DEF Lags
<1>1. /\ Len(queue) \in Nat /\ Len(q) = Len(queue) + 1 /\ q[Len(queue) + 1] = k
      /\ \A i \in 1 .. Len(queue) : q[i] = queue[i] /\ queue[i] \in Nat
  <2>1. /\ Len(queue) \in Nat /\ Len(q) = Len(queue) + 1 /\ q[Len(queue) + 1] = k
        /\ \A i \in 1 .. Len(queue) : q[i] = queue[i]
    BY <1>0, AppendProperties, LenProperties
  <2>2. \A i \in 1 .. Len(queue) : queue[i] \in Nat
    BY ElementOfSeq, AgesFinite
  <2> QED
    BY <2>1, <2>2
<1>2. /\ f \in Counts
      /\ \A w : Within(f, w) = IF 0 < w THEN Within(calls, w) + 1 ELSE Within(calls, w)
  <2>1. ASSUME NEW w
        PROVE  /\ f \in Counts
               /\ Within(f, w) = IF 0 < w THEN Within(calls, w) + 1 ELSE Within(calls, w)
    BY <1>0, WithinRaised
  <2> QED
    BY <2>1
<1>3. \A w : Within(calls, w) \in Nat
  BY WithinTyped
<1> HIDE DEF q, f
<1>4. ASSUME NEW w \in 1 .. Minute - Skew, NEW m \in 1 .. Len(q) + 1,
             \A i \in 1 .. m - 1 : q[i] >= w + Skew
      PROVE  Within(f, w) <= Len(q) - m + 1
  <2>1. m <= Len(queue) + 1
    <3>1. ASSUME m = Len(queue) + 2 PROVE FALSE
      <4>1. Len(queue) + 1 \in 1 .. m - 1
        BY <1>1, <3>1
      <4>2. k >= w + Skew
        BY <1>1, <1>4, <4>1
      <4> QED
        BY <1>0, <4>2
    <3> QED
      BY <1>1, <3>1
  <2>2. \A i \in 1 .. m - 1 : queue[i] >= w + Skew
    <3>1. \A i \in 1 .. m - 1 : i \in 1 .. Len(queue)
      BY <1>1, <2>1
    <3> QED
      BY <1>1, <1>4, <3>1
  <2>3. Within(calls, w) <= Len(queue) - m + 1
    <3>1. m \in 1 .. Len(queue) + 1
      BY <1>1, <2>1
    <3> QED
      BY <2>2, <3>1 DEF Tracks
  <2>4. Within(f, w) = Within(calls, w) + 1
    <3>1. 0 < w
      OBVIOUS
    <3> QED
      BY <1>2, <3>1
  <2> QED
    BY <1>1, <1>3, <2>3, <2>4
<1>5. ASSUME NEW i \in 1 .. Len(q), q[i] < Oldest
      PROVE  Len(q) - i + 1 <= Within(f, q[i] + 1)
  <2>1. q[i] \in Nat /\ 0 < q[i] + 1
    BY <1>0, <1>1
  <2>2. Within(f, q[i] + 1) = Within(calls, q[i] + 1) + 1 /\ Within(calls, q[i] + 1) \in Nat
    BY <1>2, <1>3, <2>1
  <2>3. CASE i = Len(queue) + 1
    BY <1>1, <2>2, <2>3
  <2>4. CASE i \in 1 .. Len(queue)
    <3>1. Len(queue) - i + 1 <= Within(calls, q[i] + 1)
      BY <1>1, <1>5, <2>4 DEF Tracks
    <3> QED
      BY <1>1, <2>2, <3>1
  <2> QED
    BY <1>1, <2>3, <2>4
<1>6. Tracks(q, f)
  BY <1>4, <1>5 DEF Tracks
<1> QED
  BY <1>6 DEF q, f

\* Only what no window reaches any more is dropped.
LEMMA TracksTheRest ==
    ASSUME NEW queue \in Seq(Ages), NEW calls \in Counts, Tracks(queue, calls),
           NEW rest \in Seq(Ages), NEW d \in 1 .. Len(queue) + 1, Rest(queue, d, rest),
           \A i \in 1 .. d - 1 : queue[i] >= Minute
    PROVE  Tracks(rest, calls)
<1>0. Minute \in Nat /\ Skew \in Nat
  BY Bounds
<1>1. /\ Len(queue) \in Nat /\ Len(rest) \in Nat /\ Len(rest) = Len(queue) - d + 1
      /\ \A i \in 1 .. Len(rest) : rest[i] = queue[i + d - 1]
      /\ \A i \in 1 .. Len(queue) : queue[i] \in Nat
  BY LenProperties, ElementOfSeq, AgesFinite DEF Rest
<1>2. ASSUME NEW w \in 1 .. Minute - Skew, NEW m \in 1 .. Len(rest) + 1,
             \A i \in 1 .. m - 1 : rest[i] >= w + Skew
      PROVE  Within(calls, w) <= Len(rest) - m + 1
  <2> DEFINE n == m + d - 1
  <2>1. n \in 1 .. Len(queue) + 1 /\ Len(queue) - n + 1 = Len(rest) - m + 1
    BY <1>1
  <2>2. ASSUME NEW i \in 1 .. n - 1 PROVE queue[i] >= w + Skew
    <3>1. CASE i < d
      <4>1. queue[i] >= Minute /\ queue[i] \in Nat
        BY <1>1, <3>1
      <4> QED
        BY <1>0, <4>1
    <3>2. CASE i >= d
      <4>1. i - d + 1 \in 1 .. m - 1 /\ i - d + 1 \in 1 .. Len(rest) /\ (i - d + 1) + d - 1 = i
        BY <1>1, <3>2
      <4> QED
        BY <1>1, <1>2, <4>1
    <3> QED
      BY <3>1, <3>2
  <2> HIDE DEF n
  <2>3. Within(calls, w) <= Len(queue) - n + 1
    BY <2>1, <2>2 DEF Tracks
  <2> QED
    BY <2>1, <2>3
<1>3. ASSUME NEW i \in 1 .. Len(rest), rest[i] < Oldest
      PROVE  Len(rest) - i + 1 <= Within(calls, rest[i] + 1)
  <2> DEFINE j == i + d - 1
  <2>1. j \in 1 .. Len(queue) /\ rest[i] = queue[j] /\ Len(queue) - j + 1 = Len(rest) - i + 1
    BY <1>1
  <2> HIDE DEF j
  <2>2. Len(queue) - j + 1 <= Within(calls, queue[j] + 1)
    BY <1>3, <2>1 DEF Tracks
  <2> QED
    BY <2>1, <2>2
<1> QED
  BY <1>2, <1>3 DEF Tracks

LEMMA SequenceOf ==
    ASSUME NEW S, NEW n \in Nat, NEW q \in [1 .. n -> S]
    PROVE  q \in Seq(S) /\ Len(q) = n
<1>1. q \in Seq(S)
  BY SeqDef
<1>2. DOMAIN q = 1 .. n /\ DOMAIN q = 1 .. Len(q) /\ Len(q) \in Nat
  BY <1>1, LenProperties
<1> QED
  BY <1>1, <1>2

LEMMA TracksAged ==
    ASSUME NEW queue \in Seq(Ages), NEW calls \in Counts, Tracks(queue, calls)
    PROVE  LET q == [i \in DOMAIN queue |-> Age(queue[i])]
           IN  q \in Seq(Ages) /\ Len(q) = Len(queue) /\ Tracks(q, Aged(calls))
<1> DEFINE q == [i \in DOMAIN queue |-> Age(queue[i])]
<1>0. /\ Minute \in Nat /\ Skew \in Nat /\ Oldest \in Nat
      /\ Minute + Skew + 1 <= Oldest /\ Ages = 0 .. Oldest
  BY Bounds DEF Ages
<1>1. /\ Len(queue) \in Nat /\ DOMAIN queue = 1 .. Len(queue)
      /\ \A i \in 1 .. Len(queue) : queue[i] \in Ages
  BY LenProperties, ElementOfSeq
<1>2. \A i \in 1 .. Len(queue) :
         /\ q[i] \in Ages
         /\ q[i] = IF queue[i] < Oldest THEN queue[i] + 1 ELSE Oldest
  BY <1>1, AgeIs
<1>3. q \in Seq(Ages) /\ Len(q) = Len(queue)
  <2>1. q \in [1 .. Len(queue) -> Ages]
    BY <1>1, <1>2
  <2> HIDE DEF q
  <2> QED
    BY <1>1, <2>1, SequenceOf
<1>4. \A w \in 1 .. Oldest : Within(Aged(calls), w) = Within(calls, w - 1)
  BY WithinAged
<1> HIDE DEF q
<1>5. ASSUME NEW w \in 1 .. Minute - Skew, NEW m \in 1 .. Len(q) + 1,
             \A i \in 1 .. m - 1 : q[i] >= w + Skew
      PROVE  Within(Aged(calls), w) <= Len(q) - m + 1
  <2>1. Within(Aged(calls), w) = Within(calls, w - 1) /\ w - 1 \in Nat
    <3>1. w \in 1 .. Oldest
      BY <1>0
    <3> QED
      BY <1>4, <3>1
  <2>2. CASE w = 1
    <3>1. {a \in Ages : a < w - 1} = {}
      BY <1>0, <2>2
    <3>2. Within(calls, w - 1) = 0
      BY <3>1, WithinTyped
    <3>3. 0 <= Len(q) - m + 1
      BY <1>1, <1>3
    <3> QED
      BY <2>1, <3>2, <3>3
  <2>3. CASE w > 1
    <3>1. w - 1 \in 1 .. Minute - Skew /\ m \in 1 .. Len(queue) + 1
      BY <1>0, <1>1, <1>3, <2>3
    <3>2. ASSUME NEW i \in 1 .. m - 1 PROVE queue[i] >= (w - 1) + Skew
      <4>1. i \in 1 .. Len(queue) /\ q[i] >= w + Skew
        BY <1>1, <1>3, <1>5
      <4>2. queue[i] \in 0 .. Oldest
        BY <1>0, <1>1, <4>1
      <4> QED
        BY <1>0, <1>2, <4>1, <4>2
    <3>3. Within(calls, w - 1) <= Len(queue) - m + 1
      BY <3>1, <3>2 DEF Tracks
    <3> QED
      BY <1>3, <2>1, <3>3
  <2> QED
    BY <2>2, <2>3
<1>6. ASSUME NEW i \in 1 .. Len(q), q[i] < Oldest
      PROVE  Len(q) - i + 1 <= Within(Aged(calls), q[i] + 1)
  <2>1. i \in 1 .. Len(queue) /\ queue[i] \in 0 .. Oldest
    BY <1>0, <1>1, <1>3
  <2>2. queue[i] < Oldest /\ q[i] = queue[i] + 1
    BY <1>0, <1>2, <1>6, <2>1
  <2>3. q[i] + 1 \in 1 .. Oldest /\ (q[i] + 1) - 1 = queue[i] + 1
    BY <1>0, <1>6, <2>1, <2>2
  <2>4. Within(Aged(calls), q[i] + 1) = Within(calls, queue[i] + 1)
    BY <1>4, <2>3
  <2>5. Len(queue) - i + 1 <= Within(calls, queue[i] + 1)
    BY <2>1, <2>2 DEF Tracks
  <2> QED
    BY <1>3, <2>4, <2>5
<1>7. Tracks(q, Aged(calls))
  BY <1>5, <1>6 DEF Tracks
<1> QED
  BY <1>3, <1>7 DEF q

(***************************************************************************)
(* A bill, and what was released.                                          *)
(***************************************************************************)
LEMMA CoversNothing == Covers(<<>>, None, 0)
<1>1. <<>> \in Bills /\ Len(<<>>) = 0
  BY EmptySeq DEF Bills
<1> DEFINE bill == <<>>
<1>2. Len(bill) = 0 /\ bill \in Bills
  BY <1>1
<1> HIDE DEF bill
<1>3. ASSUME NEW w \in 1 .. Hour - Skew, NEW m \in 1 .. Len(bill) + 1
      PROVE  Within(None, w) + 0 <= OwedFrom(bill, m)
  <2>1. OwedFrom(bill, m) \in Nat
    BY <1>2, OwedTyped
  <2> QED
    BY <2>1, WithinNone
<1>4. Covers(bill, None, 0)
  BY <1>3 DEF Covers
<1> QED
  BY <1>4 DEF bill

LEMMA CoversOneMore ==
    ASSUME NEW bill \in Bills, NEW out \in Counts, NEW paid \in Int, Covers(bill, out, paid),
           NEW k \in Lags, NEW n \in Nat
    PROVE  Covers(Append(bill, <<k, n>>), out, paid + n)
<1> DEFINE longer == Append(bill, <<k, n>>)
<1>0. /\ Hour \in Nat /\ Skew \in Nat /\ k \in Nat /\ k <= Skew /\ k \in Ages
  BY Bounds, AgesFinite DEF Lags
<1>1. /\ Len(bill) \in Nat /\ Len(longer) = Len(bill) + 1
      /\ longer[Len(bill) + 1] = <<k, n>> /\ <<k, n>>[1] = k
      /\ \A i \in 1 .. Len(bill) : longer[i] = bill[i] /\ bill[i][1] \in Nat
  <2>1. <<k, n>> \in Ages \X Nat
    BY <1>0
  <2>2. /\ Len(longer) = Len(bill) + 1 /\ longer[Len(bill) + 1] = <<k, n>>
        /\ \A i \in 1 .. Len(bill) : longer[i] = bill[i]
    BY <2>1, AppendProperties DEF Bills
  <2>3. Len(bill) \in Nat /\ \A i \in 1 .. Len(bill) : bill[i][1] \in Nat
    BY BillIs, AgesFinite
  <2> QED
    BY <2>2, <2>3
<1>2. \A m \in 1 .. Len(bill) + 1 :
         OwedFrom(longer, m) = OwedFrom(bill, m) + n /\ OwedFrom(bill, m) \in Nat
  BY <1>0, OwedAppended, OwedTyped
<1> HIDE DEF longer
<1>3. ASSUME NEW w \in 1 .. Hour - Skew, NEW m \in 1 .. Len(longer) + 1,
             \A i \in 1 .. m - 1 : longer[i][1] >= w + Skew
      PROVE  Within(out, w) + (paid + n) <= OwedFrom(longer, m)
  <2>1. m \in 1 .. Len(bill) + 1
    <3>1. ASSUME m = Len(bill) + 2 PROVE FALSE
      <4>1. Len(bill) + 1 \in 1 .. m - 1
        BY <1>1, <3>1
      <4>2. k >= w + Skew
        BY <1>1, <1>3, <4>1
      <4> QED
        BY <1>0, <4>2
    <3> QED
      BY <1>1, <3>1
  <2>2. \A i \in 1 .. m - 1 : bill[i][1] >= w + Skew
    <3>1. \A i \in 1 .. m - 1 : i \in 1 .. Len(bill) /\ i \in 1 .. m - 1
      BY <1>1, <2>1
    <3> QED
      BY <1>1, <1>3, <3>1
  <2>3. Within(out, w) + paid <= OwedFrom(bill, m)
    BY <2>1, <2>2 DEF Covers
  <2>4. Within(out, w) \in Nat
    BY WithinTyped
  <2> QED
    BY <1>2, <2>1, <2>3, <2>4
<1>4. Covers(longer, out, paid + n)
  BY <1>3 DEF Covers
<1> QED
  BY <1>4 DEF longer

LEMMA CoversTheRest ==
    ASSUME NEW bill \in Bills, NEW out \in Counts, NEW paid \in Int, Covers(bill, out, paid),
           NEW rest \in Bills, NEW d \in 1 .. Len(bill) + 1, Rest(bill, d, rest),
           \A i \in 1 .. d - 1 : bill[i][1] >= Hour
    PROVE  Covers(rest, out, paid)
<1>0. Hour \in Nat /\ Skew \in Nat
  BY Bounds
<1>1. /\ Len(bill) \in Nat /\ Len(rest) \in Nat /\ Len(rest) = Len(bill) - d + 1
      /\ \A i \in 1 .. Len(rest) : rest[i] = bill[i + d - 1]
      /\ \A i \in 1 .. Len(bill) : bill[i][1] \in Nat
  BY BillIs, AgesFinite DEF Rest
<1>2. ASSUME NEW w \in 1 .. Hour - Skew, NEW m \in 1 .. Len(rest) + 1,
             \A i \in 1 .. m - 1 : rest[i][1] >= w + Skew
      PROVE  Within(out, w) + paid <= OwedFrom(rest, m)
  <2> DEFINE n == m + d - 1
  <2>1. n \in 1 .. Len(bill) + 1
    BY <1>1
  <2>2. ASSUME NEW i \in 1 .. n - 1 PROVE bill[i][1] >= w + Skew
    <3>1. CASE i < d
      <4>1. bill[i][1] >= Hour /\ bill[i][1] \in Nat
        BY <1>1, <3>1
      <4> QED
        BY <1>0, <4>1
    <3>2. CASE i >= d
      <4>1. i - d + 1 \in 1 .. m - 1 /\ i - d + 1 \in 1 .. Len(rest) /\ (i - d + 1) + d - 1 = i
        BY <1>1, <3>2
      <4> QED
        BY <1>1, <1>2, <4>1
    <3> QED
      BY <3>1, <3>2
  <2>3. OwedFrom(rest, m) = OwedFrom(bill, n)
    BY OwedDropped
  <2> HIDE DEF n
  <2>4. Within(out, w) + paid <= OwedFrom(bill, n)
    BY <2>1, <2>2 DEF Covers
  <2> QED
    BY <2>3, <2>4
<1> QED
  BY <1>2 DEF Covers

\* A result is given up, and what was paid for it stays on the bill.
LEMMA CoversLess ==
    ASSUME NEW bill \in Bills, NEW out \in Counts, NEW paid \in Int, Covers(bill, out, paid),
           NEW less \in Int, less <= paid
    PROVE  Covers(bill, out, less)
<1>1. ASSUME NEW w \in 1 .. Hour - Skew, NEW m \in 1 .. Len(bill) + 1,
             \A i \in 1 .. m - 1 : bill[i][1] >= w + Skew
      PROVE  Within(out, w) + less <= OwedFrom(bill, m)
  <2>1. Within(out, w) + paid <= OwedFrom(bill, m)
    BY <1>1 DEF Covers
  <2>2. Within(out, w) \in Nat /\ OwedFrom(bill, m) \in Nat
    BY WithinTyped, OwedTyped
  <2> QED
    BY <2>1, <2>2
<1> QED
  BY <1>1 DEF Covers

\* A result is released.
LEMMA CoversReleased ==
    ASSUME NEW bill \in Bills, NEW out \in Counts, NEW paid \in Int, Covers(bill, out, paid),
           NEW n \in Nat
    PROVE  Covers(bill, [out EXCEPT ![0] = @ + n], paid - n)
<1> DEFINE f == [out EXCEPT ![0] = @ + n]
<1>1. ASSUME NEW w \in 1 .. Hour - Skew PROVE Within(f, w) = Within(out, w) + n
  <2>1. 0 \in Ages /\ 0 < w
    BY AgesFinite
  <2> QED
    BY <2>1, WithinRaised
<1> HIDE DEF f
<1>2. ASSUME NEW w \in 1 .. Hour - Skew, NEW m \in 1 .. Len(bill) + 1,
             \A i \in 1 .. m - 1 : bill[i][1] >= w + Skew
      PROVE  Within(f, w) + (paid - n) <= OwedFrom(bill, m)
  <2>1. Within(out, w) + paid <= OwedFrom(bill, m)
    BY <1>2 DEF Covers
  <2>2. Within(out, w) \in Nat /\ OwedFrom(bill, m) \in Nat
    BY WithinTyped, OwedTyped
  <2> QED
    BY <1>1, <2>1, <2>2
<1>3. Covers(bill, f, paid - n)
  BY <1>2 DEF Covers
<1> QED
  BY <1>3 DEF f

\* A tick passes while no result is under way.
LEMMA CoversAged ==
    ASSUME NEW bill \in Bills, NEW out \in Counts, Covers(bill, out, 0)
    PROVE  LET b == [i \in DOMAIN bill |-> <<Age(bill[i][1]), bill[i][2]>>]
           IN  b \in Bills /\ Covers(b, Aged(out), 0) /\ Owed(b) = Owed(bill)
<1> DEFINE b == [i \in DOMAIN bill |-> <<Age(bill[i][1]), bill[i][2]>>]
<1>0. /\ Hour \in Nat /\ Skew \in Nat /\ Oldest \in Nat
      /\ Hour + Skew + 1 <= Oldest /\ Ages = 0 .. Oldest
  BY Bounds DEF Ages
<1>1. /\ Len(bill) \in Nat /\ DOMAIN bill = 1 .. Len(bill)
      /\ \A i \in 1 .. Len(bill) : bill[i][1] \in Ages /\ bill[i][2] \in Nat
  BY BillIs
<1>2. \A i \in 1 .. Len(bill) :
         /\ b[i] \in Ages \X Nat
         /\ b[i][1] = IF bill[i][1] < Oldest THEN bill[i][1] + 1 ELSE Oldest
         /\ b[i][2] = bill[i][2]
  BY <1>1, AgeIs
<1>3. b \in Bills /\ Len(b) = Len(bill) /\ DOMAIN b = DOMAIN bill
  <2>1. b \in [1 .. Len(bill) -> Ages \X Nat]
    BY <1>1, <1>2
  <2> HIDE DEF b
  <2>2. b \in Bills /\ Len(b) = Len(bill) /\ DOMAIN b = 1 .. Len(bill)
    BY <1>1, <2>1, SequenceOf DEF Bills
  <2> QED
    BY <1>1, <2>2
<1>4. \A w \in 1 .. Oldest : Within(Aged(out), w) = Within(out, w - 1)
  BY WithinAged
<1> HIDE DEF b
<1>5. Amounts(b) = Amounts(bill)
  <2>1. \A i \in DOMAIN bill : b[i][2] = bill[i][2]
    BY <1>1, <1>2
  <2> QED
    BY <1>3, <2>1 DEF Amounts
<1>6. \A m : OwedFrom(b, m) = OwedFrom(bill, m)
  BY <1>3, <1>5 DEF OwedFrom
<1>7. Owed(b) = Owed(bill)
  <2>1. Owed(b) = OwedFrom(b, 1) /\ Owed(bill) = OwedFrom(bill, 1)
    BY <1>3, OwedTyped
  <2> QED
    BY <1>6, <2>1
<1>8. ASSUME NEW w \in 1 .. Hour - Skew, NEW m \in 1 .. Len(b) + 1,
             \A i \in 1 .. m - 1 : b[i][1] >= w + Skew
      PROVE  Within(Aged(out), w) + 0 <= OwedFrom(b, m)
  <2>0. m \in 1 .. Len(bill) + 1 /\ OwedFrom(bill, m) \in Nat
    BY <1>3, OwedTyped
  <2>1. Within(Aged(out), w) = Within(out, w - 1) /\ w - 1 \in Nat
    <3>1. w \in 1 .. Oldest
      BY <1>0
    <3> QED
      BY <1>4, <3>1
  <2>2. CASE w = 1
    <3>1. {a \in Ages : a < w - 1} = {}
      BY <1>0, <2>2
    <3>2. Within(out, w - 1) = 0
      BY <3>1, WithinTyped
    <3> QED
      BY <1>6, <2>0, <2>1, <3>2
  <2>3. CASE w > 1
    <3>1. w - 1 \in 1 .. Hour - Skew
      BY <1>0, <2>3
    <3>2. ASSUME NEW i \in 1 .. m - 1 PROVE bill[i][1] >= (w - 1) + Skew
      <4>1. i \in 1 .. Len(bill) /\ b[i][1] >= w + Skew
        BY <1>1, <1>8, <2>0
      <4>2. bill[i][1] \in 0 .. Oldest
        BY <1>0, <1>1, <4>1
      <4> QED
        BY <1>0, <1>2, <4>1, <4>2
    <3>3. Within(out, w - 1) + 0 <= OwedFrom(bill, m)
      BY <2>0, <3>1, <3>2 DEF Covers
    <3> QED
      BY <1>6, <2>1, <3>3
  <2> QED
    BY <2>2, <2>3
<1>9. Covers(b, Aged(out), 0)
  BY <1>8 DEF Covers
<1> QED
  BY <1>3, <1>7, <1>9 DEF b

(***************************************************************************)
(* What is paid for.                                                       *)
(***************************************************************************)
Places == {Free} \cup Steps \cup Charges

LEMMA PlaceIs ==
    ASSUME NEW place \in Places
    PROVE  /\ place.at = "charging" =>
                 /\ place \in Charges
                 /\ place.texts \in Seq(Nat) /\ place.due \in Seq(Nat)
                 /\ PaidBy(place) = SumFunction(place.texts) - SumFunction(place.due)
           /\ place.at # "charging" => PaidBy(place) = 0
           /\ PaidBy(place) \in Int
<1>1. ASSUME place.at = "charging"
      PROVE  place \in Charges /\ place.texts \in Seq(Nat) /\ place.due \in Seq(Nat)
  <2>1. place # Free
    BY <1>1 DEF Free
  <2>2. place \notin Steps
    BY <1>1 DEF Steps
  <2> QED
    BY <2>1, <2>2 DEF Places, Charges
<1>2. ASSUME place.at = "charging"
      PROVE  /\ PaidBy(place) = SumFunction(place.texts) - SumFunction(place.due)
             /\ PaidBy(place) \in Int
  <2>1. PaidBy(place) = SumFunction(place.texts) - SumFunction(place.due)
    BY <1>2 DEF PaidBy
  <2>2. SumFunction(place.texts) \in Nat /\ SumFunction(place.due) \in Nat
    BY <1>1, <1>2, OneTextLess
  <2> QED
    BY <2>1, <2>2
<1>3. ASSUME place.at # "charging" PROVE PaidBy(place) = 0
  BY <1>3 DEF PaidBy
<1> QED
  BY <1>1, <1>2, <1>3

LEMMA ThreadsFinite == IsFiniteSet(Threads)
BY LimitsAssumption

LEMMA PaidTyped ==
    ASSUME NEW places \in [Threads -> Places]
    PROVE  /\ SumFunction(Paid(places)) \in Int
           /\ (\A w \in Threads : PaidBy(places[w]) \in Nat)
                 => SumFunction(Paid(places)) \in Nat
           /\ (\A w \in Threads : PaidBy(places[w]) = 0)
                 => SumFunction(Paid(places)) = 0
<1> DEFINE f == Paid(places)
<1>1. DOMAIN f = Threads /\ \A w \in Threads : f[w] = PaidBy(places[w]) /\ f[w] \in Int
  BY PlaceIs DEF Paid
<1>2. SumFunction(f) = SumFunctionOnSet(f, Threads)
  BY <1>1 DEF SumFunction
<1> HIDE DEF f
<1>3. SumFunctionOnSet(f, Threads) \in Int
  BY <1>1, ThreadsFinite, SumTaken
<1>4. ASSUME \A w \in Threads : PaidBy(places[w]) \in Nat
      PROVE  SumFunctionOnSet(f, Threads) \in Nat
  BY <1>1, <1>4, ThreadsFinite, SumNatural
<1>5. ASSUME \A w \in Threads : PaidBy(places[w]) = 0
      PROVE  SumFunctionOnSet(f, Threads) = 0
  BY <1>1, <1>5, ThreadsFinite, SumZero
<1> QED
  BY <1>2, <1>3, <1>4, <1>5 DEF f

LEMMA PaidMoves ==
    ASSUME NEW places \in [Threads -> Places], NEW w \in Threads, NEW place \in Places
    PROVE  LET after == [places EXCEPT ![w] = place]
           IN  /\ after \in [Threads -> Places]
               /\ SumFunction(Paid(after))
                    = SumFunction(Paid(places)) + (PaidBy(place) - PaidBy(places[w]))
<1> DEFINE after == [places EXCEPT ![w] = place]
           f == Paid(places)
           g == Paid(after)
           n == PaidBy(place) - PaidBy(places[w])
<1>1. after \in [Threads -> Places] /\ after[w] = place
      /\ \A v \in Threads \ {w} : after[v] = places[v]
  OBVIOUS
<1>2. PaidBy(place) \in Int /\ PaidBy(places[w]) \in Int
  BY PlaceIs
<1>3. /\ DOMAIN f = Threads /\ DOMAIN g = Threads
      /\ \A v \in Threads : f[v] = PaidBy(places[v]) /\ g[v] = PaidBy(after[v])
  BY DEF Paid
<1>4. n \in Int /\ g[w] = f[w] + n
  <2>1. f[w] = PaidBy(places[w]) /\ g[w] = PaidBy(place)
    BY <1>1, <1>3
  <2> QED
    BY <1>2, <2>1
<1>5. (\A v \in Threads : f[v] \in Int) /\ \A v \in Threads \ {w} : g[v] = f[v]
  BY <1>1, <1>3, PlaceIs
<1>6. SumFunction(f) = SumFunctionOnSet(f, Threads)
      /\ SumFunction(g) = SumFunctionOnSet(g, Threads)
  BY <1>3 DEF SumFunction
<1> HIDE DEF f, g, n, after
<1>7. SumFunctionOnSet(g, Threads) = SumFunctionOnSet(f, Threads) + n
  BY <1>4, <1>5, ThreadsFinite, SumRaised
<1> QED
  BY <1>1, <1>6, <1>7 DEF f, g, n, after

(***************************************************************************)
(* The guardrail's history without what is old.                            *)
(***************************************************************************)
LEMMA DroppedIs ==
    ASSUME NEW f \in Counts, NEW k \in Lags
    PROVE  /\ Dropped(f, k) \in Counts
           /\ SumFunction(Dropped(f, k)) <= SumFunction(f)
           /\ \A v \in Int : v <= Minute => Within(Dropped(f, k), v) = Within(f, v)
<1> DEFINE g == Dropped(f, k)
<1>0. Minute \in Nat /\ k \in Nat /\ IsFiniteSet(Ages) /\ \A a \in Ages : a \in Nat
  BY Bounds, AgesFinite DEF Lags
<1>1. g \in Counts /\ DOMAIN g = Ages /\ DOMAIN f = Ages
      /\ \A a \in Ages : f[a] \in Nat /\ g[a] = IF Live(k, a) THEN f[a] ELSE 0
  BY DEF Dropped, Counts
<1> HIDE DEF g
<1>2. SumFunction(g) <= SumFunction(f)
  <2>1. \A a \in Ages : g[a] \in Int /\ f[a] \in Int /\ g[a] <= f[a]
    BY <1>1
  <2>2. SumFunctionOnSet(g, Ages) <= SumFunctionOnSet(f, Ages)
    BY <1>0, <2>1, SumOrdered
  <2> QED
    BY <1>1, <2>2 DEF SumFunction
<1>3. ASSUME NEW v \in Int, v <= Minute PROVE Within(g, v) = Within(f, v)
  <2> DEFINE young == {a \in Ages : a < v}
  <2>1. \A a \in young : f[a] \in Int /\ g[a] = f[a]
    <3>1. \A a \in young : a \in Ages /\ a - k < Minute
      BY <1>0, <1>3
    <3> QED
      BY <1>1, <3>1 DEF Live
  <2>2. IsFiniteSet(young)
    BY Younger
  <2> HIDE DEF young
  <2>3. SumFunctionOnSet(g, young) = SumFunctionOnSet(f, young)
    BY <2>1, <2>2, SumSame
  <2> QED
    BY <2>3 DEF Within, young
<1> QED
  BY <1>1, <1>2, <1>3 DEF g

(***************************************************************************)
(* The latest signatures.                                                  *)
(***************************************************************************)
Hits(s, x, k) == {i \in DOMAIN s : s[i] = x /\ i > Len(s) - k}

LEMMA LatelyIs ==
    ASSUME NEW S, NEW s \in Seq(S), NEW x, NEW k \in Nat
    PROVE  /\ Lately(s, x, k) = Cardinality(Hits(s, x, k))
           /\ IsFiniteSet(Hits(s, x, k)) /\ Hits(s, x, k) \subseteq 1 .. Len(s)
           /\ Lately(s, x, k) \in Nat
           /\ k = 0 => Lately(s, x, k) = 0
           /\ Lately(s, x, k) <= Lately(s, x, k + 1)
           /\ Lately(s, x, k) <= Count(s, x) /\ Count(s, x) \in Nat
           /\ Len(s) <= k => Lately(s, x, k) = Count(s, x)
<1> DEFINE all == {i \in DOMAIN s : s[i] = x}
<1>0. Len(s) \in Nat /\ DOMAIN s = 1 .. Len(s)
  BY LenProperties
<1>1. /\ IsFiniteSet(1 .. Len(s)) /\ all \subseteq 1 .. Len(s)
      /\ Hits(s, x, k) \subseteq all /\ Hits(s, x, k + 1) \subseteq all
      /\ Hits(s, x, k) \subseteq Hits(s, x, k + 1)
  <2>1. IsFiniteSet(1 .. Len(s))
    BY <1>0, FS_Interval
  <2>2. all \subseteq 1 .. Len(s) /\ Hits(s, x, k) \subseteq all
        /\ Hits(s, x, k + 1) \subseteq all
    BY <1>0 DEF Hits
  <2>3. \A i \in 1 .. Len(s) : i > Len(s) - k => i > Len(s) - (k + 1)
    BY <1>0
  <2> QED
    BY <1>0, <2>1, <2>2, <2>3 DEF Hits
<1>2. Lately(s, x, k) = Cardinality(Hits(s, x, k))
      /\ Lately(s, x, k + 1) = Cardinality(Hits(s, x, k + 1))
      /\ Count(s, x) = Cardinality(all)
  BY DEF Lately, Hits, Count
<1>3. k = 0 => Hits(s, x, k) = {}
  BY <1>0 DEF Hits
<1>4. Len(s) <= k => Hits(s, x, k) = all
  BY <1>0 DEF Hits
<1> HIDE DEF all
<1>5. IsFiniteSet(all) /\ IsFiniteSet(Hits(s, x, k)) /\ IsFiniteSet(Hits(s, x, k + 1))
  BY <1>1, FS_Subset
<1>6. Cardinality(all) \in Nat /\ Cardinality(Hits(s, x, k)) \in Nat
  BY <1>5, FS_CardinalityType
<1>7. Cardinality(Hits(s, x, k)) <= Cardinality(all)
  BY <1>1, <1>5, FS_Subset
<1>8. Cardinality(Hits(s, x, k)) <= Cardinality(Hits(s, x, k + 1))
  BY <1>1, <1>5, FS_Subset
<1>9. Cardinality({}) = 0
  BY FS_EmptySet
<1> QED
  BY <1>1, <1>2, <1>3, <1>4, <1>5, <1>6, <1>7, <1>8, <1>9

LEMMA LatelyAppended ==
    ASSUME NEW S, NEW s \in Seq(S), NEW z \in S, NEW y, NEW k \in Nat
    PROVE  Lately(Append(s, z), y, k + 1) = Lately(s, y, k) + (IF z = y THEN 1 ELSE 0)
<1> DEFINE t == Append(s, z)
<1>1. /\ Len(s) \in Nat /\ DOMAIN s = 1 .. Len(s)
      /\ t \in Seq(S) /\ Len(t) = Len(s) + 1 /\ DOMAIN t = 1 .. Len(t)
      /\ t[Len(s) + 1] = z /\ \A i \in 1 .. Len(s) : t[i] = s[i]
  BY AppendProperties, LenProperties
<1> HIDE DEF t
<1>2. Hits(t, y, k + 1) = IF z = y THEN Hits(s, y, k) \cup {Len(s) + 1} ELSE Hits(s, y, k)
  <2>1. \A i \in 1 .. Len(s) : i > Len(t) - (k + 1) <=> i > Len(s) - k
    BY <1>1
  <2>2. Len(s) + 1 > Len(t) - (k + 1)
    BY <1>1
  <2>3. 1 .. Len(t) = 1 .. Len(s) \cup {Len(s) + 1}
    BY <1>1
  <2> QED
    BY <1>1, <2>1, <2>2, <2>3 DEF Hits
<1>3. IsFiniteSet(Hits(s, y, k)) /\ Len(s) + 1 \notin Hits(s, y, k)
  <2>1. IsFiniteSet(Hits(s, y, k)) /\ Hits(s, y, k) \subseteq 1 .. Len(s)
    BY LatelyIs
  <2> QED
    BY <1>1, <2>1
<1>4. Cardinality(Hits(s, y, k) \cup {Len(s) + 1}) = Cardinality(Hits(s, y, k)) + 1
  BY <1>3, FS_AddElement
<1>5. Cardinality(Hits(s, y, k)) \in Nat
  BY <1>3, FS_CardinalityType
<1>6. Lately(t, y, k + 1) = Cardinality(Hits(t, y, k + 1))
      /\ Lately(s, y, k) = Cardinality(Hits(s, y, k))
  BY DEF Lately, Hits
<1> QED
  BY <1>2, <1>4, <1>5, <1>6 DEF t

LEMMA LatelyInTail ==
    ASSUME NEW S, NEW s \in Seq(S), s # <<>>, NEW y, NEW k \in Nat, k < Len(s)
    PROVE  Lately(Tail(s), y, k) = Lately(s, y, k)
<1> DEFINE t == Tail(s)
           here == Hits(t, y, k)
           there == Hits(s, y, k)
           b == [i \in here |-> i + 1]
<1>1. /\ Len(s) \in Nat /\ DOMAIN s = 1 .. Len(s)
      /\ t \in Seq(S) /\ Len(t) = Len(s) - 1 /\ DOMAIN t = 1 .. Len(t)
      /\ \A i \in 1 .. Len(t) : t[i] = s[i + 1]
  BY HeadTailProperties, LenProperties
<1> HIDE DEF t
<1>2. \A i \in here : i \in Nat /\ i + 1 \in there
  BY <1>1 DEF Hits
<1>3. \A j \in there : j - 1 \in here /\ (j - 1) + 1 = j
  BY <1>1 DEF Hits
<1>4. ExistsBijection(here, there)
  <2>1. b \in [here -> there] /\ \A i \in here : b[i] = i + 1
    BY <1>2
  <2>2. \A i, j \in here : b[i] = b[j] => i = j
    BY <1>2, <2>1
  <2>3. \A j \in there : \E i \in here : b[i] = j
    BY <1>3, <2>1
  <2>4. b \in Bijection(here, there)
    BY <2>1, <2>2, <2>3, Fun_IsBij
  <2> QED
    BY <2>4 DEF ExistsBijection
<1>5. IsFiniteSet(here) /\ IsFiniteSet(there)
  BY <1>1, LatelyIs
<1>6. Cardinality(here) = Cardinality(there)
  BY <1>4, <1>5, FS_Bijection
<1> QED
  BY <1>6 DEF Lately, Hits, t

\* A signature comes in, and the oldest of more than RECENT_WINDOW goes.
LEMMA Pushed ==
    ASSUME NEW S, NEW s \in Seq(S), Len(s) <= Recent, NEW z \in S
    PROVE  LET t == Trim(Append(s, z))
           IN  /\ t \in Seq(S) /\ Len(t) <= Recent
               /\ Latest(Append(s, z)) = t
               /\ \A y : \A k \in 1 .. Recent :
                     Lately(t, y, k) = Lately(s, y, k - 1) + (IF z = y THEN 1 ELSE 0)
               /\ \A y : /\ Count(t, y) = Lately(t, y, Recent)
                         /\ Count(t, y) <= Count(s, y) + (IF z = y THEN 1 ELSE 0)
<1> DEFINE a == Append(s, z)
           t == Trim(a)
<1>0. Recent \in Nat \ {0} /\ Len(s) \in Nat
  BY Bounds, LenProperties
<1>1. a \in Seq(S) /\ Len(a) = Len(s) + 1 /\ a # <<>>
  <2>1. a \in Seq(S) /\ Len(a) = Len(s) + 1
    BY AppendProperties
  <2> QED
    BY <1>0, <2>1, EmptySeq
<1>2. \A y : \A k \in Nat : Lately(a, y, k + 1) = Lately(s, y, k) + (IF z = y THEN 1 ELSE 0)
  BY LatelyAppended
<1> HIDE DEF a
<1>3. Latest(a) = t
  BY DEF Latest, Trim
<1>4. t \in Seq(S) /\ Len(t) <= Recent
      /\ \A y : \A k \in 0 .. Recent : Lately(t, y, k) = Lately(a, y, k)
  <2>1. CASE Len(a) > Recent
    <3>1. t = Tail(a)
      BY <2>1 DEF Trim
    <3>2. Tail(a) \in Seq(S) /\ Len(Tail(a)) = Len(a) - 1
      BY <1>1, HeadTailProperties
    <3>3. ASSUME NEW y, NEW k \in 0 .. Recent
          PROVE  Lately(Tail(a), y, k) = Lately(a, y, k)
      <4>1. k \in Nat /\ k < Len(a)
        BY <1>0, <1>1, <2>1
      <4> QED
        BY <1>1, <4>1, LatelyInTail
    <3> QED
      BY <1>0, <1>1, <3>1, <3>2, <3>3
  <2>2. CASE ~(Len(a) > Recent)
    <3>1. t = a
      BY <2>2 DEF Trim
    <3> QED
      BY <1>0, <1>1, <2>2, <3>1
  <2> QED
    BY <2>1, <2>2
<1> HIDE DEF t
<1>5. ASSUME NEW y, NEW k \in 1 .. Recent
      PROVE  Lately(t, y, k) = Lately(s, y, k - 1) + (IF z = y THEN 1 ELSE 0)
  <2>1. k - 1 \in Nat /\ (k - 1) + 1 = k /\ k \in 0 .. Recent
    BY <1>0
  <2>2. Lately(a, y, (k - 1) + 1) = Lately(s, y, k - 1) + (IF z = y THEN 1 ELSE 0)
    BY <1>2, <2>1
  <2>3. Lately(t, y, k) = Lately(a, y, k)
    BY <1>4, <2>1
  <2> QED
    BY <2>1, <2>2, <2>3
<1>6. ASSUME NEW y
      PROVE  /\ Count(t, y) = Lately(t, y, Recent)
             /\ Count(t, y) <= Count(s, y) + (IF z = y THEN 1 ELSE 0)
  <2>1. Count(t, y) = Lately(t, y, Recent)
    BY <1>0, <1>4, LatelyIs
  <2>2. Recent \in 1 .. Recent
    BY <1>0
  <2>3. Lately(t, y, Recent) = Lately(s, y, Recent - 1) + (IF z = y THEN 1 ELSE 0)
    BY <1>5, <2>2
  <2>4. Recent - 1 \in Nat
    BY <1>0
  <2>5. /\ Lately(s, y, Recent - 1) <= Count(s, y) /\ Count(s, y) \in Nat
        /\ Lately(s, y, Recent - 1) \in Nat
    BY <2>4, LatelyIs
  <2> QED
    BY <2>1, <2>3, <2>5
<1>7. /\ t \in Seq(S) /\ Len(t) <= Recent /\ Latest(a) = t
      /\ \A y : \A k \in 1 .. Recent :
            Lately(t, y, k) = Lately(s, y, k - 1) + (IF z = y THEN 1 ELSE 0)
      /\ \A y : /\ Count(t, y) = Lately(t, y, Recent)
                /\ Count(t, y) <= Count(s, y) + (IF z = y THEN 1 ELSE 0)
  BY <1>3, <1>4, <1>5, <1>6
<1> QED
  BY <1>7 DEF t, a

(***************************************************************************)
(* Types.                                                                  *)
(***************************************************************************)
LEMMA ConfigIs ==
    ASSUME config \in Configs
    PROVE  /\ config.called \subseteq Signatures /\ config.calls \in Nat
           /\ config.policyRate \in Nat /\ config.rate \in Nat
           /\ config.threshold \in Nat /\ config.budget \in Nat
           /\ config.guardrail \in BOOLEAN /\ config.budgeted \in BOOLEAN
BY LimitsAssumption DEF Config

LEMMA TypeIs ==
    ASSUME TypeOK
    PROVE  /\ slot \in [Threads -> Places]
           /\ \A t \in Tools : hits[t] \in Seq(Ages) /\ Len(hits[t]) \in Nat
           /\ history \in [Tools -> Counts] /\ admitted \in [Tools -> Counts]
           /\ passed \in [Tools -> Counts] /\ released \in Counts
           /\ charged \in Bills
           /\ \A x \in Signatures : ToolOf[x] \in Tools
           /\ \A k \in Lags : k \in Ages
<1>1. \A t \in Tools : hits[t] \in Seq(Ages) /\ Len(hits[t]) \in Nat
  BY LenProperties DEF TypeOK
<1> QED
  BY <1>1, LimitsAssumption, AgesFinite DEF TypeOK, Places, Counts, Bills

LEMMA StepIs ==
    ASSUME TypeOK, NEW w \in Threads, slot[w].at \in {"limited", "checked"}
    PROVE  /\ slot[w] \in Steps /\ slot[w].sig \in Signatures
           /\ [slot[w] EXCEPT !.at = "checked"] \in Steps
           /\ [slot[w] EXCEPT !.at = "checked"].at = "checked"
<1>1. slot[w] \in {Free} \cup Steps \cup Charges
  BY DEF TypeOK
<1>2. slot[w] # Free /\ slot[w] \notin Charges
  BY DEF Free, Charges
<1>3. slot[w] \in Steps
  BY <1>1, <1>2
<1> QED
  BY <1>3 DEF Steps

\* What is left of a queue.
LEMMA QueuedIs ==
    ASSUME TypeOK, NEW t \in Tools, NEW k \in Lags
    PROVE  /\ Queued(t, k) \in Seq(Ages) /\ Len(Queued(t, k)) \in Nat
           /\ Len(Queued(t, k)) <= Len(hits[t])
           /\ \E m \in 1 .. Len(hits[t]) + 1 :
                 /\ Rest(hits[t], m, Queued(t, k))
                 /\ \A i \in 1 .. m - 1 : hits[t][i] >= Minute
                 /\ m <= Len(hits[t]) => hits[t][m] < Minute + Skew
<1> DEFINE q == hits[t]
           kept == {i \in DOMAIN q : Live(k, q[i])}
           r == Queued(t, k)
<1>0. Minute \in Nat /\ Skew \in Nat /\ k \in Nat /\ k <= Skew
  BY Bounds DEF Lags
<1>1. /\ q \in Seq(Ages) /\ Len(q) \in Nat /\ DOMAIN q = 1 .. Len(q)
      /\ \A i \in 1 .. Len(q) : q[i] \in Nat
  BY TypeIs, LenProperties, ElementOfSeq, AgesFinite
<1>2. kept \in SUBSET (DOMAIN q) /\ r = FromFirst(q, kept)
  BY DEF Queued
<1>3. /\ \A i \in 1 .. Len(q) : i \notin kept => q[i] >= Minute
      /\ \A i \in 1 .. Len(q) : i \in kept => q[i] < Minute + Skew
  BY <1>0, <1>1 DEF Live
<1> HIDE DEF q, kept, r
<1>4. r \in Seq(Ages)
  BY <1>1, <1>2, FromFirstIs
<1>5. PICK m \in 1 .. Len(q) + 1 :
         /\ Rest(q, m, r)
         /\ \A i \in 1 .. m - 1 : i \notin kept
         /\ m <= Len(q) => m \in kept
  BY <1>1, <1>2, FromFirstIs
<1>6. /\ \A i \in 1 .. m - 1 : q[i] >= Minute
      /\ m <= Len(q) => q[m] < Minute + Skew
  BY <1>1, <1>3, <1>5
<1>7. Len(r) \in Nat /\ Len(r) <= Len(q)
  BY <1>1, <1>5 DEF Rest
<1>8. \E n \in 1 .. Len(q) + 1 :
         /\ Rest(q, n, r)
         /\ \A i \in 1 .. n - 1 : q[i] >= Minute
         /\ n <= Len(q) => q[n] < Minute + Skew
  BY <1>5, <1>6
<1> QED
  BY <1>4, <1>7, <1>8 DEF q, r

LEMMA BilledIs ==
    ASSUME TypeOK, NEW k \in Lags
    PROVE  /\ Billed(k) \in Bills
           /\ \E m \in 1 .. Len(charged) + 1 :
                 /\ Rest(charged, m, Billed(k))
                 /\ \A i \in 1 .. m - 1 : charged[i][1] >= Hour
<1> DEFINE kept == {i \in DOMAIN charged : charged[i][1] - k <= Hour}
           r == Billed(k)
<1>0. Hour \in Nat /\ k \in Nat
  BY Bounds DEF Lags
<1>1. /\ charged \in Bills /\ Len(charged) \in Nat /\ DOMAIN charged = 1 .. Len(charged)
      /\ \A i \in 1 .. Len(charged) : charged[i][1] \in Nat
  BY TypeIs, BillIs, AgesFinite
<1>2. kept \in SUBSET (DOMAIN charged) /\ r = FromFirst(charged, kept)
  BY DEF Billed
<1>3. \A i \in 1 .. Len(charged) : i \notin kept => charged[i][1] >= Hour
  BY <1>0, <1>1
<1> HIDE DEF kept, r
<1>4. r \in Bills
  BY <1>1, <1>2, FromFirstIs DEF Bills
<1>5. PICK m \in 1 .. Len(charged) + 1 :
         /\ Rest(charged, m, r)
         /\ \A i \in 1 .. m - 1 : i \notin kept
  BY <1>1, <1>2, FromFirstIs DEF Bills
<1>6. \A i \in 1 .. m - 1 : charged[i][1] >= Hour
  BY <1>1, <1>3, <1>5
<1> QED
  BY <1>4, <1>5, <1>6 DEF r

LEMMA PrunedIs ==
    ASSUME TypeOK, NEW t \in Tools, NEW k \in Lags, NEW all \in BOOLEAN
    PROVE  /\ Pruned(t, k, all) \in [Tools -> Counts]
           /\ \A u \in Tools :
                 /\ SumFunction(Pruned(t, k, all)[u]) <= SumFunction(history[u])
                 /\ \A v \in Int : v <= Minute =>
                       Within(Pruned(t, k, all)[u], v) = Within(history[u], v)
<1>1. \A u \in Tools :
         /\ history[u] \in Counts
         /\ Pruned(t, k, all)[u] \in {Dropped(history[u], k), history[u]}
  BY TypeIs DEF Pruned
<1>2. ASSUME NEW u \in Tools
      PROVE  /\ Pruned(t, k, all)[u] \in Counts
             /\ SumFunction(Pruned(t, k, all)[u]) <= SumFunction(history[u])
             /\ \A v \in Int : v <= Minute =>
                   Within(Pruned(t, k, all)[u], v) = Within(history[u], v)
  <2>1. CASE Pruned(t, k, all)[u] = Dropped(history[u], k)
    BY <1>1, <2>1, DroppedIs
  <2>2. CASE Pruned(t, k, all)[u] = history[u]
    <3>1. SumFunction(history[u]) \in Nat
      BY <1>1, WithinTyped
    <3> QED
      BY <1>1, <2>2, <3>1
  <2> QED
    BY <1>1, <2>1, <2>2
<1> QED
  BY <1>2 DEF Pruned

\* One call more of a tool, of age k.
LEMMA OneCallMore ==
    ASSUME NEW f \in [Tools -> Counts], NEW t \in Tools, NEW k \in Ages
    PROVE  LET g == [f EXCEPT ![t][k] = @ + 1]
           IN  /\ g \in [Tools -> Counts]
               /\ g[t] = [f[t] EXCEPT ![k] = @ + 1]
               /\ \A u \in Tools \ {t} : g[u] = f[u]
<1> DEFINE h == [f[t] EXCEPT ![k] = @ + 1]
           g == [f EXCEPT ![t] = h]
<1>1. h \in Counts
  <2>1. f[t] \in [Ages -> Nat]
    BY DEF Counts
  <2> QED
    BY <2>1 DEF Counts
<1>2. [f EXCEPT ![t][k] = @ + 1] = g
  OBVIOUS
<1> HIDE DEF h
<1>3. g \in [Tools -> Counts] /\ g[t] = h /\ \A u \in Tools \ {t} : g[u] = f[u]
  BY <1>1
<1> QED
  BY <1>2, <1>3 DEF h

LEMMA TypeKept ==
    ASSUME TypeOK, [Next]_vars
    PROVE  TypeOK'
<1>0. /\ config \in Configs
      /\ config.called \subseteq Signatures /\ config.calls \in Nat
      /\ config.policyRate \in Nat /\ config.rate \in Nat
      /\ config.threshold \in Nat /\ config.budget \in Nat
      /\ slot \in [Threads -> Places]
      /\ \A t \in Tools : hits[t] \in Seq(Ages) /\ Len(hits[t]) \in Nat
      /\ history \in [Tools -> Counts] /\ admitted \in [Tools -> Counts]
      /\ passed \in [Tools -> Counts] /\ released \in Counts
      /\ charged \in Bills
      /\ \A x \in Signatures : ToolOf[x] \in Tools
      /\ \A k \in Lags : k \in Ages
  <2>1. config \in Configs
    BY DEF TypeOK
  <2> QED
    BY <2>1, ConfigIs, TypeIs
<1> USE <1>0
<1>1. ASSUME NEW w \in Threads, NEW x \in config.called, NEW k \in Lags, LimitRate(w, x, k)
      PROVE  TypeOK'
  <2> DEFINE t == ToolOf[x]
             queue == Queued(t, k)
             room == Len(queue) < config.policyRate
  <2>1. x \in Signatures /\ t \in Tools
    BY <1>0
  <2>2. queue \in Seq(Ages) /\ Len(queue) \in Nat /\ Len(queue) <= Len(hits[t])
        /\ Append(queue, k) \in Seq(Ages) /\ Len(Append(queue, k)) = Len(queue) + 1
    BY <2>1, QueuedIs, AppendProperties
  <2>3. made' \in 0 .. config.calls
    <3>1. made \in 0 .. config.calls /\ made < config.calls /\ made' = made + 1
      BY <1>1 DEF LimitRate, TypeOK
    <3> QED
      BY <3>1
  <2>4. /\ hits' \in [Tools -> Seq(Ages)]
        /\ \A u \in Tools : Len(hits'[u]) <= config.policyRate
    <3> DEFINE new == IF room THEN Append(queue, k) ELSE queue
    <3>1. new \in Seq(Ages) /\ Len(new) <= config.policyRate
      <4>1. Len(hits[t]) <= config.policyRate
        BY <2>1 DEF TypeOK
      <4> QED
        BY <1>0, <2>1, <2>2, <4>1
    <3>2. hits' = hits \/ hits' = [hits EXCEPT ![t] = new]
      BY <1>1 DEF LimitRate
    <3> HIDE DEF new
    <3> QED
      BY <2>1, <3>1, <3>2 DEF TypeOK
  <2>5. slot' \in [Threads -> {Free} \cup Steps \cup Charges]
    <3>1. [at |-> "limited", sig |-> x] \in Steps
      BY <2>1 DEF Steps
    <3> QED
      BY <1>1, <3>1 DEF LimitRate, Moves, Places
  <2>6. passed' \in [Tools -> [Ages -> Nat]]
    <3>1. 0 \in Ages
      BY AgesFinite
    <3>2. [passed EXCEPT ![t][0] = @ + 1] \in [Tools -> Counts]
      BY <2>1, <3>1, OneCallMore
    <3> QED
      BY <1>1, <3>2 DEF LimitRate, Counts
  <2> QED
    BY <1>1, <2>3, <2>4, <2>5, <2>6 DEF LimitRate, guardVars, budgetVars, TypeOK
<1>2. ASSUME NEW w \in Threads, NEW k \in Lags, NEW all \in BOOLEAN, CheckCall(w, k, all)
      PROVE  TypeOK'
  <2> DEFINE x == slot[w].sig
             t == ToolOf[x]
             kept == Pruned(t, k, all)
             passes == ~(Streak(x) > config.threshold) /\ ~Repeats(x)
  <2>1. /\ x \in Signatures /\ t \in Tools /\ k \in Ages /\ 0 \in Ages
        /\ [slot[w] EXCEPT !.at = "checked"] \in Steps
    BY <1>2, StepIs, AgesFinite DEF CheckCall
  <2>2. slot' \in [Threads -> {Free} \cup Steps \cup Charges]
    BY <1>2, <2>1 DEF CheckCall, Moves, Places
  <2>3. history' \in [Tools -> [Ages -> Nat]]
    <3>1. kept \in [Tools -> Counts]
      BY <2>1, PrunedIs
    <3>2. history' = kept \/ history' = [kept EXCEPT ![t][k] = @ + 1]
      BY <1>2 DEF CheckCall
    <3> HIDE DEF kept
    <3>3. [kept EXCEPT ![t][k] = @ + 1] \in [Tools -> Counts]
      BY <2>1, <3>1, OneCallMore
    <3> QED
      BY <3>1, <3>2, <3>3 DEF Counts
  <2>4. admitted' \in [Tools -> [Ages -> Nat]]
    <3>1. admitted' = admitted \/ admitted' = [admitted EXCEPT ![t][0] = @ + 1]
      BY <1>2 DEF CheckCall
    <3>2. [admitted EXCEPT ![t][0] = @ + 1] \in [Tools -> Counts]
      BY <2>1, OneCallMore
    <3> QED
      BY <3>1, <3>2 DEF Counts
  <2>5. last' = <<>> \/ last' \in Signatures \X (1 .. config.threshold)
    <3>1. Streak(x) \in Nat /\ Streak(x) >= 1
      <4>1. last # <<>> => last[2] \in 1 .. config.threshold
        BY DEF TypeOK
      <4> QED
        BY <4>1 DEF Streak
    <3>2. ~(Streak(x) > config.threshold) => <<x, Streak(x)>> \in Signatures \X (1 .. config.threshold)
      BY <1>0, <2>1, <3>1
    <3> QED
      BY <1>2, <3>2 DEF CheckCall, TypeOK
  <2>6. recent' \in Seq(Signatures) /\ Len(recent') <= Recent
    <3>1. recent \in Seq(Signatures) /\ Len(recent) <= Recent
      BY DEF TypeOK
    <3>2. Trim(Append(recent, x)) \in Seq(Signatures) /\ Len(Trim(Append(recent, x))) <= Recent
      BY <2>1, <3>1, Pushed
    <3> QED
      BY <1>2, <3>1, <3>2 DEF CheckCall
  <2>7. since' \in [Signatures -> Nat]
    <3>1. since \in [Signatures -> Nat]
      BY DEF TypeOK
    <3>2. since' = since \/ since' = [since EXCEPT ![x] = @ + 1]
      BY <1>2 DEF CheckCall
    <3> QED
      BY <2>1, <3>1, <3>2
  <2>8. examined' \in Seq(Signatures \X BOOLEAN)
    <3>1. examined \in Seq(Signatures \X BOOLEAN) /\ <<x, passes>> \in Signatures \X BOOLEAN
      BY <2>1 DEF TypeOK
    <3> DEFINE more == Append(examined, <<x, passes>>)
    <3>2. more \in Seq(Signatures \X BOOLEAN) /\ more # <<>>
      <4> DEFINE one == <<x, passes>>
      <4>1. one \in Signatures \X BOOLEAN
        BY <3>1
      <4> HIDE DEF one
      <4>2. Append(examined, one) \in Seq(Signatures \X BOOLEAN) /\ Append(examined, one) # <<>>
        BY <3>1, <4>1, AppendProperties
      <4> QED
        BY <4>2 DEF one
    <3>3. examined' = examined \/ examined' = Latest(more)
      BY <1>2 DEF CheckCall
    <3> HIDE DEF more
    <3>4. Latest(more) \in Seq(Signatures \X BOOLEAN)
      BY <3>2, HeadTailProperties DEF Latest
    <3> QED
      BY <3>1, <3>3, <3>4
  <2>9. UNCHANGED <<config, made, hits, passed, charged, released, clearing>>
    BY <1>2 DEF CheckCall, engineVars, budgetVars
  <2> QED
    BY <2>2, <2>3, <2>4, <2>5, <2>6, <2>7, <2>8, <2>9 DEF TypeOK
<1>3. ASSUME NEW w \in Threads, NoGuardrail(w) \/ Leave(w) PROVE TypeOK'
  <2>1. slot' \in [Threads -> {Free} \cup Steps \cup Charges]
    BY <1>3, StepIs DEF NoGuardrail, Leave, Moves, Places
  <2> QED
    BY <1>3, <2>1 DEF NoGuardrail, Leave, engineVars, guardVars, budgetVars, TypeOK
<1>4. ASSUME NEW w \in Threads, NEW output \in Outputs, Produce(w, output) PROVE TypeOK'
  <2>1. [at |-> "charging", texts |-> output, due |-> output] \in Charges
    BY LimitsAssumption DEF Charges
  <2>2. slot' \in [Threads -> {Free} \cup Steps \cup Charges]
    BY <1>4, <2>1 DEF Produce, Moves, Places
  <2> QED
    BY <1>4, <2>2 DEF Produce, engineVars, guardVars, budgetVars, TypeOK
<1>5. ASSUME NEW w \in Threads, NEW k \in Lags, Charge(w, k) PROVE TypeOK'
  <2> DEFINE n == Head(slot[w].due)
             paid == [slot[w] EXCEPT !.due = Tail(@)]
  <2>1. slot[w] \in Charges /\ n \in Nat /\ Tail(slot[w].due) \in Seq(Nat)
    <3>1. slot[w].at = "charging" /\ slot[w].due # <<>>
      BY <1>5 DEF Charge
    <3> QED
      BY <3>1, PlaceIs, OneTextLess
  <2>2. paid \in Charges
    BY <2>1 DEF Charges
  <2>3. slot' \in [Threads -> {Free} \cup Steps \cup Charges]
    BY <1>5, <2>2 DEF Charge, Moves, Places
  <2>4. charged' \in Bills
    <3>1. Billed(k) \in Bills /\ <<k, n>> \in Ages \X Nat
      BY <2>1, BilledIs
    <3>2. Append(Billed(k), <<k, n>>) \in Bills
      BY <3>1, AppendProperties DEF Bills
    <3> QED
      BY <1>5, <3>1, <3>2 DEF Charge
  <2> QED
    BY <1>5, <2>3, <2>4 DEF Charge, engineVars, guardVars, TypeOK, Bills
<1>6. ASSUME NEW w \in Threads, Release(w) PROVE TypeOK'
  <2>1. slot' \in [Threads -> {Free} \cup Steps \cup Charges]
    BY <1>6 DEF Release, Moves, Places
  <2>2. released' \in [Ages -> Nat]
    <3>1. SumFunction(slot[w].texts) \in Nat
      BY <1>6, PlaceIs, OneTextLess DEF Release
    <3>2. [released EXCEPT ![0] = @ + SumFunction(slot[w].texts)] \in Counts
      BY <3>1, AgesFinite, WithinRaised
    <3> QED
      BY <1>6, <3>2 DEF Release, Counts
  <2> QED
    BY <1>6, <2>1, <2>2 DEF Release, engineVars, guardVars, TypeOK
<1>7. ASSUME ClearHistory PROVE TypeOK'
  <2>1. None \in Counts
    BY WithinNone
  <2> QED
    BY <1>7, <2>1 DEF ClearHistory, engineVars, budgetVars, TypeOK, Counts
<1>8. ASSUME ClearCharged PROVE TypeOK'
  <2>1. None \in Counts /\ <<>> \in Seq(Ages \X Nat)
    BY WithinNone, EmptySeq
  <2>2. ASSUME NEW w \in Threads, slot[w].at = "charging"
        PROVE  [slot[w] EXCEPT !.texts = slot[w].due] \in Charges
    <3>1. slot[w] \in Charges /\ slot[w].due \in Seq(Nat)
      BY <2>2, PlaceIs
    <3> QED
      BY <3>1 DEF Charges
  <2>3. slot' \in [Threads -> {Free} \cup Steps \cup Charges]
    <3>1. \A w \in Threads :
             (IF slot[w].at = "charging" THEN [slot[w] EXCEPT !.texts = slot[w].due]
              ELSE slot[w]) \in {Free} \cup Steps \cup Charges
      BY <2>2 DEF TypeOK
    <3> QED
      BY <1>8, <3>1 DEF ClearCharged
  <2> QED
    BY <1>8, <2>1, <2>3 DEF ClearCharged, engineVars, guardVars, TypeOK, Counts
<1>9. ASSUME ClearLast PROVE TypeOK'
  BY <1>9 DEF ClearLast, engineVars, budgetVars, TypeOK
<1>10. ASSUME ClearRecent PROVE TypeOK'
  <2>1. Len(<<>>) = 0 /\ 0 <= Recent
    BY Bounds, EmptySeq
  <2> QED
    BY <1>10, <2>1 DEF ClearRecent, Forgotten, engineVars, budgetVars, TypeOK
<1>11. ASSUME Tick PROVE TypeOK'
  <2>1. ASSUME NEW t \in Tools
        PROVE  /\ hits'[t] \in Seq(Ages) /\ Len(hits'[t]) <= config.policyRate
    <3> DEFINE q == [i \in DOMAIN hits[t] |-> Age(hits[t][i])]
    <3>1. hits[t] \in Seq(Ages) /\ Len(hits[t]) <= config.policyRate
      BY DEF TypeOK
    <3>2. \A i \in 1 .. Len(hits[t]) : Age(hits[t][i]) \in Ages
      BY <3>1, ElementOfSeq, AgeIs
    <3>3. q \in [1 .. Len(hits[t]) -> Ages] /\ Len(hits[t]) \in Nat
      BY <3>1, <3>2, LenProperties
    <3>4. hits'[t] = q
      BY <1>11 DEF Tick
    <3> HIDE DEF q
    <3>5. q \in Seq(Ages) /\ Len(q) = Len(hits[t])
      BY <3>3, SequenceOf
    <3> QED
      BY <3>1, <3>4, <3>5
  <2>2. hits' \in [Tools -> Seq(Ages)]
    BY <1>11, <2>1 DEF Tick
  <2>3. charged' \in Seq(Ages \X Nat)
    <3> DEFINE b == [i \in DOMAIN charged |-> <<Age(charged[i][1]), charged[i][2]>>]
    <3>1. b \in [1 .. Len(charged) -> Ages \X Nat] /\ Len(charged) \in Nat
      BY BillIs, AgeIs
    <3>2. charged' = b
      BY <1>11 DEF Tick
    <3> HIDE DEF b
    <3> QED
      BY <3>1, <3>2, SequenceOf
  <2>4. \A f \in Counts : Aged(f) \in Counts
    BY WithinAged
  <2>5. /\ history' \in [Tools -> Counts] /\ passed' \in [Tools -> Counts]
        /\ admitted' \in [Tools -> Counts] /\ released' \in Counts
    BY <1>11, <2>4 DEF Tick
  <2> QED
    BY <1>11, <2>1, <2>2, <2>3, <2>5 DEF Tick, TypeOK, Counts
<1>12. ASSUME UNCHANGED vars PROVE TypeOK'
  BY <1>12 DEF vars, engineVars, guardVars, budgetVars, TypeOK
<1> QED
  BY <1>1, <1>2, <1>3, <1>4, <1>5, <1>6, <1>7, <1>8, <1>9, <1>10, <1>11, <1>12 DEF Next

(***************************************************************************)
(* The rate limits.                                                        *)
(***************************************************************************)
LEMMA RatedKept ==
    ASSUME TypeOK, Rated, [Next]_vars
    PROVE  Rated'
<1>0. /\ config \in Configs /\ config.rate \in Nat
      /\ history \in [Tools -> Counts] /\ admitted \in [Tools -> Counts]
      /\ Minute \in Nat /\ Skew \in Nat /\ Oldest \in Nat /\ Minute + Skew + 1 <= Oldest
  <2>1. config \in Configs
    BY DEF TypeOK
  <2> QED
    BY <2>1, ConfigIs, TypeIs, Bounds
<1>1. ASSUME NEW w \in Threads, NEW k \in Lags, NEW all \in BOOLEAN, CheckCall(w, k, all)
      PROVE  Rated'
  <2> DEFINE x == slot[w].sig
             t == ToolOf[x]
             kept == Pruned(t, k, all)
  <2>1. t \in Tools /\ k \in Ages /\ k \in Nat /\ k <= Skew /\ 0 \in Ages
    BY <1>1, <1>0, StepIs, TypeIs, AgesFinite DEF CheckCall, Lags
  <2>2. kept \in [Tools -> Counts]
    BY <2>1, PrunedIs
  <2>3. ASSUME NEW u \in Tools
        PROVE  /\ SumFunction(kept[u]) <= config.rate
               /\ \A v \in 1 .. Minute - Skew :
                     Within(admitted[u], v) <= Within(kept[u], v + Skew)
    <3>1. /\ SumFunction(kept[u]) <= SumFunction(history[u])
          /\ \A v \in Int : v <= Minute => Within(kept[u], v) = Within(history[u], v)
      BY <2>1, PrunedIs
    <3>2. SumFunction(kept[u]) \in Nat /\ SumFunction(history[u]) \in Nat
      BY <1>0, <2>2, WithinTyped
    <3>3. SumFunction(kept[u]) <= config.rate
      BY <1>0, <3>1, <3>2 DEF Rated
    <3>4. ASSUME NEW v \in 1 .. Minute - Skew
          PROVE  Within(admitted[u], v) <= Within(kept[u], v + Skew)
      <4>1. v + Skew \in Int /\ v + Skew <= Minute
        BY <1>0
      <4>2. Within(kept[u], v + Skew) = Within(history[u], v + Skew)
        BY <3>1, <4>1
      <4> QED
        BY <4>2 DEF Rated
    <3> QED
      BY <3>3, <3>4
  <2>4. CASE SumFunction(kept[t]) >= config.rate
    <3>1. history' = kept /\ admitted' = admitted /\ config' = config
      BY <1>1, <2>4 DEF CheckCall
    <3> HIDE DEF kept
    <3> QED
      BY <2>3, <3>1 DEF Rated
  <2>5. CASE ~(SumFunction(kept[t]) >= config.rate)
    <3> DEFINE h == [kept EXCEPT ![t][k] = @ + 1]
               f == [admitted EXCEPT ![t][0] = @ + 1]
    <3>1. history' = h /\ admitted' \in {admitted, f} /\ config' = config
      BY <1>1, <2>5 DEF CheckCall
    <3>2. h[t] = [kept[t] EXCEPT ![k] = @ + 1] /\ \A u \in Tools \ {t} : h[u] = kept[u]
      <4> HIDE DEF kept
      <4> QED
        BY <2>1, <2>2, OneCallMore
    <3>3. f[t] = [admitted[t] EXCEPT ![0] = @ + 1] /\ \A u \in Tools \ {t} : f[u] = admitted[u]
      BY <1>0, <2>1, OneCallMore
    <3>4. kept[t] \in Counts /\ admitted[t] \in Counts
      BY <1>0, <2>1, <2>2
    <3> HIDE DEF h, f, kept, t
    <3>5. SumFunction(h[t]) = SumFunction(kept[t]) + 1 /\ SumFunction(kept[t]) \in Nat
      BY <2>1, <3>2, <3>4, WithinRaised, WithinTyped
    <3>6. SumFunction(h[t]) <= config.rate
      BY <1>0, <2>5, <3>5
    <3>7. ASSUME NEW v \in 1 .. Minute - Skew
          PROVE  /\ Within(admitted[t], v) <= Within(h[t], v + Skew)
                 /\ Within(f[t], v) <= Within(h[t], v + Skew)
      <4>1. Within(h[t], v + Skew) = Within(kept[t], v + Skew) + 1
        <5>1. k < v + Skew
          BY <1>0, <2>1
        <5> QED
          BY <2>1, <3>2, <3>4, <5>1, WithinRaised
      <4>2. Within(f[t], v) = Within(admitted[t], v) + 1
        <5>1. 0 < v
          OBVIOUS
        <5> QED
          BY <2>1, <3>3, <3>4, <5>1, WithinRaised
      <4>3. Within(admitted[t], v) <= Within(kept[t], v + Skew)
        BY <2>1, <2>3
      <4>4. Within(admitted[t], v) \in Nat /\ Within(kept[t], v + Skew) \in Nat
        BY <3>4, WithinTyped
      <4> QED
        BY <4>1, <4>2, <4>3, <4>4
    <3>8. ASSUME NEW u \in Tools
          PROVE  /\ SumFunction(h[u]) <= config.rate
                 /\ \A v \in 1 .. Minute - Skew :
                       Within(admitted'[u], v) <= Within(h[u], v + Skew)
      <4>1. CASE u = t
        BY <3>1, <3>6, <3>7, <4>1
      <4>2. CASE u # t
        <5>1. h[u] = kept[u] /\ admitted'[u] = admitted[u]
          BY <3>1, <3>2, <3>3, <4>2
        <5> QED
          BY <2>3, <5>1
      <4> QED
        BY <4>1, <4>2
    <3> QED
      BY <3>1, <3>8 DEF Rated
  <2> QED
    BY <2>4, <2>5
<1>2. ASSUME ClearHistory PROVE Rated'
  <2>1. \A t \in Tools : history'[t] = None /\ admitted'[t] = None
    BY <1>2 DEF ClearHistory
  <2>2. config' = config
    BY <1>2 DEF ClearHistory
  <2>3. SumFunction(None) <= config.rate
        /\ \A v \in 1 .. Minute - Skew : Within(None, v) <= Within(None, v + Skew)
    <3>1. SumFunction(None) = 0 /\ \A v : Within(None, v) = 0
      BY WithinNone
    <3> QED
      BY <1>0, <3>1
  <2> QED
    BY <2>1, <2>2, <2>3 DEF Rated
<1>3. ASSUME Tick PROVE Rated'
  <2>1. config' = config
        /\ \A t \in Tools : history'[t] = Aged(history[t]) /\ admitted'[t] = Aged(admitted[t])
    BY <1>3 DEF Tick
  <2>2. ASSUME NEW t \in Tools
        PROVE  /\ SumFunction(Aged(history[t])) <= config.rate
               /\ \A v \in 1 .. Minute - Skew :
                     Within(Aged(admitted[t]), v) <= Within(Aged(history[t]), v + Skew)
    <3> DEFINE h == history[t]
               f == admitted[t]
    <3>1. h \in Counts /\ f \in Counts
      BY <1>0
    <3>2. SumFunction(h) <= config.rate
          /\ \A v \in 1 .. Minute - Skew : Within(f, v) <= Within(h, v + Skew)
      BY DEF Rated
    <3> HIDE DEF h, f
    <3>3. SumFunction(Aged(h)) <= SumFunction(h) /\ Aged(h) \in Counts
          /\ SumFunction(h) \in Nat /\ SumFunction(Aged(h)) \in Nat
      BY <3>1, WithinAged, WithinTyped
    <3>4. SumFunction(Aged(h)) <= config.rate
      BY <1>0, <3>2, <3>3
    <3>5. ASSUME NEW v \in 1 .. Minute - Skew
          PROVE  Within(Aged(f), v) <= Within(Aged(h), v + Skew)
      <4>1. v \in 1 .. Oldest /\ v + Skew \in 1 .. Oldest
        BY <1>0
      <4>2. Within(Aged(f), v) = Within(f, v - 1)
            /\ Within(Aged(h), v + Skew) = Within(h, v + Skew - 1)
        <5>1. /\ \A x \in 1 .. Oldest : Within(Aged(f), x) = Within(f, x - 1)
              /\ \A x \in 1 .. Oldest : Within(Aged(h), x) = Within(h, x - 1)
          BY <3>1, WithinAged
        <5> DEFINE u == v + Skew
        <5>2. u \in 1 .. Oldest
          BY <4>1
        <5> HIDE DEF u
        <5>3. Within(Aged(f), v) = Within(f, v - 1) /\ Within(Aged(h), u) = Within(h, u - 1)
          BY <4>1, <5>1, <5>2
        <5> QED
          BY <1>0, <5>3 DEF u
      <4>3. CASE v = 1
        <5>1. {a \in Ages : a < v - 1} = {}
          <6>1. \A a \in Ages : a \in Nat
            BY AgesFinite
          <6> QED
            BY <4>3, <6>1
        <5>2. Within(f, v - 1) = 0 /\ Within(h, v + Skew - 1) \in Nat
          BY <3>1, <5>1, WithinTyped
        <5> QED
          BY <4>2, <5>2
      <4>4. CASE v > 1
        <5>1. v - 1 \in 1 .. Minute - Skew /\ (v - 1) + Skew = v + Skew - 1
          BY <1>0, <4>4
        <5>2. Within(f, v - 1) <= Within(h, (v - 1) + Skew)
          BY <3>2, <5>1
        <5> QED
          BY <4>2, <5>1, <5>2
      <4> QED
        BY <4>3, <4>4
    <3> QED
      BY <3>4, <3>5 DEF h, f
  <2> QED
    BY <2>1, <2>2 DEF Rated
<1>4. ASSUME UNCHANGED <<config, history, admitted>> PROVE Rated'
  BY <1>4 DEF Rated
<1>5. ASSUME ~ClearHistory, ~Tick,
             \A w \in Threads, k \in Lags, all \in BOOLEAN : ~CheckCall(w, k, all)
      PROVE  UNCHANGED <<config, history, admitted>>
  BY <1>5 DEF Next, LimitRate, NoGuardrail, Leave, Release, Produce, Charge, ClearCharged,
     ClearLast, ClearRecent, guardVars, vars
<1> QED
  BY <1>1, <1>2, <1>3, <1>4, <1>5

LEMMA QueuesKept ==
    ASSUME TypeOK, Queues, [Next]_vars
    PROVE  Queues'
<1>0. /\ config \in Configs /\ config.policyRate \in Nat /\ config.called \subseteq Signatures
      /\ passed \in [Tools -> Counts] /\ \A x \in Signatures : ToolOf[x] \in Tools
      /\ \A t \in Tools : hits[t] \in Seq(Ages)
      /\ DOMAIN hits = Tools
  <2>1. config \in Configs /\ DOMAIN hits = Tools
    BY DEF TypeOK
  <2> QED
    BY <2>1, ConfigIs, TypeIs
<1>1. ASSUME NEW w \in Threads, NEW x \in config.called, NEW k \in Lags, LimitRate(w, x, k)
      PROVE  Queues'
  <2> DEFINE t == ToolOf[x]
             queue == Queued(t, k)
             room == Len(queue) < config.policyRate
  <2>1. t \in Tools /\ config' = config
    BY <1>0, <1>1 DEF LimitRate
  <2>2. Limited' <=> Limited
    BY <2>1 DEF Limited
  <2>3. ASSUME Limited
        PROVE  \A u \in Tools : Tracks(hits'[u], passed'[u])
    <3>1. \A u \in Tools : Tracks(hits[u], passed[u])
      BY <2>3 DEF Queues
    <3>2. queue \in Seq(Ages) /\ Tracks(queue, passed[t])
      <4>1. queue \in Seq(Ages)
        BY <2>1, QueuedIs
      <4>2. PICK m \in 1 .. Len(hits[t]) + 1 :
               Rest(hits[t], m, queue) /\ \A i \in 1 .. m - 1 : hits[t][i] >= Minute
        BY <2>1, QueuedIs
      <4>3. hits[t] \in Seq(Ages) /\ passed[t] \in Counts /\ Tracks(hits[t], passed[t])
        BY <1>0, <2>1, <3>1
      <4> HIDE DEF queue, t
      <4> QED
        BY <4>1, <4>2, <4>3, TracksTheRest
    <3>3. CASE room
      <4>1. /\ hits' = [hits EXCEPT ![t] = Append(queue, k)]
            /\ passed' = [passed EXCEPT ![t][0] = @ + 1]
        BY <1>1, <2>3, <3>3 DEF LimitRate, Limited
      <4>2. passed'[t] = [passed[t] EXCEPT ![0] = @ + 1]
            /\ \A u \in Tools \ {t} : passed'[u] = passed[u]
        BY <1>0, <2>1, <4>1, AgesFinite, OneCallMore
      <4>3. passed[t] \in Counts
        BY <1>0, <2>1
      <4> HIDE DEF queue, t
      <4>4. Tracks(Append(queue, k), [passed[t] EXCEPT ![0] = @ + 1])
        BY <3>2, <4>3, TracksOneMore
      <4>5. hits'[t] = Append(queue, k) /\ \A u \in Tools \ {t} : hits'[u] = hits[u]
        BY <1>0, <2>1, <4>1
      <4> QED
        BY <3>1, <4>2, <4>4, <4>5
    <3>4. CASE ~room
      <4>1. hits' = [hits EXCEPT ![t] = queue] /\ passed' = passed
        BY <1>1, <2>3, <3>4 DEF LimitRate, Limited
      <4> HIDE DEF queue, t
      <4>2. hits'[t] = queue /\ \A u \in Tools \ {t} : hits'[u] = hits[u]
        BY <1>0, <2>1, <4>1
      <4> QED
        BY <3>1, <3>2, <4>1, <4>2
    <3> QED
      BY <3>3, <3>4
  <2> QED
    BY <2>2, <2>3 DEF Queues
<1>2. ASSUME Tick PROVE Queues'
  <2>1. config' = config
        /\ \A t \in Tools : /\ hits'[t] = [i \in DOMAIN hits[t] |-> Age(hits[t][i])]
                            /\ passed'[t] = Aged(passed[t])
    BY <1>2 DEF Tick
  <2>2. ASSUME Limited, NEW t \in Tools PROVE Tracks(hits'[t], passed'[t])
    <3>1. hits[t] \in Seq(Ages) /\ passed[t] \in Counts /\ Tracks(hits[t], passed[t])
      BY <1>0, <2>2 DEF Queues
    <3>2. Tracks([i \in DOMAIN hits[t] |-> Age(hits[t][i])], Aged(passed[t]))
      BY <3>1, TracksAged
    <3> QED
      BY <2>1, <3>2
  <2> QED
    BY <2>1, <2>2 DEF Queues, Limited
<1>3. ASSUME UNCHANGED <<config, hits, passed>> PROVE Queues'
  BY <1>3 DEF Queues, Limited
<1>4. ASSUME ~Tick,
             \A w \in Threads, x \in config.called, k \in Lags : ~LimitRate(w, x, k)
      PROVE  UNCHANGED <<config, hits, passed>>
  BY <1>4 DEF Next, CheckCall, NoGuardrail, Leave, Release, Produce, Charge, ClearHistory,
     ClearCharged, ClearLast, ClearRecent, engineVars, vars
<1> QED
  BY <1>1, <1>2, <1>3, <1>4

(***************************************************************************)
(* The loop breaker.                                                       *)
(***************************************************************************)
LEMMA CountsNothing ==
    ASSUME NEW x
    PROVE  Count(<<>>, x) = 0 /\ \A k \in Nat : Lately(<<>>, x, k) = 0
<1>1. Len(<<>>) = 0 /\ <<>> \in Seq({})
  BY EmptySeq
<1>2. Count(<<>>, x) = Cardinality({})
  BY <1>1 DEF Count
<1>3. ASSUME NEW k \in Nat PROVE Lately(<<>>, x, k) = Cardinality({})
  <2>1. {i \in DOMAIN <<>> : <<>>[i] = x /\ i > Len(<<>>) - k} = {}
    BY <1>1
  <2> QED
    BY <2>1 DEF Lately
<1>4. Cardinality({}) = 0
  BY FS_EmptySet
<1> QED
  BY <1>2, <1>3, <1>4

LEMMA LoopsKept ==
    ASSUME TypeOK, Loops, [Next]_vars
    PROVE  Loops'
<1>0. /\ config \in Configs /\ config.threshold \in Nat
      /\ recent \in Seq(Signatures) /\ Len(recent) <= Recent
      /\ examined \in Seq(Signatures \X BOOLEAN) /\ Len(examined) <= Recent
      /\ since \in [Signatures -> Nat] /\ Recent \in Nat \ {0}
      /\ last # <<>> => last[1] \in Signatures /\ last[2] \in Nat
  <2>1. config \in Configs
    BY DEF TypeOK
  <2> QED
    BY <2>1, ConfigIs, Bounds DEF TypeOK, Loops
<1>1. ASSUME NEW w \in Threads, NEW k \in Lags, NEW all \in BOOLEAN, CheckCall(w, k, all)
      PROVE  Loops'
  <2> DEFINE x == slot[w].sig
             loops == Streak(x) > config.threshold
             passes == ~loops /\ ~Repeats(x)
             one == <<x, passes>>
             seen == Trim(Append(recent, x))
             told == Trim(Append(examined, one))
  <2>1. x \in Signatures /\ one \in Signatures \X BOOLEAN
    BY <1>1, StepIs DEF CheckCall
  <2>2. CASE UNCHANGED <<config, last, recent, examined, since, clearing>>
    BY <2>2 DEF Loops
  <2>3. CASE /\ examined' = Latest(Append(examined, one))
             /\ since' = [since EXCEPT ![x] = @ + 1]
             /\ IF loops THEN UNCHANGED <<last, recent>>
                ELSE last' = <<x, Streak(x)>> /\ recent' = seen
             /\ UNCHANGED <<config, clearing>>
    <3>1. /\ seen \in Seq(Signatures) /\ Len(seen) <= Recent
          /\ \A y : \A j \in 1 .. Recent :
                Lately(seen, y, j) = Lately(recent, y, j - 1) + (IF x = y THEN 1 ELSE 0)
          /\ \A y : /\ Count(seen, y) = Lately(seen, y, Recent)
                    /\ Count(seen, y) <= Count(recent, y) + (IF x = y THEN 1 ELSE 0)
      <4> HIDE DEF x
      <4> QED
        BY <1>0, <2>1, Pushed
    <3>2. /\ told \in Seq(Signatures \X BOOLEAN) /\ Len(told) <= Recent
          /\ examined' = told
          /\ \A y : \A j \in 1 .. Recent :
                Lately(told, y, j) = Lately(examined, y, j - 1) + (IF one = y THEN 1 ELSE 0)
          /\ \A y : /\ Count(told, y) = Lately(told, y, Recent)
                    /\ Count(told, y) <= Count(examined, y) + (IF one = y THEN 1 ELSE 0)
      <4> HIDE DEF one
      <4>1. examined \in Seq(Signatures \X BOOLEAN) /\ Len(examined) <= Recent
            /\ one \in Signatures \X BOOLEAN
        BY <1>0, <2>1
      <4>2. /\ told \in Seq(Signatures \X BOOLEAN) /\ Len(told) <= Recent
            /\ Latest(Append(examined, one)) = told
            /\ \A y : \A j \in 1 .. Recent :
                  Lately(told, y, j) = Lately(examined, y, j - 1) + (IF one = y THEN 1 ELSE 0)
            /\ \A y : /\ Count(told, y) = Lately(told, y, Recent)
                      /\ Count(told, y) <= Count(examined, y) + (IF one = y THEN 1 ELSE 0)
        BY <4>1, Pushed
      <4> HIDE DEF told
      <4> QED
        BY <2>3, <4>2
    <3>3. \A y \in Signatures : one = <<y, TRUE>> <=> (x = y /\ passes)
      <4> HIDE DEF x, loops
      <4> QED
        OBVIOUS
    <3>4. recent' \in Seq(Signatures)
      BY <1>0, <2>3, <3>1
    <3>5. \A y \in Signatures : since'[y] = since[y] + (IF x = y THEN 1 ELSE 0)
      BY <1>0, <2>1, <2>3
    <3>6. passes => ~loops /\ Count(seen, x) <= config.threshold
      <4>1. Count(seen, x) \in Nat
        BY <3>1, LatelyIs
      <4> QED
        BY <1>0, <4>1 DEF Repeats
    <3>7. ASSUME NEW y \in Signatures, NEW j \in 1 .. Recent
          PROVE  Lately(told, <<y, TRUE>>, j) <= Lately(recent', y, j)
      <4> DEFINE z == <<y, TRUE>>
      <4>1. Lately(told, z, j) = Lately(examined, z, j - 1) + (IF one = z THEN 1 ELSE 0)
        BY <3>2
      <4>2. j - 1 \in Nat /\ j - 1 \in 0 .. Recent /\ (j - 1) + 1 = j
        BY <1>0
      <4>3. Lately(examined, z, j - 1) <= Lately(recent, y, j - 1)
        BY <4>2 DEF Loops
      <4>4. /\ Lately(recent, y, j - 1) <= Lately(recent, y, (j - 1) + 1)
            /\ Lately(recent, y, j - 1) \in Nat
        BY <1>0, <4>2, LatelyIs
      <4>5. Lately(examined, z, j - 1) \in Nat /\ Lately(recent, y, j) \in Nat
        BY <1>0, <4>2, LatelyIs
      <4>6. one = z <=> (x = y /\ passes)
        BY <3>3
      <4> HIDE DEF z, one, told
      <4> DEFINE before == Lately(examined, z, j - 1)
                 less == Lately(recent, y, j - 1)
                 more == Lately(recent, y, j)
      <4>a. before \in Nat /\ less \in Nat /\ more \in Nat /\ before <= less /\ less <= more
        <5>1. less <= Lately(recent, y, (j - 1) + 1)
          BY <4>4
        <5> QED
          BY <4>2, <4>3, <4>4, <4>5, <5>1
      <4>7. ASSUME loops PROVE Lately(told, z, j) <= Lately(recent', y, j)
        <5>1. recent' = recent /\ one # z
          BY <2>3, <4>6, <4>7
        <5>2. Lately(told, z, j) = before + 0
          BY <4>1, <5>1
        <5> HIDE DEF before, less, more
        <5>3. before + 0 <= more
          BY <4>a
        <5>4. Lately(recent', y, j) = more
          BY <5>1 DEF more
        <5> QED
          BY <5>2, <5>3, <5>4
      <4>8. ASSUME ~loops PROVE Lately(told, z, j) <= Lately(recent', y, j)
        <5>1. recent' = seen
          BY <2>3, <4>8
        <5>2. Lately(seen, y, j) = less + (IF x = y THEN 1 ELSE 0)
          BY <3>1
        <5> HIDE DEF seen, before, less, more, x
        <5>3. Lately(told, z, j) = before + (IF one = z THEN 1 ELSE 0)
          BY <4>1 DEF before
        <5>4. before + (IF one = z THEN 1 ELSE 0) <= less + (IF x = y THEN 1 ELSE 0)
          BY <4>a, <4>6
        <5> QED
          BY <5>1, <5>2, <5>3, <5>4
      <4> QED
        BY <4>7, <4>8 DEF z
    <3>8. ASSUME NEW y \in Signatures, NEW j \in 0 .. Recent
          PROVE  Lately(told, <<y, TRUE>>, j) <= Lately(recent', y, j)
      <4>1. CASE j = 0
        <5>1. Lately(told, <<y, TRUE>>, j) = 0 /\ Lately(recent', y, j) = 0
          BY <3>2, <3>4, <4>1, LatelyIs
        <5> QED
          BY <5>1
      <4>2. CASE j # 0
        <5>1. j \in 1 .. Recent
          BY <1>0, <4>2
        <5> QED
          BY <3>7, <5>1
      <4> QED
        BY <4>1, <4>2
    <3>9. ASSUME NEW y \in Signatures
          PROVE  Count(told, <<y, TRUE>>) <= config.threshold
      <4> DEFINE z == <<y, TRUE>>
      <4>1. one = z <=> (x = y /\ passes)
        BY <3>3
      <4>2. /\ Count(told, z) = Lately(told, z, Recent)
            /\ Count(told, z) <= Count(examined, z) + (IF one = z THEN 1 ELSE 0)
            /\ Recent \in 1 .. Recent
        <5>1. Recent \in 1 .. Recent
          BY <1>0
        <5> HIDE DEF told, one, z
        <5> QED
          BY <3>2, <5>1
      <4>3. Lately(told, z, Recent) <= Lately(recent', y, Recent)
        BY <3>7, <4>2
      <4>4. /\ Count(examined, z) \in Nat /\ Count(told, z) \in Nat
            /\ Count(examined, z) <= config.threshold
        BY <1>0, <3>2, LatelyIs DEF Loops
      <4> HIDE DEF z, one, told
      <4>5. ASSUME x = y /\ passes PROVE Count(told, z) <= config.threshold
        <5>1. recent' = seen /\ Count(seen, y) <= config.threshold
          BY <2>3, <3>6, <4>5
        <5>2. Lately(seen, y, Recent) = Count(seen, y) /\ Count(seen, y) \in Nat
          BY <3>1, LatelyIs
        <5> HIDE DEF seen
        <5>3. Count(told, z) <= Count(seen, y)
          BY <4>2, <4>3, <5>1, <5>2
        <5> QED
          BY <1>0, <4>4, <5>1, <5>2, <5>3
      <4>6. ASSUME ~(x = y /\ passes) PROVE Count(told, z) <= config.threshold
        <5>1. one # z
          BY <4>1, <4>6
        <5>2. Count(told, z) <= Count(examined, z) + 0
          BY <4>2, <5>1
        <5> QED
          BY <1>0, <4>4, <5>2
      <4> QED
        BY <4>5, <4>6 DEF z
    <3>10. ASSUME NEW y \in Signatures, clearing # 3
           PROVE  Count(recent', y) <= since'[y]
      <4>1. Count(recent, y) <= since[y] /\ since[y] \in Nat
        BY <1>0, <3>10 DEF Loops
      <4>2. Count(recent, y) \in Nat /\ Count(seen, y) \in Nat
        BY <1>0, <3>1, LatelyIs
      <4>3. Count(seen, y) <= Count(recent, y) + (IF x = y THEN 1 ELSE 0)
        BY <3>1
      <4>4. recent' = recent \/ recent' = seen
        BY <2>3
      <4> HIDE DEF seen
      <4> QED
        BY <3>5, <4>1, <4>2, <4>3, <4>4
    <3>11. last' # <<>> => last'[2] <= since'[last'[1]]
      <4>1. CASE loops
        <5>1. last' = last
          BY <2>3, <4>1
        <5>2. last # <<>> => last[2] <= since[last[1]]
          BY DEF Loops
        <5> HIDE DEF x
        <5> QED
          BY <1>0, <3>5, <5>1, <5>2
      <4>2. CASE ~loops
        <5>1. last' = <<x, Streak(x)>>
          BY <2>3, <4>2
        <5>2. Streak(x) <= since[x] + 1
          <6>1. last # <<>> /\ last[1] = x => last[2] <= since[x]
            BY DEF Loops
          <6> HIDE DEF x
          <6> QED
            BY <1>0, <2>1, <6>1 DEF Streak
        <5>3. since'[x] = since[x] + 1
          BY <2>1, <3>5
        <5> QED
          BY <5>1, <5>2, <5>3
      <4> QED
        BY <4>1, <4>2
    <3>12. config' = config /\ clearing' = clearing
      BY <2>3
    <3> HIDE DEF told, one, seen, x, loops
    <3> QED
      BY <3>2, <3>8, <3>9, <3>10, <3>11, <3>12 DEF Loops
  <2>4. \/ UNCHANGED <<config, last, recent, examined, since, clearing>>
        \/ /\ examined' = Latest(Append(examined, one))
           /\ since' = [since EXCEPT ![x] = @ + 1]
           /\ IF loops THEN UNCHANGED <<last, recent>>
              ELSE last' = <<x, Streak(x)>> /\ recent' = seen
           /\ UNCHANGED <<config, clearing>>
    BY <1>1 DEF CheckCall
  <2> QED
    BY <2>2, <2>3, <2>4
<1>2. ASSUME ClearHistory \/ ClearCharged PROVE Loops'
  <2>1. /\ UNCHANGED <<config, last, recent, examined, since>>
        /\ clearing # 3
    BY <1>2 DEF ClearHistory, ClearCharged, guardVars
  <2> QED
    BY <2>1 DEF Loops
<1>3. ASSUME ClearLast PROVE Loops'
  <2>1. UNCHANGED <<config, recent, examined>> /\ clearing' = 3 /\ last' = <<>>
    BY <1>3 DEF ClearLast
  <2> QED
    BY <2>1 DEF Loops
<1>4. ASSUME ClearRecent PROVE Loops'
  <2>1. /\ UNCHANGED <<config, last, since>> /\ clearing' = 0
        /\ recent' = <<>> /\ examined' = <<>>
    BY <1>4 DEF ClearRecent, Forgotten
  <2>2. ASSUME NEW x
        PROVE  Count(<<>>, x) = 0 /\ \A k \in 0 .. Recent : Lately(<<>>, x, k) = 0
    <3>1. Count(<<>>, x) = 0 /\ \A k \in Nat : Lately(<<>>, x, k) = 0
      BY CountsNothing
    <3>2. \A k \in 0 .. Recent : k \in Nat
      BY <1>0
    <3> QED
      BY <3>1, <3>2
  <2> DEFINE nothing == <<>>
  <2>3. Len(<<>>) = 0
    BY EmptySeq
  <2>4. \A x \in Signatures : since[x] \in Nat
    BY <1>0
  <2>5. last # <<>> => last[2] <= since[last[1]]
    BY DEF Loops
  <2> QED
    <3>1. Len(nothing) <= Recent
      BY <1>0, <2>3
    <3>2. \A x : Count(nothing, x) = 0 /\ \A k \in 0 .. Recent : Lately(nothing, x, k) = 0
      BY <2>2
    <3>3. recent' = nothing /\ examined' = nothing
      BY <2>1
    <3> HIDE DEF nothing
    <3>4. ASSUME NEW x \in Signatures
          PROVE  /\ \A k \in 0 .. Recent :
                       Lately(nothing, <<x, TRUE>>, k) <= Lately(nothing, x, k)
                 /\ Count(nothing, <<x, TRUE>>) <= config.threshold
                 /\ Count(nothing, x) <= since[x]
      <4>1. /\ Count(nothing, <<x, TRUE>>) = 0
            /\ \A k \in 0 .. Recent : Lately(nothing, <<x, TRUE>>, k) = 0
        BY <3>2
      <4>2. Count(nothing, x) = 0 /\ \A k \in 0 .. Recent : Lately(nothing, x, k) = 0
        BY <3>2
      <4>3. config.threshold \in Nat /\ since[x] \in Nat
        BY <1>0
      <4>4. \A k \in 0 .. Recent : Lately(nothing, <<x, TRUE>>, k) <= Lately(nothing, x, k)
        <5>1. 0 <= 0
          OBVIOUS
        <5> QED
          BY <4>1, <4>2, <5>1, Zenon
      <4>5. Count(nothing, <<x, TRUE>>) <= config.threshold
        BY <4>1, <4>3
      <4>6. Count(nothing, x) <= since[x]
        BY <4>2, <4>3
      <4> QED
        BY <4>4, <4>5, <4>6
    <3> QED
      BY <2>1, <2>5, <3>1, <3>3, <3>4 DEF Loops
<1>5. ASSUME UNCHANGED <<config, last, recent, examined, since, clearing>> PROVE Loops'
  BY <1>5 DEF Loops
<1>6. ASSUME ~ClearHistory, ~ClearCharged, ~ClearLast, ~ClearRecent,
             \A w \in Threads, k \in Lags, all \in BOOLEAN : ~CheckCall(w, k, all)
      PROVE  UNCHANGED <<config, last, recent, examined, since, clearing>>
  BY <1>6 DEF Next, LimitRate, NoGuardrail, Leave, Release, Produce, Charge, Tick,
     guardVars, vars
<1> QED
  BY <1>1, <1>2, <1>3, <1>4, <1>5, <1>6

(***************************************************************************)
(* The budget.                                                             *)
(***************************************************************************)
\* A thread moves on, and the bill and the text released change with it.
LEMMA BudgetedMoves ==
    ASSUME TypeOK, Budgeted, NEW w \in Threads, NEW place \in Places,
           slot' = [slot EXCEPT ![w] = place], config' = config,
           place.at = "charging" =>
               /\ config.guardrail /\ config.budgeted
               /\ SumFunction(place.due) <= SumFunction(place.texts),
           config.budgeted => Owed(charged') <= config.budget,
           Covers(charged', released',
                  SumFunction(Paid(slot)) + (PaidBy(place) - PaidBy(slot[w])))
    PROVE  Budgeted'
<1>1. slot \in [Threads -> Places]
  BY TypeIs
<1>2. SumFunction(Paid(slot'))
        = SumFunction(Paid(slot)) + (PaidBy(place) - PaidBy(slot[w]))
  BY <1>1, PaidMoves
<1>3. ASSUME NEW v \in Threads, slot'[v].at = "charging"
      PROVE  /\ config.guardrail /\ config.budgeted
             /\ SumFunction(slot'[v].due) <= SumFunction(slot'[v].texts)
  <2>1. CASE v = w
    <3>1. slot'[v] = place
      BY <1>1, <2>1
    <3> QED
      BY <1>3, <3>1
  <2>2. CASE v # w
    <3>1. slot'[v] = slot[v]
      BY <1>1, <2>2
    <3> QED
      BY <1>3, <3>1 DEF Budgeted
  <2> QED
    BY <2>1, <2>2
<1> QED
  BY <1>2, <1>3 DEF Budgeted

\* Neither before nor after the thread has paid for anything.
LEMMA BudgetedSame ==
    ASSUME TypeOK, Budgeted, NEW w \in Threads, NEW place \in Places,
           slot' = [slot EXCEPT ![w] = place] \/ slot' = slot,
           slot[w].at # "charging", PaidBy(place) = 0,
           place.at = "charging" =>
               /\ config.guardrail /\ config.budgeted
               /\ SumFunction(place.due) <= SumFunction(place.texts),
           UNCHANGED <<config, charged, released>>
    PROVE  Budgeted'
<1>1. CASE slot' = slot
  BY <1>1 DEF Budgeted
<1>2. CASE slot' = [slot EXCEPT ![w] = place]
  <2>1. PaidBy(slot[w]) = 0 /\ SumFunction(Paid(slot)) \in Int
    BY TypeIs, PlaceIs, PaidTyped
  <2> DEFINE paid == SumFunction(Paid(slot))
  <2>2. paid + (PaidBy(place) - PaidBy(slot[w])) = paid
    <3> HIDE DEF paid
    <3>1. \A n \in Int : n + (0 - 0) = n
      OBVIOUS
    <3>2. paid \in Int
      BY <2>1 DEF paid
    <3> QED
      BY <2>1, <3>1, <3>2
  <2>3. Covers(charged', released', paid + (PaidBy(place) - PaidBy(slot[w])))
    <3> HIDE DEF paid
    <3>1. Covers(charged, released, paid)
      BY DEF Budgeted, paid
    <3> QED
      BY <2>2, <3>1
  <2>4. config.budgeted => Owed(charged') <= config.budget
    BY DEF Budgeted
  <2> QED
    BY <1>2, <2>3, <2>4, BudgetedMoves
<1> QED
  BY <1>1, <1>2

LEMMA OwedNothing == Owed(<<>>) = 0
<1>1. <<>> \in Bills /\ Len(<<>>) = 0 /\ 1 .. 0 = {}
  BY EmptySeq DEF Bills
<1>2. Owed(<<>>) = OwedFrom(<<>>, 1)
  BY <1>1, OwedTyped
<1>3. OwedFrom(<<>>, 1) = SumFunctionOnSet(Amounts(<<>>), {})
  BY <1>1 DEF OwedFrom
<1> QED
  BY <1>2, <1>3, SumNone

LEMMA FreeIs == Free \in Places /\ Free.at # "charging" /\ PaidBy(Free) = 0
BY DEF Free, Places, PaidBy

LEMMA BudgetedKept ==
    ASSUME TypeOK, Budgeted, [Next]_vars
    PROVE  Budgeted'
<1>0. /\ config \in Configs /\ config.budget \in Nat /\ config.called \subseteq Signatures
      /\ slot \in [Threads -> Places] /\ charged \in Bills /\ released \in Counts
      /\ SumFunction(Paid(slot)) \in Int
      /\ Covers(charged, released, SumFunction(Paid(slot)))
      /\ config.budgeted => Owed(charged) <= config.budget
  <2>1. config \in Configs
    BY DEF TypeOK
  <2> QED
    BY <2>1, ConfigIs, TypeIs, PaidTyped DEF Budgeted
<1>1. ASSUME NEW w \in Threads, NEW x \in config.called, NEW k \in Lags, LimitRate(w, x, k)
      PROVE  Budgeted'
  <2> DEFINE place == [at |-> "limited", sig |-> x]
  <2>1. place \in Places /\ place.at # "charging" /\ PaidBy(place) = 0
    BY <1>0 DEF Places, Steps, PaidBy
  <2>2. /\ slot' = [slot EXCEPT ![w] = place] \/ slot' = slot
        /\ UNCHANGED <<config, charged, released>>
        /\ slot[w].at # "charging"
    BY <1>1, FreeIs DEF LimitRate, Moves, budgetVars
  <2> HIDE DEF place
  <2> QED
    BY <2>1, <2>2, BudgetedSame
<1>2. ASSUME NEW w \in Threads, NEW k \in Lags, NEW all \in BOOLEAN, CheckCall(w, k, all)
      PROVE  Budgeted'
  <2> DEFINE place == [slot[w] EXCEPT !.at = "checked"]
  <2>1. place \in Places /\ place.at # "charging" /\ PaidBy(place) = 0
    <3>1. place \in Steps /\ place.at = "checked"
      BY <1>2, StepIs DEF CheckCall
    <3> HIDE DEF place
    <3> QED
      BY <3>1 DEF Places, PaidBy
  <2>2. /\ \/ slot' = [slot EXCEPT ![w] = place]
           \/ slot' = [slot EXCEPT ![w] = Free]
        /\ UNCHANGED <<config, charged, released>>
        /\ slot[w].at # "charging"
    BY <1>2 DEF CheckCall, Moves, budgetVars
  <2> HIDE DEF place
  <2> QED
    BY <2>1, <2>2, FreeIs, BudgetedSame
<1>3. ASSUME NEW w \in Threads, NoGuardrail(w) PROVE Budgeted'
  <2> DEFINE place == [slot[w] EXCEPT !.at = "checked"]
  <2>1. place \in Places /\ place.at # "charging" /\ PaidBy(place) = 0
    <3>1. place \in Steps /\ place.at = "checked"
      BY <1>3, StepIs DEF NoGuardrail
    <3> HIDE DEF place
    <3> QED
      BY <3>1 DEF Places, PaidBy
  <2>2. /\ slot' = [slot EXCEPT ![w] = place]
        /\ UNCHANGED <<config, charged, released>>
        /\ slot[w].at # "charging"
    BY <1>3 DEF NoGuardrail, Moves, budgetVars
  <2> HIDE DEF place
  <2> QED
    BY <2>1, <2>2, BudgetedSame
<1>4. ASSUME NEW w \in Threads, Leave(w) PROVE Budgeted'
  <2>1. /\ slot' = [slot EXCEPT ![w] = Free]
        /\ UNCHANGED <<config, charged, released>>
        /\ slot[w].at # "charging"
    BY <1>4 DEF Leave, Moves, budgetVars
  <2> QED
    BY <2>1, FreeIs, BudgetedSame
<1>5. ASSUME NEW w \in Threads, NEW output \in Outputs, Produce(w, output) PROVE Budgeted'
  <2> DEFINE place == [at |-> "charging", texts |-> output, due |-> output]
  <2>1. output \in Seq(Nat)
    BY LimitsAssumption
  <2>2. SumFunction(output) \in Nat
    BY <2>1, OneTextLess
  <2>3. /\ place \in Places /\ PaidBy(place) = 0
        /\ SumFunction(place.due) <= SumFunction(place.texts)
    <3>1. PaidBy(place) = SumFunction(output) - SumFunction(output)
      BY DEF PaidBy
    <3> QED
      BY <2>1, <2>2, <3>1 DEF Places, Charges
  <2>4. /\ UNCHANGED <<config, charged, released>>
        /\ slot[w].at # "charging"
        /\ \/ slot' = [slot EXCEPT ![w] = Free]
           \/ slot' = [slot EXCEPT ![w] = place] /\ config.guardrail /\ config.budgeted
    BY <1>5 DEF Produce, Moves, budgetVars
  <2> HIDE DEF place
  <2> QED
    BY <2>3, <2>4, FreeIs, BudgetedSame
<1>6. ASSUME NEW w \in Threads, NEW k \in Lags, Charge(w, k) PROVE Budgeted'
  <2> DEFINE bill == Billed(k)
             n == Head(slot[w].due)
             place == [slot[w] EXCEPT !.due = Tail(@)]
             paid == SumFunction(Paid(slot))
  <2>1. /\ slot[w].at = "charging" /\ slot[w].due # <<>>
        /\ config.guardrail /\ config.budgeted
        /\ SumFunction(slot[w].due) <= SumFunction(slot[w].texts)
        /\ config' = config /\ released' = released
    BY <1>6 DEF Charge, Budgeted
  <2>2. /\ slot[w] \in Charges /\ slot[w].texts \in Seq(Nat) /\ slot[w].due \in Seq(Nat)
        /\ PaidBy(slot[w]) = SumFunction(slot[w].texts) - SumFunction(slot[w].due)
    BY <1>0, <2>1, PlaceIs
  <2>3. /\ n \in Nat /\ Tail(slot[w].due) \in Seq(Nat)
        /\ SumFunction(slot[w].due) = n + SumFunction(Tail(slot[w].due))
        /\ SumFunction(Tail(slot[w].due)) \in Nat /\ SumFunction(slot[w].texts) \in Nat
    BY <2>1, <2>2, OneTextLess
  <2>4. PICK d \in 1 .. Len(charged) + 1 :
           Rest(charged, d, bill) /\ \A i \in 1 .. d - 1 : charged[i][1] >= Hour
    BY BilledIs
  <2>5. bill \in Bills
    BY BilledIs
  <2>6. Covers(bill, released, paid) /\ paid \in Int
    <3> HIDE DEF bill, paid
    <3>1. paid \in Int /\ Covers(charged, released, paid)
      BY <1>0 DEF paid
    <3> QED
      BY <1>0, <2>4, <2>5, <3>1, CoversTheRest
  <2>7. CASE Affordable(bill, n)
    <3>1. /\ charged' = Append(bill, <<k, n>>)
          /\ slot' = [slot EXCEPT ![w] = place]
      BY <1>6, <2>7 DEF Charge, Moves
    <3>2. /\ place \in Charges /\ place.texts = slot[w].texts
          /\ place.due = Tail(slot[w].due) /\ place.at = "charging"
      BY <2>1, <2>2, <2>3 DEF Charges
    <3> HIDE DEF place, bill, n, paid
    <3>3. place \in Places
      BY <3>2 DEF Places
    <3>4. PaidBy(place) = SumFunction(slot[w].texts) - SumFunction(Tail(slot[w].due))
      BY <3>2 DEF PaidBy
    <3>5. paid + (PaidBy(place) - PaidBy(slot[w])) = paid + n
      BY <2>2, <2>3, <2>6, <3>4
    <3>6. Covers(charged', released', paid + n)
      BY <1>0, <2>1, <2>3, <2>5, <2>6, <3>1, CoversOneMore
    <3>7. Owed(charged') <= config.budget
      <4> DEFINE longer == Append(bill, <<k, n>>)
      <4>1. k \in Ages /\ 1 \in 1 .. Len(bill) + 1
        BY <2>5, AgesFinite, BillIs
      <4>2. OwedFrom(longer, 1) = OwedFrom(bill, 1) + n
        BY <2>3, <2>5, <4>1, OwedAppended
      <4>3. longer \in Bills
        <5>1. <<k, n>> \in Ages \X Nat
          BY <2>3, <4>1
        <5> QED
          BY <2>5, <5>1, AppendProperties DEF Bills
      <4> HIDE DEF longer
      <4>4. Owed(longer) = Owed(bill) + n
        BY <2>5, <4>2, <4>3, OwedTyped
      <4> QED
        BY <2>7, <3>1, <4>4 DEF Affordable, longer
    <3>8. SumFunction(place.due) <= SumFunction(place.texts)
      BY <2>1, <2>3, <3>2
    <3> QED
      BY <2>1, <3>1, <3>3, <3>5, <3>6, <3>7, <3>8, BudgetedMoves DEF paid
  <2>8. CASE ~Affordable(bill, n)
    <3>1. charged' = bill /\ slot' = [slot EXCEPT ![w] = Free]
      BY <1>6, <2>8 DEF Charge, Moves
    <3> HIDE DEF bill, n, paid
    <3>2. /\ paid + (PaidBy(Free) - PaidBy(slot[w])) \in Int
          /\ paid + (PaidBy(Free) - PaidBy(slot[w])) <= paid
      BY <2>1, <2>2, <2>3, <2>6, FreeIs
    <3>3. Covers(charged', released', paid + (PaidBy(Free) - PaidBy(slot[w])))
      BY <1>0, <2>1, <2>5, <2>6, <3>1, <3>2, CoversLess
    <3>4. Owed(charged') <= config.budget
      <4>1. Len(bill) \in Nat /\ Len(charged) \in Nat /\ 1 \in 1 .. Len(bill) + 1
            /\ 1 + d - 1 = d
        BY <1>0, <2>5, BillIs
      <4>2. OwedFrom(bill, 1) = OwedFrom(charged, 1 + d - 1)
        BY <1>0, <2>4, <2>5, <4>1, OwedDropped
      <4>3. /\ OwedFrom(charged, d) <= OwedFrom(charged, 1)
            /\ OwedFrom(charged, d) \in Nat
        BY <1>0, OwedTyped
      <4>4. Owed(bill) = OwedFrom(bill, 1) /\ Owed(charged) = OwedFrom(charged, 1)
        BY <1>0, <2>5, OwedTyped
      <4>5. OwedFrom(charged, 1) \in Nat
        <5>1. 1 \in 1 .. Len(charged) + 1
          BY <4>1
        <5> QED
          BY <1>0, <5>1, OwedTyped
      <4>6. Owed(charged) <= config.budget /\ Owed(bill) <= Owed(charged)
            /\ Owed(bill) \in Nat /\ Owed(charged) \in Nat
        BY <1>0, <2>1, <4>1, <4>2, <4>3, <4>4, <4>5
      <4> QED
        BY <1>0, <3>1, <4>6
    <3> QED
      BY <2>1, <3>1, <3>3, <3>4, FreeIs, BudgetedMoves DEF paid
  <2> QED
    BY <2>7, <2>8
<1>7. ASSUME NEW w \in Threads, Release(w) PROVE Budgeted'
  <2> DEFINE n == SumFunction(slot[w].texts)
             paid == SumFunction(Paid(slot))
  <2>1. /\ slot[w].at = "charging" /\ slot[w].due = <<>>
        /\ released' = [released EXCEPT ![0] = @ + n]
        /\ slot' = [slot EXCEPT ![w] = Free]
        /\ config' = config /\ charged' = charged
    BY <1>7 DEF Release, Moves
  <2>2. n \in Nat /\ PaidBy(slot[w]) = n - 0
    <3>1. /\ slot[w].texts \in Seq(Nat) /\ slot[w].due \in Seq(Nat)
          /\ PaidBy(slot[w]) = n - SumFunction(slot[w].due)
      BY <1>0, <2>1, PlaceIs
    <3>2. n \in Nat /\ SumFunction(slot[w].due) = 0
      BY <2>1, <3>1, OneTextLess
    <3> QED
      BY <3>1, <3>2
  <2> HIDE DEF n, paid
  <2>3. paid \in Int /\ Covers(charged, released, paid)
    BY <1>0 DEF paid
  <2>4. paid + (PaidBy(Free) - PaidBy(slot[w])) = paid - n
    BY <2>2, <2>3, FreeIs
  <2>5. Covers(charged, [released EXCEPT ![0] = @ + n], paid - n)
    BY <1>0, <2>2, <2>3, CoversReleased
  <2> QED
    BY <1>0, <2>1, <2>4, <2>5, FreeIs, BudgetedMoves DEF paid
<1>8. ASSUME ClearCharged PROVE Budgeted'
  <2>1. /\ charged' = <<>> /\ released' = None /\ config' = config
        /\ slot' = [w \in Threads |-> IF slot[w].at = "charging"
                                      THEN [slot[w] EXCEPT !.texts = slot[w].due]
                                      ELSE slot[w]]
    BY <1>8 DEF ClearCharged
  <2>2. ASSUME NEW w \in Threads
        PROVE  /\ PaidBy(slot'[w]) = 0
               /\ slot'[w].at = "charging" =>
                     /\ config.guardrail /\ config.budgeted
                     /\ SumFunction(slot'[w].due) <= SumFunction(slot'[w].texts)
    <3>1. CASE slot[w].at = "charging"
      <4>1. slot[w] \in Charges /\ slot[w].due \in Seq(Nat)
        BY <1>0, <3>1, PlaceIs
      <4>2. /\ slot'[w].at = "charging" /\ slot'[w].due = slot[w].due
            /\ slot'[w].texts = slot[w].due
        BY <2>1, <3>1, <4>1 DEF Charges
      <4>3. SumFunction(slot[w].due) \in Nat
        BY <4>1, OneTextLess
      <4>4. PaidBy(slot'[w]) = SumFunction(slot[w].due) - SumFunction(slot[w].due)
        BY <4>2 DEF PaidBy
      <4> QED
        BY <3>1, <4>2, <4>3, <4>4 DEF Budgeted
    <3>2. CASE slot[w].at # "charging"
      <4>1. slot'[w] = slot[w]
        BY <2>1, <3>2
      <4> QED
        BY <3>2, <4>1 DEF PaidBy
    <3> QED
      BY <3>1, <3>2
  <2>3. SumFunction(Paid(slot')) = 0
    <3>1. TypeOK'
      BY TypeKept
    <3>2. slot' \in [Threads -> Places]
      BY <3>1 DEF TypeOK, Places
    <3> QED
      BY <2>2, <3>2, PaidTyped
  <2>4. Owed(<<>>) = 0
    BY OwedNothing
  <2>5. Owed(charged') <= config.budget
    BY <1>0, <2>1, <2>4
  <2>6. Covers(charged', released', SumFunction(Paid(slot')))
    BY <2>1, <2>3, CoversNothing
  <2> QED
    BY <2>1, <2>2, <2>5, <2>6 DEF Budgeted
<1>9. ASSUME Tick PROVE Budgeted'
  <2>1. /\ \A w \in Threads : slot[w].at # "charging"
        /\ charged' = [i \in DOMAIN charged |-> <<Age(charged[i][1]), charged[i][2]>>]
        /\ released' = Aged(released)
        /\ config' = config /\ slot' = slot
    BY <1>9 DEF Tick
  <2>2. SumFunction(Paid(slot)) = 0
    <3>1. \A w \in Threads : PaidBy(slot[w]) = 0
      BY <1>0, <2>1, PlaceIs
    <3> QED
      BY <1>0, <3>1, PaidTyped
  <2>3. Covers(charged, released, 0)
    BY <1>0, <2>2
  <2>4. Covers(charged', released', 0) /\ Owed(charged') = Owed(charged)
    BY <1>0, <2>1, <2>3, CoversAged
  <2> QED
    BY <1>0, <2>1, <2>2, <2>4 DEF Budgeted
<1>10. ASSUME UNCHANGED <<config, slot, charged, released>> PROVE Budgeted'
  BY <1>10 DEF Budgeted
<1>11. ASSUME ClearHistory \/ ClearLast \/ ClearRecent \/ UNCHANGED vars
       PROVE  UNCHANGED <<config, slot, charged, released>>
  BY <1>11 DEF ClearHistory, ClearLast, ClearRecent, budgetVars, vars
<1> QED
  BY <1>1, <1>2, <1>3, <1>4, <1>5, <1>6, <1>7, <1>8, <1>9, <1>10, <1>11 DEF Next

(***************************************************************************)
(* The theorems.                                                           *)
(***************************************************************************)
LEMMA Initially == Init => IInv
<1> SUFFICES ASSUME Init PROVE IInv
  OBVIOUS
<1>0. /\ config \in Configs /\ config.called \subseteq Signatures /\ config.calls \in Nat
      /\ config.policyRate \in Nat /\ config.rate \in Nat /\ config.threshold \in Nat
      /\ config.budget \in Nat
      /\ Recent \in Nat \ {0} /\ Minute \in Nat /\ Skew \in Nat
  <2>1. config \in Configs
    BY DEF Init
  <2> QED
    BY <2>1, ConfigIs, Bounds
<1>1. /\ None \in Counts /\ Len(<<>>) = 0 /\ SumFunction(None) = 0
      /\ \A w : Within(None, w) = 0
  BY WithinNone, EmptySeq
<1>2. TypeOK
  <2>1. \A S : <<>> \in Seq(S)
    BY EmptySeq
  <2>2. /\ hits \in [Tools -> Seq(Ages)] /\ \A t \in Tools : Len(hits[t]) <= config.policyRate
    BY <1>0, <1>1, <2>1 DEF Init
  <2>3. slot \in [Threads -> {Free} \cup Steps \cup Charges] /\ made \in 0 .. config.calls
    BY <1>0 DEF Init
  <2>4. /\ history \in [Tools -> [Ages -> Nat]] /\ passed \in [Tools -> [Ages -> Nat]]
        /\ admitted \in [Tools -> [Ages -> Nat]] /\ released \in [Ages -> Nat]
        /\ since \in [Signatures -> Nat]
    BY <1>1 DEF Init, Counts
  <2>5. /\ recent \in Seq(Signatures) /\ Len(recent) <= Recent
        /\ charged \in Seq(Ages \X Nat) /\ examined \in Seq(Signatures \X BOOLEAN)
        /\ last = <<>> /\ clearing \in 0 .. 3
    BY <1>0, <1>1, <2>1 DEF Init
  <2> QED
    BY <1>0, <2>2, <2>3, <2>4, <2>5 DEF TypeOK
<1>3. Rated
  <2>1. \A t \in Tools : history[t] = None /\ admitted[t] = None
    BY DEF Init
  <2>2. SumFunction(None) <= config.rate
        /\ \A v \in 1 .. Minute - Skew : Within(None, v) <= Within(None, v + Skew)
    BY <1>0, <1>1
  <2> QED
    BY <2>1, <2>2 DEF Rated
<1>4. Queues
  <2>1. \A t \in Tools : hits[t] = <<>> /\ passed[t] = None
    BY DEF Init
  <2> QED
    BY <2>1, TracksNothing DEF Queues
<1>5. Loops
  <2> DEFINE nothing == <<>>
  <2>1. /\ recent = nothing /\ examined = nothing /\ last = <<>> /\ Len(nothing) <= Recent
        /\ \A x \in Signatures : since[x] = 0
    BY <1>0, <1>1 DEF Init
  <2>2. \A x : Count(nothing, x) = 0 /\ \A k \in 0 .. Recent : Lately(nothing, x, k) = 0
    <3>1. ASSUME NEW x
          PROVE  Count(nothing, x) = 0 /\ \A k \in 0 .. Recent : Lately(nothing, x, k) = 0
      <4>1. Count(nothing, x) = 0 /\ \A k \in Nat : Lately(nothing, x, k) = 0
        BY CountsNothing
      <4>2. \A k \in 0 .. Recent : k \in Nat
        BY <1>0
      <4> QED
        BY <4>1, <4>2
    <3> QED
      BY <3>1
  <2> HIDE DEF nothing
  <2>3. ASSUME NEW x \in Signatures
        PROVE  /\ \A k \in 0 .. Recent :
                     Lately(nothing, <<x, TRUE>>, k) <= Lately(nothing, x, k)
               /\ Count(nothing, <<x, TRUE>>) <= config.threshold
               /\ Count(nothing, x) <= since[x]
    <3>1. /\ Count(nothing, <<x, TRUE>>) = 0 /\ Count(nothing, x) = 0
          /\ \A k \in 0 .. Recent : Lately(nothing, <<x, TRUE>>, k) = 0
          /\ \A k \in 0 .. Recent : Lately(nothing, x, k) = 0
      BY <2>2
    <3>2. \A k \in 0 .. Recent : Lately(nothing, <<x, TRUE>>, k) <= Lately(nothing, x, k)
      <4>1. 0 <= 0
        OBVIOUS
      <4> QED
        BY <3>1, <4>1, Zenon
    <3>3. Count(nothing, <<x, TRUE>>) <= config.threshold
      BY <1>0, <3>1
    <3>4. Count(nothing, x) <= since[x]
      BY <2>1, <3>1
    <3> QED
      BY <3>2, <3>3, <3>4
  <2> QED
    BY <2>1, <2>3 DEF Loops
<1>6. Budgeted
  <2>1. /\ charged = <<>> /\ released = None /\ slot = [w \in Threads |-> Free]
    BY DEF Init
  <2>2. SumFunction(Paid(slot)) = 0
    <3>1. slot \in [Threads -> Places] /\ \A w \in Threads : PaidBy(slot[w]) = 0
      BY <2>1, FreeIs
    <3> QED
      BY <3>1, PaidTyped
  <2>3. Owed(<<>>) = 0
    BY OwedNothing
  <2>4. Covers(charged, released, SumFunction(Paid(slot)))
    BY <2>1, <2>2, CoversNothing
  <2> QED
    BY <1>0, <2>1, <2>3, <2>4, FreeIs DEF Budgeted
<1> QED
  BY <1>2, <1>3, <1>4, <1>5, <1>6 DEF IInv

LEMMA Invariance == Spec => []IInv
<1>1. IInv /\ [Next]_vars => IInv'
  BY TypeKept, RatedKept, QueuesKept, LoopsKept, BudgetedKept DEF IInv
<1> QED
  BY <1>1, Initially, PTL DEF Spec

\* The engine's queue never holds more than it let pass.
LEMMA EnoughPassed ==
    ASSUME TypeOK, Queues, NEW t \in Tools, NEW k \in Lags,
           config.engine /\ config.enforcing
    PROVE  Len(Queued(t, k)) <= Within(passed[t], Minute + Skew)
<1> DEFINE q == hits[t]
           r == Queued(t, k)
           calls == passed[t]
<1>0. /\ config \in Configs /\ config.policyRate \in Nat
      /\ Minute \in Nat /\ Skew \in Nat /\ Oldest \in Nat /\ Minute + Skew + 1 <= Oldest
      /\ q \in Seq(Ages) /\ Len(q) \in Nat /\ Len(q) <= config.policyRate
      /\ calls \in Counts
  <2>1. config \in Configs /\ Len(q) <= config.policyRate
    BY DEF TypeOK
  <2> QED
    BY <2>1, ConfigIs, TypeIs, Bounds
<1>1. /\ Len(r) \in Nat /\ Len(r) <= Len(q)
      /\ \E m \in 1 .. Len(q) + 1 : Rest(q, m, r) /\ (m <= Len(q) => q[m] < Minute + Skew)
  BY QueuedIs
<1>2. \A v : Within(calls, v) \in Nat
  BY <1>0, WithinTyped
<1>3. config.policyRate > 0 => Tracks(q, calls)
  BY DEF Queues, Limited
<1>4. \A i \in 1 .. Len(q) : q[i] \in Nat
  BY <1>0, ElementOfSeq, AgesFinite
<1> HIDE DEF q, r, calls
<1>5. CASE Len(r) = 0
  BY <1>0, <1>2, <1>5 DEF r, calls
<1>6. CASE Len(r) > 0
  <2>1. PICK m \in 1 .. Len(q) + 1 : Rest(q, m, r) /\ (m <= Len(q) => q[m] < Minute + Skew)
    BY <1>1
  <2>2. m \in 1 .. Len(q) /\ Len(r) = Len(q) - m + 1
    <3>1. Len(r) = Len(q) - m + 1 /\ Len(q) \in Nat /\ m \in 1 .. Len(q) + 1 /\ Len(r) \in Nat
      BY <1>0, <1>1, <2>1 DEF Rest
    <3>2. Len(q) - m + 1 > 0
      BY <1>6, <3>1
    <3>3. m \in 1 .. Len(q)
      BY <3>1, <3>2
    <3> QED
      BY <3>1, <3>3
  <2>3. q[m] \in Nat /\ q[m] < Minute + Skew /\ q[m] < Oldest /\ config.policyRate > 0
    <3>1. m <= Len(q) /\ 0 < Len(q)
      BY <1>0, <2>2
    <3>2. q[m] < Minute + Skew /\ q[m] \in Nat
      BY <1>4, <2>1, <2>2, <3>1
    <3> QED
      BY <1>0, <3>1, <3>2
  <2>4. Len(q) - m + 1 <= Within(calls, q[m] + 1)
    BY <1>3, <2>2, <2>3 DEF Tracks
  <2>5. Within(calls, q[m] + 1) <= Within(calls, Minute + Skew)
    <3>1. q[m] + 1 \in Int /\ Minute + Skew \in Int /\ q[m] + 1 <= Minute + Skew
      BY <1>0, <2>3
    <3> QED
      BY <1>0, <3>1, WithinOrdered
  <2>6. Len(r) <= Within(calls, Minute + Skew)
    BY <1>0, <1>2, <2>2, <2>4, <2>5
  <2> QED
    BY <2>6 DEF r, calls
<1> QED
  BY <1>1, <1>5, <1>6

\* In every window of a minute, less the lag, a tool is called no more often
\* than each rate limit allows, and the engine refuses only what exceeds it.
THEOREM RatesAreKept == Spec => []RatesHold
<1>1. ASSUME IInv PROVE RatesHold
  <2>0. /\ TypeOK /\ Rated /\ Queues /\ config \in Configs
        /\ config.policyRate \in Nat /\ config.rate \in Nat
        /\ Minute \in Nat /\ Skew \in Nat /\ Oldest \in Nat /\ Minute + Skew + 1 <= Oldest
    <3>1. TypeOK /\ config \in Configs
      BY <1>1 DEF IInv, TypeOK
    <3> QED
      BY <1>1, <3>1, ConfigIs, Bounds DEF IInv
  <2>1. ASSUME NEW t \in Tools
        PROVE  /\ passed[t] \in Counts /\ admitted[t] \in Counts /\ history[t] \in Counts
               /\ hits[t] \in Seq(Ages) /\ Len(hits[t]) \in Nat
               /\ Len(hits[t]) <= config.policyRate
               /\ \A i \in 1 .. Len(hits[t]) : hits[t][i] \in Nat
    <3>1. /\ passed[t] \in Counts /\ admitted[t] \in Counts /\ history[t] \in Counts
          /\ hits[t] \in Seq(Ages) /\ Len(hits[t]) \in Nat
      BY <2>0, TypeIs
    <3>2. \A i \in 1 .. Len(hits[t]) : hits[t][i] \in Nat
      BY <3>1, ElementOfSeq, AgesFinite
    <3> QED
      BY <2>0, <3>1, <3>2 DEF TypeOK
  <2>2. CASE Minute - Skew < 1
    <3>1. {a \in Ages : a < Minute - Skew} = {}
      <4>1. \A a \in Ages : a \in Nat
        BY AgesFinite
      <4> QED
        BY <2>0, <2>2, <4>1
    <3>2. \A t \in Tools : Within(passed[t], Minute - Skew) = 0
                           /\ Within(admitted[t], Minute - Skew) = 0
      BY <2>1, <3>1, WithinTyped
    <3>3. \A t \in Tools : /\ Within(passed[t], Minute - Skew) <= config.policyRate
                           /\ Within(admitted[t], Minute - Skew) <= config.rate
      BY <2>0, <3>2
    <3> QED
      BY <2>0, <3>3, EnoughPassed DEF RatesHold
  <2>3. CASE Minute - Skew >= 1
    <3> DEFINE w == Minute - Skew
    <3>1. w \in 1 .. Minute - Skew /\ w + Skew = Minute
      BY <2>0, <2>3
    <3> HIDE DEF w
    <3>2. ASSUME NEW t \in Tools, Limited PROVE Within(passed[t], w) <= config.policyRate
      <4>1. Tracks(hits[t], passed[t])
        BY <2>0, <3>2 DEF Queues
      <4>2. 1 \in 1 .. Len(hits[t]) + 1 /\ 1 .. 1 - 1 = {}
        BY <2>1
      <4>3. Within(passed[t], w) <= Len(hits[t]) - 1 + 1
        BY <3>1, <4>1, <4>2 DEF Tracks
      <4>4. Within(passed[t], w) \in Nat
        BY <2>1, WithinTyped
      <4> QED
        BY <2>0, <2>1, <4>3, <4>4
    <3>3. ASSUME NEW t \in Tools PROVE Within(admitted[t], w) <= config.rate
      <4>1. Within(admitted[t], w) <= Within(history[t], w + Skew)
            /\ SumFunction(history[t]) <= config.rate
        BY <2>0, <3>1 DEF Rated
      <4>2. /\ Within(history[t], w + Skew) <= SumFunction(history[t])
            /\ Within(history[t], w + Skew) \in Nat /\ SumFunction(history[t]) \in Nat
        BY <2>1, WithinTyped
      <4>3. Within(admitted[t], w) \in Nat
        BY <2>1, WithinTyped
      <4> QED
        BY <2>0, <4>1, <4>2, <4>3
    <3> QED
      BY <2>0, <3>2, <3>3, EnoughPassed DEF RatesHold, Limited, w
  <2> QED
    BY <2>0, <2>2, <2>3
<1> QED
  BY <1>1, Invariance, PTL

\* Among the latest calls the loop breaker let no more of a signature pass
\* than its threshold, and it stops only what it saw that often.
THEOREM LoopsAreBroken == Spec => []LoopsBreak
<1>1. ASSUME IInv PROVE LoopsBreak
  <2>1. Loops /\ \A x \in Signatures : since[x] \in Nat
    BY <1>1 DEF IInv, TypeOK
  <2>2. ASSUME NEW x \in Signatures PROVE Streak(x) - 1 <= since[x]
    <3>1. CASE last # <<>> /\ last[1] = x
      <4>1. Streak(x) = last[2] + 1 /\ last[2] <= since[x]
        BY <2>1, <3>1 DEF Streak, Loops
      <4>2. last[2] \in 1 .. config.threshold /\ config.threshold \in Nat
        <5>1. config \in Configs /\ last[2] \in 1 .. config.threshold
          BY <1>1, <3>1 DEF IInv, TypeOK
        <5> QED
          BY <5>1, ConfigIs
      <4> QED
        BY <4>1, <4>2
    <3>2. CASE ~(last # <<>> /\ last[1] = x)
      <4>1. Streak(x) = 1
        BY <3>2 DEF Streak
      <4> QED
        BY <2>1, <4>1
    <3> QED
      BY <3>1, <3>2
  <2> QED
    BY <2>1, <2>2 DEF LoopsBreak, Loops
<1> QED
  BY <1>1, Invariance, PTL

\* In every window of an hour, less the lag, the text released fits the
\* budget, though results are charged text by text and at the same time.
THEOREM BudgetIsKept == Spec => []BudgetHolds
<1>1. ASSUME IInv PROVE BudgetHolds
  <2> SUFFICES ASSUME config.budgeted
               PROVE  Within(released, Hour - Skew) <= config.budget
    BY DEF BudgetHolds
  <2>0. /\ TypeOK /\ Budgeted /\ config \in Configs /\ config.budget \in Nat
        /\ Hour \in Nat /\ Skew \in Nat
        /\ released \in Counts /\ charged \in Bills /\ slot \in [Threads -> Places]
    <3>1. TypeOK /\ config \in Configs
      BY <1>1 DEF IInv, TypeOK
    <3> QED
      BY <1>1, <3>1, ConfigIs, TypeIs, Bounds DEF IInv
  <2>1. CASE Hour - Skew < 1
    <3>1. {a \in Ages : a < Hour - Skew} = {}
      <4>1. \A a \in Ages : a \in Nat
        BY AgesFinite
      <4> QED
        BY <2>0, <2>1, <4>1
    <3>2. Within(released, Hour - Skew) = 0
      BY <2>0, <3>1, WithinTyped
    <3> QED
      BY <2>0, <3>2
  <2>2. CASE Hour - Skew >= 1
    <3> DEFINE w == Hour - Skew
               paid == SumFunction(Paid(slot))
    <3>1. w \in 1 .. Hour - Skew /\ 1 \in 1 .. Len(charged) + 1 /\ 1 .. 1 - 1 = {}
      BY <2>0, <2>2, BillIs
    <3>2. paid \in Nat
      <4>1. ASSUME NEW v \in Threads PROVE PaidBy(slot[v]) \in Nat
        <5>1. CASE slot[v].at = "charging"
          <6>1. /\ PaidBy(slot[v]) = SumFunction(slot[v].texts) - SumFunction(slot[v].due)
                /\ slot[v].texts \in Seq(Nat) /\ slot[v].due \in Seq(Nat)
            BY <2>0, <5>1, PlaceIs
          <6>2. SumFunction(slot[v].texts) \in Nat /\ SumFunction(slot[v].due) \in Nat
            BY <6>1, OneTextLess
          <6>3. SumFunction(slot[v].due) <= SumFunction(slot[v].texts)
            BY <2>0, <5>1 DEF Budgeted
          <6> QED
            BY <6>1, <6>2, <6>3
        <5>2. CASE slot[v].at # "charging"
          BY <2>0, <5>2, PlaceIs
        <5> QED
          BY <5>1, <5>2
      <4> QED
        BY <2>0, <4>1, PaidTyped
    <3>3. Covers(charged, released, paid) /\ Owed(charged) <= config.budget
      BY <2>0 DEF Budgeted
    <3> HIDE DEF w, paid
    <3>4. Within(released, w) + paid <= OwedFrom(charged, 1)
      BY <3>1, <3>3 DEF Covers
    <3>5. /\ Owed(charged) = OwedFrom(charged, 1) /\ OwedFrom(charged, 1) \in Nat
          /\ Within(released, w) \in Nat
      BY <2>0, <3>1, OwedTyped, WithinTyped
    <3>6. Within(released, w) <= config.budget
      BY <2>0, <3>2, <3>3, <3>4, <3>5
    <3> QED
      BY <3>6 DEF w
  <2> QED
    BY <2>0, <2>1, <2>2
<1> QED
  BY <1>1, Invariance, PTL

-----------------------------------------------------------------------------
(***************************************************************************)
(* Glob.  What a pattern means is the set of places (of value and pattern) *)
(* from where the rest fits the rest: a recursive function, which has to   *)
(* be shown to exist first.  The loops find nothing else, for from where   *)
(* they are, and from where they could go back to, the rest fits only if   *)
(* it does from the start.  And they miss nothing: what is between the     *)
(* last wild card and here could begin further on, but then ends further   *)
(* on too, so that no earlier wild card has to take more.                  *)
(***************************************************************************)

\* The places of a value and a pattern.
PlacesOf(v, p) == (1 .. Len(v) + 1) \X (1 .. Len(p) + 1)

\* m is the function that Means defines.
IsMeaning(m, v, p, wild, one) ==
    m = [at \in PlacesOf(v, p) |->
            IF at[2] > Len(p) THEN at[1] > Len(v)
            ELSE IF p[at[2]] = wild
                 THEN m[<<at[1], at[2] + 1>>] \/ (at[1] <= Len(v) /\ m[<<at[1] + 1, at[2]>>])
                 ELSE at[1] <= Len(v) /\ p[at[2]] \in {v[at[1]], one} /\ m[<<at[1] + 1, at[2] + 1>>]]

MeaningOf(v, p, wild, one) == CHOOSE m : IsMeaning(m, v, p, wild, one)

\* The places from which the rest of the pattern means the rest of the value.
Fits(v, p, wild, one) == {at \in PlacesOf(v, p) : MeaningOf(v, p, wild, one)[at]}

\* Means asks about the first place of both.
LEMMA MeansFits ==
    ASSUME NEW v, NEW p, NEW wild, NEW one, Len(v) \in Nat, Len(p) \in Nat
    PROVE  Means(v, p, wild, one) <=> <<1, 1>> \in Fits(v, p, wild, one)
<1>1. Means(v, p, wild, one) <=> MeaningOf(v, p, wild, one)[<<1, 1>>]
  BY DEF Means, MeaningOf, IsMeaning, PlacesOf
<1>2. <<1, 1>> \in PlacesOf(v, p)
  BY DEF PlacesOf
<1> QED
  BY <1>1, <1>2 DEF Fits

\* The function exists: the row of a place in the pattern is made from the
\* row of the next.
LEMMA MeaningExists ==
    ASSUME NEW v, NEW p, NEW wild, NEW one, Len(v) \in Nat, Len(p) \in Nat
    PROVE  \E m : IsMeaning(m, v, p, wild, one)
<1> DEFINE n == Len(p)
           D == SUBSET (1 .. Len(v) + 1)
           Row(j, R) ==
               IF p[j] = wild THEN {i \in 1 .. Len(v) + 1 : \E k \in R : i <= k}
               ELSE {i \in 1 .. Len(v) : p[j] \in {v[i], one} /\ i + 1 \in R}
           step == [k \in 1 .. n |-> [R \in D |-> Row(n + 1 - k, R)]]
           base == {Len(v) + 1}
<1>1. base \in D
  OBVIOUS
<1>2. ASSUME NEW k \in 1 .. n, NEW R \in D PROVE step[k][R] \in D /\ step[k][R] = Row(n + 1 - k, R)
  OBVIOUS
<1>3. PICK w : GoesOn(w, n, D, base, step)
  <2> HIDE DEF step, D, base, Row
  <2> QED
    BY <1>1, <1>2, Stepping
<1>4. \A k \in 0 .. n : w[k] \in D
  BY <1>3 DEF GoesOn
<1>5. w[0] = base
  BY <1>3 DEF GoesOn
<1>6. ASSUME NEW k \in 1 .. n PROVE w[k] = Row(n + 1 - k, w[k - 1])
  <2>1. w[k] = step[k][w[k - 1]]
    BY <1>3 DEF GoesOn
  <2>2. w[k - 1] \in D
    BY <1>4
  <2> QED
    BY <1>2, <2>1, <2>2
<1> DEFINE m == [at \in PlacesOf(v, p) |-> at[1] \in w[n + 1 - at[2]]]
<1> HIDE DEF step
<1>7. ASSUME NEW at \in PlacesOf(v, p)
      PROVE  m[at] <=> IF at[2] > Len(p) THEN at[1] > Len(v)
                     ELSE IF p[at[2]] = wild
                          THEN m[<<at[1], at[2] + 1>>] \/ (at[1] <= Len(v) /\ m[<<at[1] + 1, at[2]>>])
                          ELSE at[1] <= Len(v) /\ p[at[2]] \in {v[at[1]], one} /\ m[<<at[1] + 1, at[2] + 1>>]
  <2>1. PICK i \in 1 .. Len(v) + 1, j \in 1 .. n + 1 : at = <<i, j>>
    BY DEF PlacesOf
  <2>2. \A a \in 1 .. Len(v) + 1, b \in 1 .. n + 1 : m[<<a, b>>] <=> a \in w[n + 1 - b]
    BY DEF PlacesOf
  <2>3. m[at] <=> i \in w[n + 1 - j]
    BY <2>1, <2>2
  <2> HIDE DEF m
  <2>4. CASE j = n + 1
    BY <1>5, <2>1, <2>3, <2>4
  <2>5. CASE j <= n /\ p[j] = wild
    <3>1. w[n + 1 - j] = {a \in 1 .. Len(v) + 1 : \E k \in w[n + 1 - (j + 1)] : a <= k}
      <4>1. n + 1 - j \in 1 .. n /\ (n + 1 - j) - 1 = n + 1 - (j + 1) /\ n + 1 - (n + 1 - j) = j
        BY <2>5
      <4> QED
        BY <1>6, <2>5, <4>1
    <3>2. w[n + 1 - (j + 1)] \subseteq 1 .. Len(v) + 1
      <4>1. n + 1 - (j + 1) \in 0 .. n
        BY <2>5
      <4> QED
        BY <1>4, <4>1
    <3>3. i \in w[n + 1 - j] <=> i \in w[n + 1 - (j + 1)] \/ (i <= Len(v) /\ i + 1 \in w[n + 1 - j])
      <4> DEFINE x == w[n + 1 - j]
                 y == w[n + 1 - (j + 1)]
      <4>1. x = {a \in 1 .. Len(v) + 1 : \E k \in y : a <= k} /\ y \subseteq 1 .. Len(v) + 1
        BY <3>1, <3>2
      <4> HIDE DEF x, y
      <4>2. ASSUME i \in x PROVE i \in y \/ (i <= Len(v) /\ i + 1 \in x)
        <5>1. PICK k \in y : i <= k
          BY <4>1, <4>2
        <5>2. k \in 1 .. Len(v) + 1
          BY <4>1
        <5>3. CASE k # i
          <6>1. i + 1 \in 1 .. Len(v) + 1 /\ i + 1 <= k /\ i <= Len(v)
            BY <5>1, <5>2, <5>3
          <6> QED
            BY <4>1, <6>1
        <5> QED
          BY <5>3
      <4>3. ASSUME i \in y PROVE i \in x
        BY <4>1, <4>3
      <4>4. ASSUME i <= Len(v), i + 1 \in x PROVE i \in x
        <5>1. PICK k \in y : i + 1 <= k
          BY <4>1, <4>4
        <5>2. k \in 1 .. Len(v) + 1
          BY <4>1
        <5> QED
          BY <4>1, <5>1, <5>2
      <4>5. i \in x <=> i \in y \/ (i <= Len(v) /\ i + 1 \in x)
        BY <4>2, <4>3, <4>4
      <4> QED
        BY <4>5 DEF x, y
    <3>4. m[<<i, j + 1>>] <=> i \in w[n + 1 - (j + 1)]
      BY <2>2, <2>5
    <3>5. i <= Len(v) => (m[<<i + 1, j>>] <=> i + 1 \in w[n + 1 - j])
      BY <2>2, <2>5
    <3>6. m[at] <=> m[<<i, j + 1>>] \/ (i <= Len(v) /\ m[<<i + 1, j>>])
      BY <2>3, <3>3, <3>4, <3>5, Zenon
    <3> QED
      BY <2>1, <2>5, <3>6
  <2>6. CASE j <= n /\ p[j] # wild
    <3>1. w[n + 1 - j] = {a \in 1 .. Len(v) : p[j] \in {v[a], one} /\ a + 1 \in w[n + 1 - (j + 1)]}
      <4>1. n + 1 - j \in 1 .. n /\ (n + 1 - j) - 1 = n + 1 - (j + 1) /\ n + 1 - (n + 1 - j) = j
        BY <2>6
      <4> QED
        BY <1>6, <2>6, <4>1
    <3>2. i <= Len(v) => (m[<<i + 1, j + 1>>] <=> i + 1 \in w[n + 1 - (j + 1)])
      BY <2>2, <2>6
    <3> QED
      BY <2>1, <2>3, <2>6, <3>1, <3>2
  <2> QED
    BY <2>4, <2>5, <2>6
<1>8. IsMeaning(m, v, p, wild, one)
  <2>1. m = [at \in PlacesOf(v, p) |-> m[at]] /\ \A at \in PlacesOf(v, p) : m[at] \in BOOLEAN
    OBVIOUS
  <2> HIDE DEF m
  <2> QED
    BY <1>7, <2>1 DEF IsMeaning
<1> QED
  BY <1>8

\* How the fitting places depend on one another.
Accepts(F, v, p, wild, one) ==
    /\ F \subseteq PlacesOf(v, p)
    /\ \A i \in 1 .. Len(v) + 1 : <<i, Len(p) + 1>> \in F <=> i = Len(v) + 1
    /\ \A i \in 1 .. Len(v) + 1, j \in 1 .. Len(p) :
          p[j] = wild => (<<i, j>> \in F <=> <<i, j + 1>> \in F \/ (i <= Len(v) /\ <<i + 1, j>> \in F))
    /\ \A i \in 1 .. Len(v) + 1, j \in 1 .. Len(p) :
          p[j] # wild => (<<i, j>> \in F <=> i <= Len(v) /\ p[j] \in {v[i], one} /\ <<i + 1, j + 1>> \in F)

\* The function, place by place.
LEMMA FitsAccept ==
    ASSUME NEW v, NEW p, NEW wild, NEW one, Len(v) \in Nat, Len(p) \in Nat
    PROVE  Accepts(Fits(v, p, wild, one), v, p, wild, one)
<1> DEFINE m == MeaningOf(v, p, wild, one)
           F == Fits(v, p, wild, one)
<1>1. IsMeaning(m, v, p, wild, one)
  BY MeaningExists DEF MeaningOf
<1>2. \A at \in PlacesOf(v, p) : at \in F <=> m[at]
  BY DEF Fits
<1>3. F \subseteq PlacesOf(v, p)
  BY DEF Fits
<1> DEFINE e(at) == IF at[2] > Len(p) THEN at[1] > Len(v)
                    ELSE IF p[at[2]] = wild
                         THEN m[<<at[1], at[2] + 1>>] \/ (at[1] <= Len(v) /\ m[<<at[1] + 1, at[2]>>])
                         ELSE at[1] <= Len(v) /\ p[at[2]] \in {v[at[1]], one} /\ m[<<at[1] + 1, at[2] + 1>>]
<1> HIDE DEF F, m
<1>a. m = [at \in PlacesOf(v, p) |-> e(at)]
  BY <1>1, Zenon DEF IsMeaning
<1>b. ASSUME NEW at \in PlacesOf(v, p) PROVE at \in F <=> e(at)
  <2> HIDE DEF e
  <2>1. m[at] = e(at)
    BY <1>a
  <2> QED
    BY <1>2, <2>1
<1>c. \A i \in 1 .. Len(v) + 1, j \in 1 .. Len(p) + 1 : <<i, j>> \in PlacesOf(v, p) /\ <<i, j>>[1] = i /\ <<i, j>>[2] = j
  BY DEF PlacesOf
<1>4. ASSUME NEW i \in 1 .. Len(v) + 1 PROVE <<i, Len(p) + 1>> \in F <=> i = Len(v) + 1
  <2>1. <<i, Len(p) + 1>> \in F <=> e(<<i, Len(p) + 1>>)
    BY <1>b, <1>c
  <2> QED
    BY <1>c, <2>1
<1>5. ASSUME NEW i \in 1 .. Len(v) + 1, NEW j \in 1 .. Len(p), p[j] = wild
      PROVE  <<i, j>> \in F <=> <<i, j + 1>> \in F \/ (i <= Len(v) /\ <<i + 1, j>> \in F)
  <2>1. <<i, j>> \in F <=> e(<<i, j>>)
    BY <1>b, <1>c
  <2>2. e(<<i, j>>) <=> m[<<i, j + 1>>] \/ (i <= Len(v) /\ m[<<i + 1, j>>])
    BY <1>5
  <2>3. <<i, j + 1>> \in F <=> m[<<i, j + 1>>]
    BY <1>2, <1>c
  <2>4. i <= Len(v) => (<<i + 1, j>> \in F <=> m[<<i + 1, j>>])
    BY <1>2, <1>c
  <2> QED
    BY <2>1, <2>2, <2>3, <2>4, Zenon
<1>6. ASSUME NEW i \in 1 .. Len(v) + 1, NEW j \in 1 .. Len(p), p[j] # wild
      PROVE  <<i, j>> \in F <=> i <= Len(v) /\ p[j] \in {v[i], one} /\ <<i + 1, j + 1>> \in F
  <2>1. <<i, j>> \in F <=> e(<<i, j>>)
    BY <1>b, <1>c
  <2>2. e(<<i, j>>) <=> i <= Len(v) /\ p[j] \in {v[i], one} /\ m[<<i + 1, j + 1>>]
    BY <1>6
  <2>3. i <= Len(v) => (<<i + 1, j + 1>> \in F <=> m[<<i + 1, j + 1>>])
    BY <1>2, <1>c
  <2> QED
    BY <2>1, <2>2, <2>3, Zenon
<1>7. Accepts(F, v, p, wild, one)
  BY <1>3, <1>4, <1>5, <1>6 DEF Accepts
<1> QED
  BY <1>7 DEF F

\* What a wild card fits: the rest of the pattern fits there or further on.
LEMMA WildFits ==
    ASSUME NEW v, NEW p, NEW wild, NEW one, NEW F, Len(v) \in Nat, Len(p) \in Nat,
           Accepts(F, v, p, wild, one), NEW j \in 1 .. Len(p), p[j] = wild,
           NEW i \in 1 .. Len(v) + 1
    PROVE  <<i, j>> \in F <=> \E k \in i .. Len(v) + 1 : <<k, j + 1>> \in F
<1> DEFINE N == Len(v) + 1
           Fine(a) == <<a, j>> \in F <=> \E k \in a .. N : <<k, j + 1>> \in F
           P == {n \in 0 .. Len(v) : Fine(N - n)}
<1>1. ASSUME NEW a \in 1 .. N
      PROVE  <<a, j>> \in F <=> <<a, j + 1>> \in F \/ (a <= Len(v) /\ <<a + 1, j>> \in F)
  BY DEF Accepts
<1>2. 0 \in P
  <2>0. N \in 1 .. N /\ ~(N <= Len(v))
    OBVIOUS
  <2>1. <<N, j>> \in F <=> <<N, j + 1>> \in F
    BY <1>1, <2>0, Zenon
  <2>2. N .. N = {N} /\ N - 0 = N
    OBVIOUS
  <2>3. Fine(N)
    BY <2>1, <2>2, Zenon
  <2> HIDE DEF Fine
  <2> QED
    BY <2>2, <2>3
<1>3. ASSUME NEW n \in 1 .. Len(v), n - 1 \in P PROVE n \in P
  <2> DEFINE a == N - n
  <2>1. a \in 1 .. Len(v) /\ N - (n - 1) = a + 1
    OBVIOUS
  <2> HIDE DEF a
  <2>2. Fine(a + 1)
    BY <1>3, <2>1
  <2>3. <<a, j>> \in F <=> <<a, j + 1>> \in F \/ <<a + 1, j>> \in F
    BY <1>1, <2>1
  <2>4. a .. N = {a} \cup (a + 1 .. N)
    BY <2>1
  <2>5. Fine(a)
    BY <2>2, <2>3, <2>4
  <2> QED
    BY <2>5 DEF a
<1> HIDE DEF Fine
<1>4. \A n \in 0 .. Len(v) : n \in P
  <2> HIDE DEF P
  <2> QED
    BY <1>2, <1>3, UpTo, Zenon
<1>5. Fine(N - (N - i))
  BY <1>4
<1>6. N - (N - i) = i
  OBVIOUS
<1> QED
  BY <1>5, <1>6 DEF Fine

\* At the end of the value, only wild cards fit.
LEMMA EndFits ==
    ASSUME NEW v, NEW p, NEW wild, NEW one, NEW F, Len(v) \in Nat, Len(p) \in Nat,
           Accepts(F, v, p, wild, one), NEW j \in 1 .. Len(p) + 1
    PROVE  <<Len(v) + 1, j>> \in F <=> \A k \in j .. Len(p) : p[k] = wild
<1> DEFINE N == Len(v) + 1
           M == Len(p) + 1
           Fine(a) == <<N, a>> \in F <=> \A k \in a .. Len(p) : p[k] = wild
           P == {n \in 0 .. Len(p) : Fine(M - n)}
<1>1. <<N, M>> \in F
  BY DEF Accepts
<1>2. 0 \in P
  <2>1. M .. Len(p) = {} /\ M - 0 = M
    OBVIOUS
  <2>2. Fine(M)
    BY <1>1, <2>1, Zenon
  <2> HIDE DEF Fine
  <2> QED
    BY <2>1, <2>2
<1>3. ASSUME NEW n \in 1 .. Len(p), n - 1 \in P PROVE n \in P
  <2> DEFINE a == M - n
  <2>1. a \in 1 .. Len(p) /\ M - (n - 1) = a + 1
    OBVIOUS
  <2> HIDE DEF a
  <2>2. Fine(a + 1)
    BY <1>3, <2>1
  <2>3. <<N, a>> \in F <=> p[a] = wild /\ <<N, a + 1>> \in F
    <3>1. N \in 1 .. N /\ ~(N <= Len(v))
      OBVIOUS
    <3>2. CASE p[a] = wild
      <4>1. <<N, a>> \in F <=> <<N, a + 1>> \in F \/ (N <= Len(v) /\ <<N + 1, a>> \in F)
        BY <2>1, <3>1, <3>2 DEF Accepts
      <4> QED
        BY <3>1, <3>2, <4>1
    <3>3. CASE p[a] # wild
      <4>1. <<N, a>> \in F => N <= Len(v)
        BY <2>1, <3>1, <3>3 DEF Accepts
      <4> QED
        BY <3>1, <3>3, <4>1
    <3> QED
      BY <3>2, <3>3
  <2>4. a .. Len(p) = {a} \cup (a + 1 .. Len(p))
    BY <2>1
  <2>5. Fine(a)
    BY <2>2, <2>3, <2>4
  <2> QED
    BY <2>5 DEF a
<1> HIDE DEF Fine
<1>4. \A n \in 0 .. Len(p) : n \in P
  <2> HIDE DEF P
  <2> QED
    BY <1>2, <1>3, UpTo, Zenon
<1>5. Fine(M - (M - j))
  BY <1>4
<1>6. M - (M - j) = j
  OBVIOUS
<1> QED
  BY <1>5, <1>6 DEF Fine

\* What the loops work on.
GlobRecords ==
    [level : {"component", "path"}, value : Seq(Letters \cup {"*"}),
     pattern : Seq(Letters \cup {"*", "**"}), verdict : {"open", "match", "no match"}]

Wild == IF glob.level = "component" THEN "*" ELSE "**"
Fitting == Fits(glob.value, glob.pattern, Wild, "*")

\* From where the last wild card may still take more.
Back == IF glob.level = "component" THEN mark ELSE vi

\* Where the loop is, and where it could go back to, only what is meant fits.
NothingElse ==
    /\ <<vi, pi>> \in Fitting => <<1, 1>> \in Fitting
    /\ star # 0 => /\ star < pi /\ glob.pattern[star] = Wild /\ Back \in 1 .. vi
                   /\ <<Back, star>> \in Fitting => <<1, 1>> \in Fitting

\* What stands between the last * and here can only begin where it did or
\* further on, and fits there as far as the loop has come.
BytesAhead ==
    LET taken == pi - 1 - star
    IN  IF star = 0 THEN <<vi, pi>> \in Fitting
        ELSE /\ <<mark, star>> \in Fitting /\ vi = mark + taken
             /\ \A k \in mark .. Len(glob.value) + 1 :
                  <<k, star + 1>> \in Fitting => <<k + taken, pi>> \in Fitting

\* The component behind a ** is found where it is.
ComponentsAhead ==
    IF star # 0 /\ pi = star + 1 THEN <<vi, star>> \in Fitting ELSE <<vi, pi>> \in Fitting

\* What is meant is not missed.
NothingMissed ==
    <<1, 1>> \in Fitting =>
        IF glob.level = "component" THEN "*" \notin ToSet(glob.value) => BytesAhead
        ELSE FollowersOnce => ComponentsAhead

\* The inductive invariant.
GlobIInv ==
    /\ GlobTypeOK /\ glob \in GlobRecords
    /\ glob.verdict = "open" => NothingElse /\ NothingMissed
    /\ glob.level = "path" /\ Trivial(glob.pattern) => glob.verdict = "match"
    /\ MatchesAsMeant

\* So it is for the value and the pattern at hand.
LEMMA FittingAccepts ==
    ASSUME glob \in GlobRecords
    PROVE  /\ Accepts(Fitting, glob.value, glob.pattern, Wild, "*")
           /\ Len(glob.value) \in Nat /\ Len(glob.pattern) \in Nat
           /\ glob.value \in Seq(Letters \cup {"*"})
           /\ glob.pattern \in Seq(Letters \cup {"*", "**"})
<1>1. /\ Len(glob.value) \in Nat /\ Len(glob.pattern) \in Nat
      /\ glob.value \in Seq(Letters \cup {"*"})
      /\ glob.pattern \in Seq(Letters \cup {"*", "**"})
  <2>1. glob.value \in Seq(Letters \cup {"*"}) /\ glob.pattern \in Seq(Letters \cup {"*", "**"})
    BY DEF GlobRecords
  <2> QED
    BY <2>1, LenProperties
<1>2. Accepts(Fitting, glob.value, glob.pattern, Wild, "*")
  BY <1>1, FitsAccept DEF Fitting
<1> QED
  BY <1>1, <1>2

\* The verdict in these terms.
LEMMA MeantFits ==
    ASSUME glob \in GlobRecords
    PROVE  /\ glob.level = "component" =>
                 (Means(glob.value, glob.pattern, "*", "*") <=> <<1, 1>> \in Fitting)
           /\ glob.level = "path" =>
                 (Means(glob.value, glob.pattern, "**", "*") <=> <<1, 1>> \in Fitting)
<1>1. Len(glob.value) \in Nat /\ Len(glob.pattern) \in Nat
  BY FittingAccepts
<1>2. CASE glob.level = "component"
  BY <1>1, <1>2, MeansFits DEF Fitting, Wild
<1>3. CASE glob.level # "component"
  BY <1>1, <1>3, MeansFits DEF Fitting, Wild
<1> QED
  BY <1>2, <1>3

\* The inputs.
LEMMA InputsAre ==
    ASSUME NEW wild, NEW more, wild \subseteq more, NEW s \in Inputs(wild)
    PROVE  s \in Seq(Letters \cup wild) /\ s \in Inputs(more)
<1>1. PICK m \in 0 .. GlobLength : s \in [1 .. m -> Letters \cup wild]
  BY DEF Inputs, BoundedSeq, SeqOf
<1>2. s \in [1 .. m -> Letters \cup more]
  BY <1>1
<1> QED
  BY <1>1, <1>2 DEF Inputs, BoundedSeq, SeqOf

\* At first both loops are at the first place.
LEMMA GlobInitially == GlobInit => GlobIInv
<1> SUFFICES ASSUME GlobInit PROVE GlobIInv
  OBVIOUS
<1>1. PICK v \in Inputs({"*"}), p \in Inputs({"*", "**"}), level \in {"component", "path"} :
         /\ glob = [level |-> level, value |-> v, pattern |-> p,
                    verdict |-> IF level = "path" /\ Trivial(p) THEN "match" ELSE "open"]
         /\ vi = 1 /\ pi = 1 /\ star = 0 /\ mark = 0
  <2>1. Inputs({"*"}) \subseteq Inputs({"*", "**"}) /\ Inputs({}) \subseteq Inputs({"*"})
    BY InputsAre
  <2>2. CASE \E v, p \in Inputs({"*"}) :
                glob = [level |-> "component", value |-> v, pattern |-> p, verdict |-> "open"]
    BY <2>1, <2>2 DEF GlobInit
  <2>3. CASE \E v \in Inputs({}) \ {<<>>}, p \in Inputs({"*", "**"}) \ {<<>>} :
                glob = [level |-> "path", value |-> v, pattern |-> p,
                        verdict |-> IF Trivial(p) THEN "match" ELSE "open"]
    BY <2>1, <2>3 DEF GlobInit
  <2> QED
    BY <2>2, <2>3 DEF GlobInit
<1>2. v \in Seq(Letters \cup {"*"}) /\ p \in Seq(Letters \cup {"*", "**"})
  BY InputsAre
<1>3. glob \in GlobRecords
  BY <1>1, <1>2 DEF GlobRecords
<1>4. GlobTypeOK
  BY <1>1, <1>3, FittingAccepts DEF GlobTypeOK, GlobRecords
<1>5. NothingElse /\ NothingMissed
  BY <1>1 DEF NothingElse, NothingMissed, BytesAhead, ComponentsAhead
<1>6. glob.level = "path" /\ Trivial(glob.pattern) => glob.verdict = "match"
  BY <1>1
<1>7. MatchesAsMeant
  BY <1>1 DEF MatchesAsMeant, ComponentsAsMeant, PathsAsMeant, PathMeant
<1> QED
  BY <1>3, <1>4, <1>5, <1>6, <1>7 DEF GlobIInv

\* The steps of Accepts.
LEMMA AtWild ==
    ASSUME NEW v, NEW p, NEW wild, NEW one, NEW F, Accepts(F, v, p, wild, one),
           NEW i \in 1 .. Len(v) + 1, NEW j \in 1 .. Len(p), p[j] = wild
    PROVE  <<i, j>> \in F <=> <<i, j + 1>> \in F \/ (i <= Len(v) /\ <<i + 1, j>> \in F)
BY DEF Accepts

LEMMA AtOne ==
    ASSUME NEW v, NEW p, NEW wild, NEW one, NEW F, Accepts(F, v, p, wild, one),
           NEW i \in 1 .. Len(v) + 1, NEW j \in 1 .. Len(p), p[j] # wild
    PROVE  <<i, j>> \in F <=> i <= Len(v) /\ p[j] \in {v[i], one} /\ <<i + 1, j + 1>> \in F
BY DEF Accepts

\* A wild card that fits has found what it stands for.
LEMMA WildFound ==
    ASSUME NEW v, NEW p, NEW wild, NEW one, NEW F, Len(v) \in Nat, Len(p) \in Nat,
           Accepts(F, v, p, wild, one), NEW i \in 1 .. Len(v) + 1, NEW j \in 1 .. Len(p), p[j] = wild,
           <<i, j>> \in F
    PROVE  \E k \in i .. Len(v) + 1 : <<k, j + 1>> \in F
BY WildFits

\* A verdict is right where it is not more, and not less, than is meant.
LEMMA VerdictKeeps ==
    ASSUME GlobIInv, glob.verdict = "open", NEW b \in BOOLEAN, Verdict(b),
           b => <<1, 1>> \in Fitting,
           ~b /\ glob.level = "component" /\ <<1, 1>> \in Fitting => "*" \in ToSet(glob.value),
           ~b /\ glob.level = "path" /\ <<1, 1>> \in Fitting => ~FollowersOnce
    PROVE  GlobIInv'
<1>1. glob \in GlobRecords /\ GlobTypeOK /\ (glob.level = "path" => ~Trivial(glob.pattern))
  BY DEF GlobIInv
<1>2. /\ glob' \in GlobRecords /\ glob'.level = glob.level
      /\ glob'.value = glob.value /\ glob'.pattern = glob.pattern
      /\ glob'.verdict = IF b THEN "match" ELSE "no match"
      /\ vi' = vi /\ pi' = pi /\ star' = star /\ mark' = mark
  BY <1>1 DEF GlobRecords, Verdict
<1>3. GlobTypeOK'
  BY <1>1, <1>2 DEF GlobTypeOK, GlobRecords
<1>4. glob'.verdict # "open"
  BY <1>2
<1>5. PathMeant' <=> PathMeant
  BY <1>2 DEF PathMeant, Trivial
<1>6. FollowersOnce' <=> FollowersOnce
  BY <1>2 DEF FollowersOnce
<1>7. ComponentsAsMeant'
  <2> SUFFICES ASSUME glob.level = "component"
               PROVE  LET meant == Means(glob.value, glob.pattern, "*", "*")
                      IN  /\ glob'.verdict = "match" => meant
                          /\ meant /\ "*" \notin ToSet(glob.value) => glob'.verdict = "match"
    BY <1>2 DEF ComponentsAsMeant
  <2>1. Means(glob.value, glob.pattern, "*", "*") <=> <<1, 1>> \in Fitting
    BY <1>1, MeantFits
  <2>2. glob'.verdict = "match" => b
    BY <1>2
  <2>3. ~b => glob'.verdict # "match"
    BY <1>2
  <2>4. b \/ ~b
    OBVIOUS
  <2> QED
    BY <1>2, <2>1
<1>8. PathsAsMeant'
  <2> SUFFICES ASSUME glob.level = "path"
               PROVE  /\ glob'.verdict = "match" => PathMeant
                      /\ PathMeant /\ FollowersOnce => glob'.verdict = "match"
    BY <1>2, <1>5, <1>6 DEF PathsAsMeant
  <2>1. PathMeant <=> <<1, 1>> \in Fitting
    BY <1>1, MeantFits DEF PathMeant
  <2> QED
    BY <1>2, <2>1
<1>9. ~(glob'.level = "path" /\ Trivial(glob'.pattern))
  BY <1>1, <1>2
<1> QED
  BY <1>2, <1>3, <1>4, <1>7, <1>8, <1>9 DEF GlobIInv, MatchesAsMeant, Trivial

\* A turn that goes on.
LEMMA TurnKeeps ==
    ASSUME GlobIInv, glob.verdict = "open", glob' = glob,
           vi' \in 1 .. Len(glob.value) + 1, pi' \in 1 .. Len(glob.pattern) + 1,
           star' \in 0 .. Len(glob.pattern), mark' \in 0 .. Len(glob.value) + 1,
           NothingElse', NothingMissed'
    PROVE  GlobIInv'
<1>1. GlobTypeOK'
  BY DEF GlobIInv, GlobTypeOK
<1>2. glob' \in GlobRecords /\ glob'.verdict = "open"
  BY DEF GlobIInv
<1>3. MatchesAsMeant'
  BY <1>2 DEF MatchesAsMeant, ComponentsAsMeant, PathsAsMeant
<1>4. ~(glob'.level = "path" /\ Trivial(glob'.pattern))
  BY DEF GlobIInv
<1> QED
  BY <1>1, <1>2, <1>3, <1>4 DEF GlobIInv, GlobRecords, Trivial

\* What is known while there is no verdict.
LEMMA Open ==
    ASSUME GlobIInv, glob.verdict = "open"
    PROVE  /\ Accepts(Fitting, glob.value, glob.pattern, Wild, "*")
           /\ Len(glob.value) \in Nat /\ Len(glob.pattern) \in Nat
           /\ vi \in 1 .. Len(glob.value) + 1 /\ pi \in 1 .. Len(glob.pattern) + 1
           /\ star \in 0 .. Len(glob.pattern) /\ mark \in 0 .. Len(glob.value) + 1
           /\ glob.value \in Seq(Letters \cup {"*"}) /\ glob.pattern \in Seq(Letters \cup {"*", "**"})
           /\ NothingElse /\ NothingMissed
BY FittingAccepts DEF GlobIInv, GlobTypeOK

\* The value and the pattern stay, and so does what fits.
LEMMA SameFits ==
    ASSUME glob' = glob
    PROVE  Fitting' = Fitting /\ Wild' = Wild /\ FollowersOnce' = FollowersOnce
BY DEF Fitting, Wild, FollowersOnce

\* A byte fits: what is behind the last * is one longer.
LEMMA SameByteKeeps ==
    ASSUME GlobIInv, SameByte
    PROVE  GlobIInv'
<1> DEFINE v == glob.value
           p == glob.pattern
           F == Fitting
<1>1. /\ glob.level = "component" /\ glob.verdict = "open" /\ glob' = glob
      /\ vi \in 1 .. Len(v) /\ pi \in 1 .. Len(p) /\ p[pi] = v[vi]
      /\ vi' = vi + 1 /\ pi' = pi + 1 /\ star' = star /\ mark' = mark
  BY Open DEF SameByte, AtComponent, InValue, PatternIs, InPattern, Both
<1>2. /\ Accepts(F, v, p, "*", "*") /\ Len(v) \in Nat /\ Len(p) \in Nat
      /\ star \in 0 .. Len(p) /\ mark \in 0 .. Len(v) + 1 /\ v \in Seq(Letters \cup {"*"})
      /\ NothingElse /\ NothingMissed
  BY <1>1, Open DEF Wild
<1>3. F' = F /\ Wild' = Wild /\ Wild = "*" /\ Back = mark /\ Back' = mark'
  BY <1>1, SameFits DEF Wild, Back
<1>4. <<vi + 1, pi + 1>> \in F => <<vi, pi>> \in F
  <2>1. vi \in 1 .. Len(v) + 1 /\ vi + 1 \in 1 .. Len(v) + 1 /\ vi <= Len(v)
    BY <1>1, <1>2
  <2>2. CASE p[pi] = "*"
    <3>1. <<vi + 1, pi + 1>> \in F => <<vi + 1, pi>> \in F
      BY <1>1, <1>2, <2>1, <2>2, AtWild
    <3>2. <<vi + 1, pi>> \in F => <<vi, pi>> \in F
      BY <1>1, <1>2, <2>1, <2>2, AtWild
    <3> QED
      BY <3>1, <3>2
  <2>3. CASE p[pi] # "*"
    <3>1. Accepts(F, v, p, "*", "*") /\ vi \in 1 .. Len(v) + 1 /\ pi \in 1 .. Len(p) /\ p[pi] # "*"
      BY <1>1, <1>2, <2>1, <2>3
    <3>2. <<vi, pi>> \in F <=> vi <= Len(v) /\ p[pi] \in {v[vi], "*"} /\ <<vi + 1, pi + 1>> \in F
      BY <3>1, AtOne
    <3> QED
      BY <1>1, <2>1, <3>2
  <2> QED
    BY <2>2, <2>3
<1>5. p[pi] # "*" /\ <<vi, pi>> \in F => <<vi + 1, pi + 1>> \in F
  <2>1. vi \in 1 .. Len(v) + 1
    BY <1>1, <1>2
  <2> QED
    BY <1>1, <1>2, <2>1, AtOne
<1>6. NothingElse'
  BY <1>1, <1>2, <1>3, <1>4 DEF NothingElse
<1>7. NothingMissed'
  <2> SUFFICES ASSUME <<1, 1>> \in F, "*" \notin ToSet(v) PROVE BytesAhead'
    BY <1>1, <1>3 DEF NothingMissed
  <2>1. BytesAhead
    BY <1>1, <1>2 DEF NothingMissed
  <2>2. p[pi] # "*"
    BY <1>1, <1>2 DEF ToSet
  <2>3. CASE star = 0
    BY <1>1, <1>3, <1>5, <2>1, <2>2, <2>3 DEF BytesAhead
  <2>4. CASE star # 0
    <3> DEFINE taken == pi - 1 - star
    <3>1. /\ <<mark, star>> \in F /\ vi = mark + taken /\ star < pi
          /\ \A k \in mark .. Len(v) + 1 : <<k, star + 1>> \in F => <<k + taken, pi>> \in F
      BY <1>2, <2>1, <2>4 DEF BytesAhead, NothingElse
    <3>2. ASSUME NEW k \in mark .. Len(v) + 1, <<k, star + 1>> \in F
          PROVE  <<k + (taken + 1), pi + 1>> \in F
      <4>1. <<k + taken, pi>> \in F
        BY <3>1, <3>2
      <4>2. PICK x \in 1 .. Len(v) + 1 : x = k + taken
        BY <4>1, <1>2 DEF Accepts, PlacesOf
      <4>3. <<x, pi>> \in F
        BY <4>1, <4>2
      <4>4. <<x + 1, pi + 1>> \in F
        <5>1. Accepts(F, v, p, "*", "*") /\ x \in 1 .. Len(v) + 1 /\ pi \in 1 .. Len(p) /\ p[pi] # "*"
          BY <1>1, <1>2, <2>2
        <5> QED
          BY <4>3, <5>1, AtOne
      <4>5. x + 1 = k + (taken + 1)
        BY <1>1, <1>2, <4>2
      <4> QED
        BY <4>4, <4>5
    <3>3. pi' - 1 - star' = taken + 1 /\ vi' = mark' + (taken + 1)
      BY <1>1, <1>2, <3>1
    <3> HIDE DEF taken
    <3> QED
      BY <1>1, <1>3, <2>4, <3>1, <3>2, <3>3 DEF BytesAhead
  <2> QED
    BY <2>3, <2>4
<1> QED
  BY <1>1, <1>2, <1>6, <1>7, TurnKeeps

\* A * is met: what is behind the last one is as far as it can be.
LEMMA StarKeeps ==
    ASSUME GlobIInv, Star
    PROVE  GlobIInv'
<1> DEFINE v == glob.value
           p == glob.pattern
           F == Fitting
<1>1. /\ glob.level = "component" /\ glob.verdict = "open" /\ glob' = glob
      /\ vi \in 1 .. Len(v) /\ pi \in 1 .. Len(p) /\ p[pi] = "*"
      /\ vi' = vi /\ pi' = pi + 1 /\ star' = pi /\ mark' = vi
  BY Open DEF Star, AtComponent, InValue, PatternIs, InPattern
<1>2. /\ Accepts(F, v, p, "*", "*") /\ Len(v) \in Nat /\ Len(p) \in Nat
      /\ star \in 0 .. Len(p) /\ mark \in 0 .. Len(v) + 1 /\ v \in Seq(Letters \cup {"*"})
      /\ NothingElse /\ NothingMissed
  BY <1>1, Open DEF Wild
<1>3. F' = F /\ Wild' = Wild /\ Wild = "*" /\ Back = mark /\ Back' = mark' /\ glob'.pattern = p
  BY <1>1, SameFits DEF Wild, Back
<1>4. vi \in 1 .. Len(v) + 1
  BY <1>1, <1>2
<1>5. <<vi, pi + 1>> \in F => <<vi, pi>> \in F
  BY <1>1, <1>2, <1>4, AtWild
<1>6. NothingElse'
  <2>1. star' < pi' /\ glob'.pattern[star'] = Wild' /\ Back' \in 1 .. vi'
    BY <1>1, <1>3, <1>4
  <2>2. <<vi, pi>> \in F => <<1, 1>> \in F
    BY <1>2 DEF NothingElse
  <2>3. <<vi', pi'>> \in F' => <<1, 1>> \in F'
    BY <1>1, <1>3, <1>5, <2>2
  <2>4. <<Back', star'>> \in F' => <<1, 1>> \in F'
    BY <1>1, <1>3, <2>2
  <2> QED
    BY <2>1, <2>3, <2>4 DEF NothingElse
<1>7. NothingMissed'
  <2> SUFFICES ASSUME <<1, 1>> \in F, "*" \notin ToSet(v) PROVE BytesAhead'
    BY <1>1, <1>3 DEF NothingMissed
  <2>1. BytesAhead
    BY <1>1, <1>2 DEF NothingMissed
  <2>2. <<vi, pi>> \in F
    <3>1. CASE star = 0
      BY <2>1, <3>1 DEF BytesAhead
    <3>2. CASE star # 0
      <4>1. /\ star \in 1 .. Len(p) /\ p[star] = "*" /\ mark \in 1 .. Len(v) + 1
            /\ <<mark, star>> \in F
        BY <1>1, <1>2, <1>3, <2>1, <3>2 DEF NothingElse, BytesAhead
      <4>2. PICK k \in mark .. Len(v) + 1 : <<k, star + 1>> \in F
        BY <1>2, <4>1, WildFound, Zenon
      <4>3. <<k + (pi - 1 - star), pi>> \in F /\ vi = mark + (pi - 1 - star)
        BY <2>1, <3>2, <4>2 DEF BytesAhead
      <4>4. PICK x \in 1 .. Len(v) + 1 : x = k + (pi - 1 - star)
        BY <1>2, <4>3 DEF Accepts, PlacesOf
      <4>5. vi <= x
        BY <1>1, <1>2, <4>1, <4>3, <4>4
      <4>6. x \in vi .. Len(v) + 1 /\ <<x, pi>> \in F
        BY <1>1, <4>3, <4>4, <4>5
      <4>7. \E y \in vi .. Len(v) + 1 : <<y, pi + 1>> \in F
        <5>1. PICK y \in x .. Len(v) + 1 : <<y, pi + 1>> \in F
          BY <1>1, <1>2, <4>6, <4>4, WildFound, Zenon
        <5> QED
          BY <1>1, <4>4, <4>5, <5>1
      <4> QED
        BY <1>1, <1>2, <1>4, <4>7, WildFits
    <3> QED
      BY <3>1, <3>2
  <2>3. pi' - 1 - star' = 0 /\ star' # 0 /\ star' + 1 = pi'
    BY <1>1
  <2>4. \A k \in mark' .. Len(v) + 1 : k + 0 = k
    BY <1>1
  <2> QED
    BY <1>1, <1>3, <2>2, <2>3, <2>4 DEF BytesAhead
<1> QED
  BY <1>1, <1>2, <1>4, <1>6, <1>7, TurnKeeps

\* Where the loop is stuck, nothing fits.
LEMMA StuckFitsNot ==
    ASSUME GlobIInv, glob.verdict = "open", InValue, ~PatternIs(Wild), ~PatternIs("*"), ~PatternIs(glob.value[vi])
    PROVE  <<vi, pi>> \notin Fitting /\ vi \in 1 .. Len(glob.value)
<1> DEFINE v == glob.value
           p == glob.pattern
           F == Fitting
<1>1. /\ Accepts(F, v, p, Wild, "*") /\ Len(v) \in Nat /\ Len(p) \in Nat
      /\ vi \in 1 .. Len(v) + 1 /\ pi \in 1 .. Len(p) + 1
  BY Open
<1>2. vi \in 1 .. Len(v)
  BY <1>1 DEF InValue
<1>3. CASE pi = Len(p) + 1
  <2>1. <<vi, Len(p) + 1>> \in F <=> vi = Len(v) + 1
    BY <1>1 DEF Accepts
  <2> QED
    BY <1>1, <1>2, <1>3, <2>1
<1>4. CASE pi \in 1 .. Len(p)
  <2>1. p[pi] # Wild /\ p[pi] \notin {v[vi], "*"}
    BY <1>1, <1>4 DEF PatternIs, InPattern
  <2>2. <<vi, pi>> \in F <=> vi <= Len(v) /\ p[pi] \in {v[vi], "*"} /\ <<vi + 1, pi + 1>> \in F
    BY <1>1, <1>4, <2>1, AtOne
  <2> QED
    BY <1>2, <2>1, <2>2
<1> QED
  BY <1>1, <1>3, <1>4

\* So it is in the loop over bytes.
LEMMA StuckByteFitsNot ==
    ASSUME GlobIInv, StuckByte
    PROVE  /\ <<vi, pi>> \notin Fitting /\ vi \in 1 .. Len(glob.value)
           /\ glob.level = "component" /\ glob.verdict = "open" /\ Wild = "*"
<1>1. glob.level = "component" /\ glob.verdict = "open" /\ Wild = "*"
  BY DEF StuckByte, AtComponent, Wild
<1> QED
  BY <1>1, StuckFitsNot DEF StuckByte

\* The last * takes one more, for without it nothing fits.
LEMMA StarTakesOneMoreKeeps ==
    ASSUME GlobIInv, StarTakesOneMore
    PROVE  GlobIInv'
<1> DEFINE v == glob.value
           p == glob.pattern
           F == Fitting
<1>0. StuckByte
  BY DEF StarTakesOneMore
<1>1. /\ glob.level = "component" /\ glob.verdict = "open" /\ glob' = glob
      /\ <<vi, pi>> \notin F /\ vi \in 1 .. Len(v)
      /\ star # 0 /\ star' = star /\ pi' = star + 1 /\ mark' = mark + 1 /\ vi' = mark + 1
  BY <1>0, StuckByteFitsNot DEF StarTakesOneMore
<1>2. /\ Accepts(F, v, p, "*", "*") /\ Len(v) \in Nat /\ Len(p) \in Nat
      /\ star \in 1 .. Len(p) /\ pi \in 1 .. Len(p) + 1 /\ mark \in 0 .. Len(v) + 1
      /\ NothingElse /\ NothingMissed
  BY <1>1, Open DEF Wild
<1>3. F' = F /\ Wild' = Wild /\ Wild = "*" /\ Back = mark /\ Back' = mark' /\ glob'.pattern = p
  BY <1>1, SameFits DEF Wild, Back
<1>4. mark \in 1 .. vi /\ p[star] = "*" /\ star < pi /\ (<<mark, star>> \in F => <<1, 1>> \in F)
  BY <1>1, <1>2, <1>3 DEF NothingElse
<1>5. mark \in 1 .. Len(v) /\ mark \in 1 .. Len(v) + 1 /\ mark + 1 \in 1 .. Len(v) + 1 /\ mark <= Len(v)
  BY <1>1, <1>2, <1>4
<1>6. <<mark, star>> \in F <=> <<mark, star + 1>> \in F \/ <<mark + 1, star>> \in F
  BY <1>2, <1>4, <1>5, AtWild
<1>7. <<mark + 1, star + 1>> \in F => <<mark + 1, star>> \in F
  BY <1>2, <1>4, <1>5, AtWild
<1>8. NothingElse'
  BY <1>1, <1>2, <1>3, <1>4, <1>5, <1>6, <1>7 DEF NothingElse
<1>9. NothingMissed'
  <2> SUFFICES ASSUME <<1, 1>> \in F, "*" \notin ToSet(v) PROVE BytesAhead'
    BY <1>1, <1>3 DEF NothingMissed
  <2>1. BytesAhead
    BY <1>1, <1>2 DEF NothingMissed
  <2>2. <<mark, star>> \in F /\ vi = mark + (pi - 1 - star)
    BY <1>1, <2>1 DEF BytesAhead
  <2>3. <<mark, star + 1>> \notin F
    <3>1. <<mark, star + 1>> \in F => <<mark + (pi - 1 - star), pi>> \in F
      BY <1>1, <1>5, <2>1 DEF BytesAhead
    <3> QED
      BY <1>1, <2>2, <3>1
  <2>4. <<mark + 1, star>> \in F
    BY <1>6, <2>2, <2>3
  <2>5. pi' - 1 - star' = 0 /\ star' # 0 /\ star' + 1 = pi' /\ vi' = mark' + 0
    BY <1>1, <1>2
  <2>6. \A k \in mark' .. Len(v) + 1 : k + 0 = k
    BY <1>1, <1>2
  <2> QED
    BY <1>1, <1>3, <2>4, <2>5, <2>6 DEF BytesAhead
<1> QED
  BY <1>1, <1>2, <1>5, <1>8, <1>9, TurnKeeps

\* Without a * to go back to, stuck is no match.
LEMMA BytesDifferKeeps ==
    ASSUME GlobIInv, BytesDiffer
    PROVE  GlobIInv'
<1>1. StuckByte /\ star = 0 /\ Verdict(FALSE)
  BY DEF BytesDiffer
<1>2. <<vi, pi>> \notin Fitting /\ glob.level = "component" /\ glob.verdict = "open"
  BY <1>1, StuckByteFitsNot
<1>3. <<1, 1>> \in Fitting => "*" \in ToSet(glob.value)
  BY <1>1, <1>2, Open DEF NothingMissed, BytesAhead
<1> QED
  BY <1>1, <1>2, <1>3, VerdictKeeps

\* At the end of the value only * may be left.
LEMMA ComponentEndsKeeps ==
    ASSUME GlobIInv, ComponentEnds
    PROVE  GlobIInv'
<1> DEFINE v == glob.value
           p == glob.pattern
           F == Fitting
           b == RestIsWild("*")
<1>1. glob.level = "component" /\ glob.verdict = "open" /\ Verdict(b) /\ ~InValue
  BY DEF ComponentEnds, AtComponent
<1>2. /\ Accepts(F, v, p, "*", "*") /\ Len(v) \in Nat /\ Len(p) \in Nat /\ vi = Len(v) + 1
      /\ star \in 0 .. Len(p) /\ pi \in 1 .. Len(p) + 1 /\ mark \in 0 .. Len(v) + 1
      /\ NothingElse /\ NothingMissed
  BY <1>1, Open DEF Wild, InValue
<1>3. b <=> <<vi, pi>> \in F
  <2>1. /\ Accepts(F, v, p, "*", "*") /\ Len(v) \in Nat /\ Len(p) \in Nat
        /\ pi \in 1 .. Len(p) + 1
    BY <1>2
  <2>2. <<Len(v) + 1, pi>> \in F <=> \A k \in pi .. Len(p) : p[k] = "*"
    BY <2>1, EndFits
  <2> QED
    BY <1>2, <2>2 DEF RestIsWild
<1>4. b => <<1, 1>> \in F
  BY <1>2, <1>3 DEF NothingElse
<1>5. ASSUME <<1, 1>> \in F, "*" \notin ToSet(v) PROVE b
  <2>1. BytesAhead
    BY <1>1, <1>2, <1>5 DEF NothingMissed
  <2>2. CASE star = 0
    BY <1>3, <2>1, <2>2 DEF BytesAhead
  <2>3. CASE star # 0
    <3>1. /\ star \in 1 .. Len(p) /\ p[star] = "*" /\ mark \in 1 .. Len(v) + 1
          /\ <<mark, star>> \in F /\ star < pi
      BY <1>1, <1>2, <2>1, <2>3 DEF NothingElse, BytesAhead, Back, Wild
    <3>2. PICK k \in mark .. Len(v) + 1 : <<k, star + 1>> \in F
      BY <1>2, <3>1, WildFound, Zenon
    <3>3. <<k + (pi - 1 - star), pi>> \in F /\ vi = mark + (pi - 1 - star)
      BY <2>1, <2>3, <3>2 DEF BytesAhead
    <3>4. PICK x \in 1 .. Len(v) + 1 : x = k + (pi - 1 - star)
      BY <1>2, <3>3 DEF Accepts, PlacesOf
    <3>5. x = vi
      BY <1>2, <3>1, <3>3, <3>4
    <3> QED
      BY <1>3, <3>3, <3>4, <3>5
  <2> QED
    BY <2>2, <2>3
<1>6. b \in BOOLEAN
  BY DEF RestIsWild
<1> HIDE DEF b
<1> QED
  BY <1>1, <1>4, <1>5, <1>6, VerdictKeeps

\* What is known in the loop over components.
LEMMA OnPath ==
    ASSUME GlobIInv, AtPath
    PROVE  /\ Accepts(Fitting, glob.value, glob.pattern, "**", "*")
           /\ Len(glob.value) \in Nat /\ Len(glob.pattern) \in Nat
           /\ vi \in 1 .. Len(glob.value) + 1 /\ pi \in 1 .. Len(glob.pattern) + 1
           /\ star \in 0 .. Len(glob.pattern) /\ mark \in 0 .. Len(glob.value) + 1
           /\ \A k \in 1 .. Len(glob.value) : glob.value[k] \in Letters \cup {"*"}
           /\ Wild = "**" /\ Back = vi /\ glob.level = "path" /\ glob.verdict = "open"
           /\ NothingElse
           /\ <<1, 1>> \in Fitting /\ FollowersOnce => ComponentsAhead
<1>1. glob.level = "path" /\ glob.verdict = "open" /\ Wild = "**" /\ Back = vi
  BY DEF AtPath, Wild, Back
<1>2. /\ Accepts(Fitting, glob.value, glob.pattern, "**", "*")
      /\ Len(glob.value) \in Nat /\ Len(glob.pattern) \in Nat
      /\ vi \in 1 .. Len(glob.value) + 1 /\ pi \in 1 .. Len(glob.pattern) + 1
      /\ star \in 0 .. Len(glob.pattern) /\ mark \in 0 .. Len(glob.value) + 1
      /\ glob.value \in Seq(Letters \cup {"*"})
      /\ NothingElse /\ NothingMissed
  BY <1>1, Open
<1>3. <<1, 1>> \in Fitting /\ FollowersOnce => ComponentsAhead
  BY <1>1, <1>2 DEF NothingMissed
<1>4. \A k \in 1 .. Len(glob.value) : glob.value[k] \in Letters \cup {"*"}
  BY <1>2, ElementOfSeq
<1> QED
  BY <1>1, <1>2, <1>3, <1>4

\* A ** is met: no earlier one is waiting, for a letter would follow that.
LEMMA GlobStarKeeps ==
    ASSUME GlobIInv, GlobStar
    PROVE  GlobIInv'
<1> DEFINE v == glob.value
           p == glob.pattern
           F == Fitting
<1>1. /\ AtPath /\ vi \in 1 .. Len(v) /\ pi \in 1 .. Len(p) /\ p[pi] = "**"
  BY OnPath DEF GlobStar, InValue, PatternIs, InPattern
<1>2. /\ Accepts(F, v, p, "**", "*") /\ Len(v) \in Nat /\ Len(p) \in Nat
      /\ star \in 0 .. Len(p) /\ mark \in 0 .. Len(v) + 1
      /\ glob.level = "path" /\ glob.verdict = "open" /\ Wild = "**" /\ Back = vi
      /\ NothingElse
      /\ <<1, 1>> \in F /\ FollowersOnce => ComponentsAhead
  BY <1>1, OnPath
<1>3. vi \in 1 .. Len(v) + 1
  BY <1>1, <1>2
<1>4. CASE pi = Len(p)
  <2>1. Verdict(TRUE)
    BY <1>4 DEF GlobStar
  <2>2. \E k \in vi .. Len(v) + 1 : <<k, pi + 1>> \in F
    <3>1. Len(v) + 1 \in vi .. Len(v) + 1 /\ Len(v) + 1 \in 1 .. Len(v) + 1
      BY <1>2, <1>3
    <3>2. <<Len(v) + 1, Len(p) + 1>> \in F
      BY <3>1, <1>2 DEF Accepts
    <3> QED
      BY <1>4, <3>1, <3>2
  <2>3. <<vi, pi>> \in F
    BY <1>1, <1>2, <1>3, <2>2, WildFits
  <2>4. <<1, 1>> \in F
    BY <1>2, <2>3 DEF NothingElse
  <2> QED
    BY <1>2, <2>1, <2>4, VerdictKeeps
<1>5. CASE pi # Len(p)
  <2>1. glob' = glob /\ vi' = vi /\ mark' = mark /\ star' = pi /\ pi' = pi + 1
    BY <1>5 DEF GlobStar
  <2>2. F' = F /\ Wild' = Wild /\ FollowersOnce' = FollowersOnce /\ Back' = vi
    BY <1>2, <2>1, SameFits DEF Back
  <2>3. <<vi, pi + 1>> \in F => <<vi, pi>> \in F
    BY <1>1, <1>2, <1>3, AtWild
  <2>4. <<vi, pi>> \in F => <<1, 1>> \in F
    BY <1>2 DEF NothingElse
  <2>5. NothingElse'
    <3>1. star' < pi' /\ glob'.pattern[star'] = Wild' /\ Back' \in 1 .. vi'
      BY <1>1, <1>2, <2>1, <2>2
    <3>2. <<vi', pi'>> \in F' => <<1, 1>> \in F'
      BY <2>1, <2>2, <2>3, <2>4
    <3>3. <<Back', star'>> \in F' => <<1, 1>> \in F'
      BY <2>1, <2>2, <2>4
    <3> QED
      BY <3>1, <3>2, <3>3 DEF NothingElse
  <2>6. NothingMissed'
    <3> SUFFICES ASSUME <<1, 1>> \in F, FollowersOnce PROVE ComponentsAhead'
      BY <1>2, <2>1, <2>2 DEF NothingMissed
    <3>1. ~(star # 0 /\ pi = star + 1)
      <4> SUFFICES ASSUME star # 0, pi = star + 1 PROVE FALSE
        OBVIOUS
      <4>1. star \in 1 .. Len(p) - 1 /\ p[star] = "**"
        BY <1>1, <1>2 DEF NothingElse
      <4>2. p[star + 1] \in Letters
        BY <4>1 DEF FollowersOnce
      <4> QED
        BY <1>1, <4>2, GlobAssumption
    <3>2. <<vi, pi>> \in F
      BY <1>2, <3>1 DEF ComponentsAhead
    <3> QED
      BY <1>1, <2>1, <2>2, <3>2 DEF ComponentsAhead
  <2> QED
    BY <1>1, <1>2, <1>3, <1>5, <2>1, <2>5, <2>6, TurnKeeps
<1> QED
  BY <1>4, <1>5

\* A component fits; behind a ** it is the only one that does.
LEMMA SameComponentKeeps ==
    ASSUME GlobIInv, SameComponent
    PROVE  GlobIInv'
<1> DEFINE v == glob.value
           p == glob.pattern
           F == Fitting
<1>1. /\ AtPath /\ vi \in 1 .. Len(v) /\ pi \in 1 .. Len(p) /\ p[pi] \in {v[vi], "*"}
      /\ glob' = glob /\ vi' = vi + 1 /\ pi' = pi + 1 /\ star' = star /\ mark' = mark
  BY OnPath DEF SameComponent, InValue, FitsComponent, PatternIs, InPattern, Both
<1>2. /\ Accepts(F, v, p, "**", "*") /\ Len(v) \in Nat /\ Len(p) \in Nat
      /\ star \in 0 .. Len(p) /\ mark \in 0 .. Len(v) + 1
      /\ glob.level = "path" /\ glob.verdict = "open" /\ Wild = "**" /\ Back = vi
      /\ NothingElse
      /\ <<1, 1>> \in F /\ FollowersOnce => ComponentsAhead
      /\ v[vi] \in Letters \cup {"*"}
  BY <1>1, OnPath
<1>3. vi \in 1 .. Len(v) + 1 /\ vi + 1 \in 1 .. Len(v) + 1 /\ pi + 1 \in 1 .. Len(p) + 1 /\ vi <= Len(v)
  BY <1>1, <1>2
<1>4. F' = F /\ Wild' = Wild /\ FollowersOnce' = FollowersOnce /\ Back' = vi + 1
  BY <1>1, <1>2, SameFits DEF Back
<1>5. p[pi] # "**"
  BY <1>1, <1>2, GlobAssumption
<1>6. <<vi, pi>> \in F <=> vi <= Len(v) /\ p[pi] \in {v[vi], "*"} /\ <<vi + 1, pi + 1>> \in F
  BY <1>1, <1>2, <1>3, <1>5, AtOne
<1>7. star # 0 => star \in 1 .. Len(p) /\ star < pi /\ p[star] = "**" /\ (<<vi, star>> \in F => <<1, 1>> \in F)
  BY <1>2 DEF NothingElse
<1>8. NothingElse'
  <2>1. <<vi', pi'>> \in F' => <<1, 1>> \in F'
    BY <1>1, <1>2, <1>3, <1>4, <1>6 DEF NothingElse
  <2>2. ASSUME star # 0 PROVE /\ star' < pi' /\ glob'.pattern[star'] = Wild' /\ Back' \in 1 .. vi'
                              /\ <<Back', star'>> \in F' => <<1, 1>> \in F'
    <3>1. <<vi + 1, star>> \in F => <<vi, star>> \in F
      BY <1>2, <1>3, <1>7, <2>2, AtWild
    <3> QED
      BY <1>1, <1>2, <1>3, <1>4, <1>7, <2>2, <3>1
  <2> QED
    BY <1>1, <2>1, <2>2 DEF NothingElse
<1>9. NothingMissed'
  <2> SUFFICES ASSUME <<1, 1>> \in F, FollowersOnce PROVE ComponentsAhead'
    BY <1>1, <1>2, <1>4 DEF NothingMissed
  <2>1. <<vi + 1, pi + 1>> \in F
    <3>1. CASE star # 0 /\ pi = star + 1
      <4>1. star \in 1 .. Len(p) /\ star \in 1 .. Len(p) - 1 /\ p[star] = "**" /\ <<vi, star>> \in F
        BY <1>1, <1>2, <1>7, <3>1 DEF ComponentsAhead
      <4>2. PICK k \in vi .. Len(v) + 1 : <<k, star + 1>> \in F
        BY <1>2, <1>3, <4>1, WildFound, Zenon
      <4>3. k \in 1 .. Len(v) + 1 /\ <<k, pi>> \in F
        BY <1>1, <1>2, <3>1, <4>2
      <4>4. <<k, pi>> \in F <=> k <= Len(v) /\ p[pi] \in {v[k], "*"} /\ <<k + 1, pi + 1>> \in F
        <5>1. Accepts(F, v, p, "**", "*") /\ k \in 1 .. Len(v) + 1 /\ pi \in 1 .. Len(p) /\ p[pi] # "**"
          BY <1>1, <1>2, <1>5, <4>3
        <5> QED
          BY <5>1, AtOne
      <4>5. /\ p[star + 1] \in Letters
            /\ \A i, j \in DOMAIN v : v[i] = p[star + 1] /\ v[j] = p[star + 1] => i = j
        BY <4>1 DEF FollowersOnce
      <4>6. p[pi] \in Letters /\ p[pi] # "*"
        BY <3>1, <4>5, GlobAssumption
      <4>7. v[k] = p[star + 1] /\ v[vi] = p[star + 1] /\ k \in 1 .. Len(v)
        BY <1>1, <3>1, <4>3, <4>4, <4>6
      <4>8. DOMAIN v = 1 .. Len(v)
        <5>1. glob.value \in Seq(Letters \cup {"*"})
          BY <1>2, Open
        <5> QED
          BY <5>1, LenProperties
      <4>9. k = vi
        BY <1>1, <4>5, <4>7, <4>8
      <4> QED
        BY <4>3, <4>4, <4>9
    <3>2. CASE ~(star # 0 /\ pi = star + 1)
      <4>1. <<vi, pi>> \in F
        BY <1>2, <3>2 DEF ComponentsAhead
      <4> QED
        BY <1>6, <4>1
    <3> QED
      BY <3>1, <3>2
  <2>2. ~(star' # 0 /\ pi' = star' + 1)
    BY <1>1, <1>2, <1>7
  <2> QED
    BY <1>1, <1>4, <2>1, <2>2 DEF ComponentsAhead
<1> QED
  BY <1>1, <1>2, <1>3, <1>8, <1>9, TurnKeeps

\* Stuck, in the loop over components.
LEMMA StuckComponentFitsNot ==
    ASSUME GlobIInv, StuckComponent
    PROVE  <<vi, pi>> \notin Fitting /\ vi \in 1 .. Len(glob.value) /\ AtPath
<1>1. AtPath /\ Wild = "**" /\ glob.verdict = "open"
  BY DEF StuckComponent, AtPath, Wild
<1> QED
  BY <1>1, StuckFitsNot DEF StuckComponent, FitsComponent

\* The ** takes one more, and what follows it is still ahead.
LEMMA GlobStarTakesOneMoreKeeps ==
    ASSUME GlobIInv, GlobStarTakesOneMore
    PROVE  GlobIInv'
<1> DEFINE v == glob.value
           p == glob.pattern
           F == Fitting
<1>1. /\ AtPath /\ vi \in 1 .. Len(v) /\ <<vi, pi>> \notin F
      /\ star # 0 /\ star' = star /\ mark' = mark /\ pi' = star + 1 /\ vi' = vi + 1 /\ glob' = glob
  BY StuckComponentFitsNot DEF GlobStarTakesOneMore
<1>2. /\ Accepts(F, v, p, "**", "*") /\ Len(v) \in Nat /\ Len(p) \in Nat
      /\ star \in 1 .. Len(p) /\ mark \in 0 .. Len(v) + 1 /\ pi \in 1 .. Len(p) + 1
      /\ glob.level = "path" /\ glob.verdict = "open" /\ Wild = "**" /\ Back = vi
      /\ NothingElse
      /\ <<1, 1>> \in F /\ FollowersOnce => ComponentsAhead
  BY <1>1, OnPath
<1>3. /\ vi \in 1 .. Len(v) + 1 /\ vi + 1 \in 1 .. Len(v) + 1 /\ vi <= Len(v)
      /\ star + 1 \in 1 .. Len(p) + 1
  BY <1>1, <1>2
<1>4. F' = F /\ Wild' = Wild /\ FollowersOnce' = FollowersOnce /\ Back' = vi + 1
  BY <1>1, <1>2, SameFits DEF Back
<1>5. p[star] = "**" /\ (<<vi, star>> \in F => <<1, 1>> \in F)
  BY <1>1, <1>2 DEF NothingElse
<1>6. <<vi, star>> \in F <=> <<vi, star + 1>> \in F \/ (vi <= Len(v) /\ <<vi + 1, star>> \in F)
  BY <1>2, <1>3, <1>5, AtWild
<1>7. <<vi + 1, star + 1>> \in F => <<vi + 1, star>> \in F
  BY <1>2, <1>3, <1>5, AtWild
<1>8. NothingElse'
  BY <1>1, <1>2, <1>3, <1>4, <1>5, <1>6, <1>7 DEF NothingElse
<1>9. NothingMissed'
  <2> SUFFICES ASSUME <<1, 1>> \in F, FollowersOnce PROVE ComponentsAhead'
    BY <1>1, <1>2, <1>4 DEF NothingMissed
  <2>1. pi = star + 1 /\ <<vi, star>> \in F
    BY <1>1, <1>2 DEF ComponentsAhead
  <2>2. <<vi + 1, star>> \in F
    BY <1>1, <1>6, <2>1
  <2> QED
    BY <1>1, <1>4, <2>2 DEF ComponentsAhead
<1> QED
  BY <1>1, <1>2, <1>3, <1>8, <1>9, TurnKeeps

\* Without a ** to go back to, stuck is no match.
LEMMA ComponentsDifferKeeps ==
    ASSUME GlobIInv, ComponentsDiffer
    PROVE  GlobIInv'
<1>1. AtPath /\ <<vi, pi>> \notin Fitting /\ star = 0 /\ Verdict(FALSE)
  BY StuckComponentFitsNot DEF ComponentsDiffer
<1>2. /\ glob.level = "path" /\ glob.verdict = "open"
      /\ <<1, 1>> \in Fitting /\ FollowersOnce => ComponentsAhead
  BY <1>1, OnPath
<1>3. ~(<<1, 1>> \in Fitting /\ FollowersOnce)
  BY <1>1, <1>2 DEF ComponentsAhead
<1> QED
  BY <1>1, <1>2, <1>3, VerdictKeeps

\* At the end of the path only ** may be left.
LEMMA PathEndsKeeps ==
    ASSUME GlobIInv, PathEnds
    PROVE  GlobIInv'
<1> DEFINE v == glob.value
           p == glob.pattern
           F == Fitting
           b == RestIsWild("**")
<1>1. AtPath /\ Verdict(b) /\ ~InValue
  BY DEF PathEnds
<1>2. /\ Accepts(F, v, p, "**", "*") /\ Len(v) \in Nat /\ Len(p) \in Nat
      /\ star \in 0 .. Len(p) /\ pi \in 1 .. Len(p) + 1 /\ vi = Len(v) + 1
      /\ glob.level = "path" /\ glob.verdict = "open" /\ Wild = "**" /\ Back = vi
      /\ NothingElse
      /\ <<1, 1>> \in F /\ FollowersOnce => ComponentsAhead
  BY <1>1, OnPath DEF InValue
<1>3. b <=> <<vi, pi>> \in F
  <2>1. /\ Accepts(F, v, p, "**", "*") /\ Len(v) \in Nat /\ Len(p) \in Nat
        /\ pi \in 1 .. Len(p) + 1
    BY <1>2
  <2>2. <<Len(v) + 1, pi>> \in F <=> \A k \in pi .. Len(p) : p[k] = "**"
    BY <2>1, EndFits
  <2> QED
    BY <1>2, <2>2 DEF RestIsWild
<1>4. b => <<1, 1>> \in F
  BY <1>2, <1>3 DEF NothingElse
<1>5. ASSUME <<1, 1>> \in F, FollowersOnce PROVE b
  <2>1. ComponentsAhead
    BY <1>2, <1>5
  <2>2. CASE star # 0 /\ pi = star + 1
    <3>1. star \in 1 .. Len(p) /\ p[star] = "**" /\ <<vi, star>> \in F
      BY <1>2, <2>1, <2>2 DEF ComponentsAhead, NothingElse
    <3>2. vi \in 1 .. Len(v) + 1 /\ ~(vi <= Len(v))
      BY <1>2
    <3>3. <<vi, star>> \in F <=> <<vi, star + 1>> \in F \/ (vi <= Len(v) /\ <<vi + 1, star>> \in F)
      BY <1>2, <3>1, <3>2, AtWild
    <3>4. <<vi, star + 1>> \in F
      BY <3>1, <3>2, <3>3
    <3> QED
      BY <1>3, <2>2, <3>4
  <2>3. CASE ~(star # 0 /\ pi = star + 1)
    BY <1>3, <2>1, <2>3 DEF ComponentsAhead
  <2> QED
    BY <2>2, <2>3
<1>6. b \in BOOLEAN
  BY DEF RestIsWild
<1> HIDE DEF b
<1> QED
  BY <1>1, <1>2, <1>4, <1>5, <1>6, VerdictKeeps

\* Every turn of the two loops keeps the invariant.
LEMMA GlobStep == GlobIInv /\ [GlobNext]_globVars => GlobIInv'
<1> SUFFICES ASSUME GlobIInv, [GlobNext]_globVars PROVE GlobIInv'
  OBVIOUS
<1>1. CASE GlobNext
  BY <1>1, SameByteKeeps, StarKeeps, StarTakesOneMoreKeeps, BytesDifferKeeps, ComponentEndsKeeps,
     GlobStarKeeps, SameComponentKeeps, GlobStarTakesOneMoreKeeps, ComponentsDifferKeeps, PathEndsKeeps
     DEF GlobNext
<1>2. CASE UNCHANGED globVars
  <2>1. /\ glob' = glob /\ vi' = vi /\ pi' = pi /\ star' = star /\ mark' = mark
    BY <1>2 DEF globVars
  <2>2. /\ GlobTypeOK' <=> GlobTypeOK
        /\ MatchesAsMeant' <=> MatchesAsMeant
        /\ (NothingElse /\ NothingMissed)' <=> NothingElse /\ NothingMissed
    BY <2>1 DEF GlobTypeOK, MatchesAsMeant, ComponentsAsMeant, PathsAsMeant, PathMeant, Trivial,
                FollowersOnce, NothingElse, NothingMissed, BytesAhead, ComponentsAhead, Back, Wild, Fitting
  <2> QED
    BY <2>1, <2>2 DEF GlobIInv, GlobRecords, Trivial
<1> QED
  BY <1>1, <1>2

LEMMA GlobInvariance == GlobSpec => []GlobIInv
  BY GlobInitially, GlobStep, PTL DEF GlobSpec

\* No index of the matcher leaves its text or its pattern.
THEOREM GlobTypeCorrect == GlobSpec => []GlobTypeOK
  BY GlobInvariance, PTL DEF GlobIInv

\* Both loops of the policy's matcher: what matches is meant by the pattern, and
\* what is meant matches, where the code does not promise less (ComponentsAsMeant,
\* PathsAsMeant), for any letters and inputs of any length.
THEOREM GlobMeans == GlobSpec => []MatchesAsMeant
<1>1. GlobIInv => MatchesAsMeant
  BY DEF GlobIInv
<1> QED
  BY <1>1, GlobInvariance, PTL
===============================================================================
