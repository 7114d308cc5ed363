----------------------------- MODULE DialProofs ------------------------------
(***************************************************************************)
(* What every dial keeps, for any number of callers sharing the client and *)
(* any attempts and concurrency they ask for: the mutex is never lost, no  *)
(* stream is left behind, the budget is spent exactly and the verdict      *)
(* follows the echo.                                                       *)
(***************************************************************************)
EXTENDS Dial, SequenceTheorems, FiniteSetTheorems, WellFoundedInduction, TLAPS

-----------------------------------------------------------------------------
(* Induction over the naturals, stated of sets. *)

LEMMA LeastNat ==
    ASSUME NEW T \in SUBSET Nat, T # {}
    PROVE  \E n \in T : \A m \in T : ~ (m < n)
<1> DEFINE R == OpToRel(<, Nat)
<1>1. IsWellFoundedOn(R, Nat)
  BY NatLessThanWellFounded
<1>2. PICK n \in T : \A m \in T : ~ (<<m, n>> \in R)
  <2> HIDE DEF R
  <2> QED BY <1>1, WFMin
<1>3. ASSUME NEW m \in T, m < n PROVE <<m, n>> \in R
  BY <1>3 DEF OpToRel
<1> QED BY <1>2, <1>3

LEMMA SetInduction ==
    ASSUME NEW T, 0 \in T, \A n \in Nat : n \in T => n + 1 \in T
    PROVE  \A n \in Nat : n \in T
<1> SUFFICES ASSUME NEW k \in Nat, k \notin T PROVE FALSE
  OBVIOUS
<1>1. PICK n \in Nat \ T : \A m \in Nat \ T : ~ (m < n)
  <2>1. Nat \ T \in SUBSET Nat /\ Nat \ T # {}
    OBVIOUS
  <2> QED BY <2>1, LeastNat
<1>2. n - 1 \in Nat /\ n - 1 < n
  <2>1. n # 0
    BY <1>1
  <2> QED BY <2>1
<1>3. n - 1 \in T
  BY <1>1, <1>2
<1> QED BY <1>1, <1>2, <1>3

-----------------------------------------------------------------------------
(* Sums. *)

\* f holds the sums of the first 0, 1, ... n of the counts.
Sums(f, counts, n) ==
    f = [k \in 0..n |-> IF k = 0 THEN 0 ELSE f[k - 1] + counts[k]]

LEMMA SumsExist ==
    ASSUME NEW c \in Seq(Int)
    PROVE  \A n \in Nat : n <= Len(c) => \E f \in [0..n -> Int] : Sums(f, c, n)
<1> DEFINE T == {n \in Nat : n <= Len(c) => \E f \in [0..n -> Int] : Sums(f, c, n)}
<1>1. 0 \in T
  <2> DEFINE f == [k \in 0..0 |-> 0]
  <2>1. f \in [0..0 -> Int] /\ Sums(f, c, 0)
    BY DEF Sums
  <2> QED BY <2>1
<1>2. ASSUME NEW n \in Nat, n \in T PROVE n + 1 \in T
  <2> SUFFICES ASSUME n + 1 <= Len(c)
               PROVE  \E g \in [0..n + 1 -> Int] : Sums(g, c, n + 1)
    OBVIOUS
  <2>1. Len(c) \in Nat /\ n + 1 \in 1..Len(c) /\ c[n + 1] \in Int
    BY LenProperties, ElementOfSeq
  <2>2. PICK f \in [0..n -> Int] : Sums(f, c, n)
    BY <1>2, <2>1
  <2> DEFINE g == [k \in 0..n + 1 |-> IF k = n + 1 THEN f[n] + c[n + 1] ELSE f[k]]
  <2>3. g \in [0..n + 1 -> Int]
    BY <2>1, <2>2
  <2>4. ASSUME NEW k \in 0..n + 1 PROVE g[k] = IF k = 0 THEN 0 ELSE g[k - 1] + c[k]
    <3>1. CASE k = n + 1
      BY <3>1
    <3>2. CASE k \in 0..n
      <4>1. f[k] = IF k = 0 THEN 0 ELSE f[k - 1] + c[k]
        BY <2>2, <3>2 DEF Sums
      <4>2. g[k] = f[k]
        BY <3>2
      <4>3. k # 0 => k - 1 \in 0..n + 1 /\ k - 1 # n + 1 /\ g[k - 1] = f[k - 1]
        BY <3>2
      <4> QED BY <4>1, <4>2, <4>3
    <3> QED BY <3>1, <3>2
  <2>5. Sums(g, c, n + 1)
    BY <2>3, <2>4 DEF Sums
  <2> QED BY <2>3, <2>5
<1>3. \A n \in Nat : n \in T
  <2> HIDE DEF T
  <2> QED BY <1>1, <1>2, SetInduction
<1> QED BY <1>3

LEMMA SumsAgree ==
    ASSUME NEW m \in Nat, NEW n \in Nat, NEW c, NEW e, NEW f, NEW g, Sums(f, c, m), Sums(g, e, n)
    PROVE  \A k \in Nat : k <= m /\ k <= n /\ (\A j \in 1..k : c[j] = e[j]) => f[k] = g[k]
<1> DEFINE T == {k \in Nat : k <= m /\ k <= n /\ (\A j \in 1..k : c[j] = e[j]) => f[k] = g[k]}
<1>1. 0 \in T
  BY DEF Sums
<1>2. ASSUME NEW k \in Nat, k \in T PROVE k + 1 \in T
  <2> SUFFICES ASSUME k + 1 <= m, k + 1 <= n, \A j \in 1..k + 1 : c[j] = e[j]
               PROVE  f[k + 1] = g[k + 1]
    OBVIOUS
  <2>1. k + 1 \in 0..m /\ k + 1 \in 0..n /\ k + 1 # 0 /\ k + 1 \in 1..k + 1 /\ k + 1 - 1 = k
    OBVIOUS
  <2>2. f[k + 1] = f[k] + c[k + 1]
    BY <2>1 DEF Sums
  <2>3. g[k + 1] = g[k] + e[k + 1]
    BY <2>1 DEF Sums
  <2>4. f[k] = g[k]
    <3>1. \A j \in 1..k : c[j] = e[j]
      OBVIOUS
    <3> QED BY <1>2, <3>1
  <2> QED BY <2>1, <2>2, <2>3, <2>4
<1>3. \A k \in Nat : k \in T
  <2> HIDE DEF T
  <2> QED BY <1>1, <1>2, SetInduction
<1> QED BY <1>3

LEMMA TotalIsTheLastSum ==
    ASSUME NEW c \in Seq(Int), NEW n \in Nat, n = Len(c)
    PROVE  \E f : Sums(f, c, n) /\ Total(c) = f[n] /\ f[n] \in Int
<1>2. PICK f \in [0..n -> Int] : Sums(f, c, n)
  BY SumsExist
<1> DEFINE g == CHOOSE s : s = [k \in 0..Len(c) |-> IF k = 0 THEN 0 ELSE s[k - 1] + c[k]]
<1>3. Sums(g, c, n)
  BY <1>2 DEF Sums
<1>4. Total(c) = g[n]
  BY DEF Total
<1>5. g[n] = f[n]
  <2> HIDE DEF g
  <2> QED BY <1>2, <1>3, SumsAgree
<1>6. n \in 0..n
  OBVIOUS
<1>7. f[n] \in Int
  BY <1>2, <1>6
<1> HIDE DEF g
<1> QED BY <1>2, <1>4, <1>5, <1>7

LEMMA TotalOfNone == Total(<<>>) = 0
<1>1. <<>> \in Seq(Int) /\ 0 = Len(<<>>)
  OBVIOUS
<1>2. PICK f : Sums(f, <<>>, 0) /\ Total(<<>>) = f[0]
  BY <1>1, TotalIsTheLastSum
<1> QED BY <1>2 DEF Sums

\* The last count comes on top of the total of those before it.
LEMMA TotalOfOneMore ==
    ASSUME NEW n \in Nat, NEW b \in Seq(Int), n = Len(b), NEW c \in Seq(Int), n + 1 = Len(c),
           \A k \in 1..n : b[k] = c[k]
    PROVE  /\ Total(b) \in Int /\ Total(c) \in Int
           /\ Total(c) = Total(b) + c[n + 1]
<1>2. PICK f : Sums(f, b, n) /\ Total(b) = f[n] /\ f[n] \in Int
  BY TotalIsTheLastSum
<1>3. PICK g : Sums(g, c, n + 1) /\ Total(c) = g[n + 1] /\ g[n + 1] \in Int
  BY TotalIsTheLastSum
<1>4. f[n] = g[n]
  <2>1. n + 1 \in Nat
    OBVIOUS
  <2>2. \A k \in Nat : k <= n /\ k <= n + 1 /\ (\A j \in 1..k : b[j] = c[j]) => f[k] = g[k]
    BY <1>2, <1>3, <2>1, SumsAgree
  <2> QED BY <2>2
<1>5. g[n + 1] = g[n] + c[n + 1]
  BY <1>3 DEF Sums
<1> QED BY <1>2, <1>3, <1>4, <1>5

LEMMA SubSeqToLast ==
    ASSUME NEW S, NEW c \in Seq(S), NEW n \in Nat, n = Len(c), n > 0
    PROVE  /\ SubSeq(c, 1, n - 1) \in Seq(S) /\ n - 1 = Len(SubSeq(c, 1, n - 1))
           /\ \A k \in 1..n - 1 : SubSeq(c, 1, n - 1)[k] = c[k]
<1>1. 1 \in Int /\ n - 1 \in Int /\ \A i \in 1..n - 1 : c[i] \in S
  BY ElementOfSeq
<1>2. /\ SubSeq(c, 1, n - 1) \in Seq(S)
      /\ Len(SubSeq(c, 1, n - 1)) = IF 1 <= n - 1 THEN n - 1 - 1 + 1 ELSE 0
      /\ \A i \in 1..n - 1 - 1 + 1 : SubSeq(c, 1, n - 1)[i] = c[1 + i - 1]
  BY <1>1, SubSeqProperties
<1> QED BY <1>2

\* Counts that differ in the last one only have totals that differ by as much.
LEMMA TotalOfAnotherLast ==
    ASSUME NEW n \in Nat \ {0}, NEW c \in Seq(Int), n = Len(c), NEW e \in Seq(Int), n = Len(e),
           \A k \in 1..n - 1 : c[k] = e[k]
    PROVE  Total(c) \in Int /\ Total(e) = Total(c) - c[n] + e[n]
<1> DEFINE b == SubSeq(c, 1, n - 1)
<1>1. b \in Seq(Int) /\ n - 1 = Len(b) /\ \A k \in 1..n - 1 : b[k] = c[k]
  BY SubSeqToLast
<1>2. n - 1 \in Nat /\ n - 1 + 1 = n /\ c[n] \in Int /\ e[n] \in Int
  <2>1. n \in 1..Len(c) /\ n \in 1..Len(e)
    OBVIOUS
  <2>2. c[n] \in Int /\ e[n] \in Int
    BY <2>1, ElementOfSeq
  <2> QED BY <2>2
<1>3. \A k \in 1..n - 1 : b[k] = e[k]
  BY <1>1
<1> HIDE DEF b
<1>4. /\ Total(b) \in Int /\ Total(c) \in Int
      /\ Total(c) = Total(b) + c[n]
  <2>1. /\ Total(b) \in Int /\ Total(c) \in Int
        /\ Total(c) = Total(b) + c[n - 1 + 1]
    BY <1>1, <1>2, TotalOfOneMore
  <2> QED BY <1>2, <2>1
<1>5. Total(e) = Total(b) + e[n]
  <2>1. Total(e) = Total(b) + e[n - 1 + 1]
    BY <1>1, <1>2, <1>3, TotalOfOneMore
  <2> QED BY <1>2, <2>1
<1> QED BY <1>2, <1>4, <1>5

LEMMA TotalIsNat ==
    ASSUME NEW c \in Seq(Nat)
    PROVE  Total(c) \in Nat
<1> DEFINE n == Len(c)
<1>1. c \in Seq(Int) /\ n \in Nat
  BY SeqMonotonic, LenProperties
<1>2. PICK f : Sums(f, c, n) /\ Total(c) = f[n]
  BY <1>1, TotalIsTheLastSum
<1> DEFINE T == {k \in Nat : k <= n => f[k] \in Nat}
<1>3. 0 \in T
  BY <1>1, <1>2 DEF Sums
<1>4. ASSUME NEW k \in Nat, k \in T PROVE k + 1 \in T
  <2> SUFFICES ASSUME k + 1 <= n PROVE f[k + 1] \in Nat
    OBVIOUS
  <2>1. k + 1 \in 0..n /\ k + 1 # 0 /\ k + 1 - 1 = k /\ k <= n /\ k + 1 \in 1..Len(c)
    BY <1>1
  <2>2. c[k + 1] \in Nat
    BY <2>1, ElementOfSeq
  <2>3. f[k + 1] = f[k] + c[k + 1]
    BY <1>2, <2>1 DEF Sums
  <2> QED BY <1>4, <2>1, <2>2, <2>3
<1>5. \A k \in Nat : k \in T
  <2> HIDE DEF T
  <2> QED BY <1>3, <1>4, SetInduction
<1> QED BY <1>1, <1>2, <1>5

\* Counts that are sums have a total that is the sum of the totals.
LEMMA TotalsAdd ==
    ASSUME NEW n \in Nat, NEW a \in Seq(Int), n = Len(a), NEW b \in Seq(Int), n = Len(b),
           NEW c \in Seq(Int), n = Len(c), \A i \in 1..n : a[i] = b[i] + c[i]
    PROVE  /\ Total(a) \in Int /\ Total(b) \in Int /\ Total(c) \in Int
           /\ Total(a) = Total(b) + Total(c)
<1>1. PICK f : Sums(f, a, n) /\ Total(a) = f[n] /\ f[n] \in Int
  BY TotalIsTheLastSum
<1>2. PICK g : Sums(g, b, n) /\ Total(b) = g[n] /\ g[n] \in Int
  BY TotalIsTheLastSum
<1>3. PICK h : Sums(h, c, n) /\ Total(c) = h[n] /\ h[n] \in Int
  BY TotalIsTheLastSum
<1> DEFINE T == {k \in Nat : k <= n => f[k] = g[k] + h[k] /\ g[k] \in Int /\ h[k] \in Int}
<1>4. 0 \in T
  BY <1>1, <1>2, <1>3 DEF Sums
<1>5. ASSUME NEW k \in Nat, k \in T PROVE k + 1 \in T
  <2> SUFFICES ASSUME k + 1 <= n
               PROVE  f[k + 1] = g[k + 1] + h[k + 1] /\ g[k + 1] \in Int /\ h[k + 1] \in Int
    OBVIOUS
  <2>1. k + 1 \in 0..n /\ k + 1 # 0 /\ k + 1 - 1 = k /\ k <= n /\ k + 1 \in 1..n
    OBVIOUS
  <2>2. f[k] = g[k] + h[k] /\ g[k] \in Int /\ h[k] \in Int
    BY <1>5, <2>1
  <2>3. f[k + 1] = f[k] + a[k + 1]
    BY <1>1, <2>1 DEF Sums
  <2>4. g[k + 1] = g[k] + b[k + 1]
    BY <1>2, <2>1 DEF Sums
  <2>5. h[k + 1] = h[k] + c[k + 1]
    BY <1>3, <2>1 DEF Sums
  <2>6. b[k + 1] \in Int /\ c[k + 1] \in Int
    BY <2>1, ElementOfSeq
  <2>7. a[k + 1] = b[k + 1] + c[k + 1]
    BY <2>1
  <2> DEFINE g0 == g[k]  h0 == h[k]  bk == b[k + 1]  ck == c[k + 1]
             f1 == f[k + 1]  g1 == g[k + 1]  h1 == h[k + 1]  ak == a[k + 1]  f0 == f[k]
  <2>8. g0 \in Int /\ h0 \in Int /\ bk \in Int /\ ck \in Int
    BY <2>2, <2>6, Zenon
  <2>9. f1 = f0 + ak /\ g1 = g0 + bk /\ h1 = h0 + ck /\ ak = bk + ck /\ f0 = g0 + h0
    BY <2>2, <2>3, <2>4, <2>5, <2>7, Zenon
  <2>10. f1 = g1 + h1 /\ g1 \in Int /\ h1 \in Int
    <3> HIDE DEF g0, h0, bk, ck, f1, g1, h1, ak, f0
    <3> QED BY <2>8, <2>9
  <2> QED BY <2>10
<1>6. \A k \in Nat : k \in T
  <2> HIDE DEF T
  <2> QED BY <1>4, <1>5, SetInduction
<1> QED BY <1>1, <1>2, <1>3, <1>6

\* No count is more than the total of all.
LEMMA PartOfTotal ==
    ASSUME NEW n \in Nat, NEW c \in Seq(Nat), n = Len(c)
    PROVE  /\ Total(c) \in Nat
           /\ \A i \in 1..n : c[i] <= Total(c)
           /\ (\A i \in 1..n : c[i] = 0) => Total(c) = 0
<1>1. c \in Seq(Int) /\ Total(c) \in Nat
  BY SeqMonotonic, TotalIsNat
<1>2. PICK f : Sums(f, c, n) /\ Total(c) = f[n] /\ f[n] \in Int
  BY <1>1, TotalIsTheLastSum
<1> DEFINE T == {k \in Nat : k <= n =>
                    /\ f[k] \in Nat /\ \A i \in 1..k : c[i] <= f[k]
                    /\ (\A i \in 1..n : c[i] = 0) => f[k] = 0}
<1>3. 0 \in T
  <2>1. f[0] = 0
    BY <1>2 DEF Sums
  <2> QED BY <2>1
<1>4. ASSUME NEW k \in Nat, k \in T PROVE k + 1 \in T
  <2> SUFFICES ASSUME k + 1 <= n
               PROVE  /\ f[k + 1] \in Nat /\ \A i \in 1..k + 1 : c[i] <= f[k + 1]
                      /\ (\A i \in 1..n : c[i] = 0) => f[k + 1] = 0
    OBVIOUS
  <2>1. k + 1 \in 0..n /\ k + 1 # 0 /\ k + 1 - 1 = k /\ k <= n /\ k + 1 \in 1..n
    OBVIOUS
  <2>2. /\ f[k] \in Nat /\ \A i \in 1..k : c[i] <= f[k]
        /\ (\A i \in 1..n : c[i] = 0) => f[k] = 0
    BY <1>4, <2>1
  <2>3. f[k + 1] = f[k] + c[k + 1]
    BY <1>2, <2>1 DEF Sums
  <2>4. \A i \in 1..n : c[i] \in Nat
    BY ElementOfSeq
  <2>5. ASSUME NEW i \in 1..k + 1 PROVE c[i] <= f[k + 1]
    <3>1. CASE i = k + 1
      BY <2>1, <2>2, <2>3, <2>4, <3>1
    <3>2. CASE i \in 1..k
      <4>1. c[i] <= f[k] /\ c[i] \in Nat /\ c[k + 1] \in Nat
        BY <2>1, <2>2, <2>4, <3>2
      <4> QED BY <2>2, <2>3, <4>1
    <3> QED BY <3>1, <3>2
  <2> QED BY <2>1, <2>2, <2>3, <2>4, <2>5
<1>5. \A k \in Nat : k \in T
  <2> HIDE DEF T
  <2> QED BY <1>3, <1>4, SetInduction
<1> QED BY <1>1, <1>2, <1>5

-----------------------------------------------------------------------------
(* Rounds. *)

Round == [opened : Nat, refused : Nat, unanswered : Nat, answered : BOOLEAN]

LEMMA AttemptedIsNat == ASSUME NEW r \in Round PROVE Attempted(r) \in Nat
BY DEF Round, Attempted

LEMMA AttemptedSeq ==
    ASSUME NEW rs \in Seq(Round)
    PROVE  /\ [i \in DOMAIN rs |-> Attempted(rs[i])] \in Seq(Nat)
           /\ Len([i \in DOMAIN rs |-> Attempted(rs[i])]) = Len(rs)
           /\ \A i \in 1..Len(rs) : [j \in DOMAIN rs |-> Attempted(rs[j])][i] = Attempted(rs[i])
<1>1. Len(rs) \in Nat /\ DOMAIN rs = 1..Len(rs)
  BY LenProperties
<1>2. \A i \in 1..Len(rs) : Attempted(rs[i]) \in Nat
  BY ElementOfSeq, AttemptedIsNat
<1> QED BY <1>1, <1>2

LEMMA AttemptedInIsNat == ASSUME NEW rs \in Seq(Round) PROVE AttemptedIn(rs) \in Nat
BY AttemptedSeq, TotalIsNat DEF AttemptedIn

\* A round that has not begun costs nothing yet.
LEMMA AttemptedInWithFresh ==
    ASSUME NEW rs \in Seq(Round)
    PROVE  AttemptedIn(Append(rs, Fresh)) = AttemptedIn(rs)
<1> DEFINE n == Len(rs)
           more == Append(rs, Fresh)
           b == [i \in DOMAIN rs |-> Attempted(rs[i])]
           c == [i \in DOMAIN more |-> Attempted(more[i])]
<1>1. Fresh \in Round /\ Attempted(Fresh) = 0
  BY DEF Fresh, Round, Attempted
<1>2. /\ n \in Nat /\ more \in Seq(Round) /\ Len(more) = n + 1
      /\ more[n + 1] = Fresh /\ \A i \in 1..n : more[i] = rs[i]
  BY <1>1, AppendProperties, LenProperties
<1>3. /\ b \in Seq(Nat) /\ n = Len(b) /\ \A i \in 1..n : b[i] = Attempted(rs[i])
  BY AttemptedSeq
<1>4. /\ c \in Seq(Nat) /\ Len(c) = Len(more) /\ \A i \in 1..Len(more) : c[i] = Attempted(more[i])
  <2> HIDE DEF more
  <2> QED BY <1>2, AttemptedSeq
<1>5. b \in Seq(Int) /\ c \in Seq(Int)
  <2> HIDE DEF b, c
  <2> QED BY <1>3, <1>4, SeqMonotonic
<1>6. n + 1 = Len(c) /\ c[n + 1] = 0 /\ \A i \in 1..n : b[i] = c[i]
  <2> HIDE DEF b, c, more
  <2> QED BY <1>1, <1>2, <1>3, <1>4
<1>7. Total(b) \in Int /\ Total(c) = Total(b) + 0
  <2> HIDE DEF b, c, more, n
  <2> QED BY <1>2, <1>3, <1>5, <1>6, TotalOfOneMore
<1>8. AttemptedIn(rs) = Total(b) /\ AttemptedIn(more) = Total(c)
  BY DEF AttemptedIn
<1> HIDE DEF b, c
<1> QED BY <1>7, <1>8

LEMMA AttemptedInAmended ==
    ASSUME NEW rs \in Seq(Round), rs # <<>>, NEW r \in Round
    PROVE  AttemptedIn([rs EXCEPT ![Len(rs)] = r])
               = AttemptedIn(rs) - Attempted(rs[Len(rs)]) + Attempted(r)
<1> DEFINE n == Len(rs)
           new == [rs EXCEPT ![n] = r]
           b == [i \in DOMAIN rs |-> Attempted(rs[i])]
           c == [i \in DOMAIN new |-> Attempted(new[i])]
<1>1. n \in Nat \ {0} /\ n \in 1..n
  BY EmptySeq
<1>2. /\ new \in Seq(Round) /\ Len(new) = n
      /\ new[n] = r /\ \A i \in 1..n - 1 : new[i] = rs[i]
  BY <1>1, ExceptSeq
<1>3. /\ b \in Seq(Nat) /\ n = Len(b) /\ \A i \in 1..n : b[i] = Attempted(rs[i])
  BY AttemptedSeq
<1>4. /\ c \in Seq(Nat) /\ n = Len(c) /\ \A i \in 1..n : c[i] = Attempted(new[i])
  <2> HIDE DEF new
  <2> QED BY <1>2, AttemptedSeq
<1>5. b \in Seq(Int) /\ c \in Seq(Int)
  <2> HIDE DEF b, c
  <2> QED BY <1>3, <1>4, SeqMonotonic
<1>6. b[n] = Attempted(rs[n]) /\ c[n] = Attempted(r) /\ \A i \in 1..n - 1 : b[i] = c[i]
  <2> HIDE DEF b, c, new
  <2> QED BY <1>1, <1>2, <1>3, <1>4
<1>7. Total(c) = Total(b) - b[n] + c[n]
  <2> HIDE DEF b, c, new, n
  <2> QED BY <1>1, <1>3, <1>4, <1>5, <1>6, TotalOfAnotherLast
<1>8. AttemptedIn(rs) = Total(b) /\ AttemptedIn(new) = Total(c)
  BY DEF AttemptedIn
<1> HIDE DEF b, c
<1> QED BY <1>6, <1>7, <1>8

-----------------------------------------------------------------------------
(* The inductive invariant. *)

Wanting == {"locking", "opening"}

\* The streams of a dial: registered while it owns them, and owned while it needs them.
StreamsOK(d) ==
    /\ Owned(d) \subseteq live
    /\ pc[d] = "returned" => \E k \in held[d] : held[d] = {k}
    /\ pc[d] = "probing" => held[d] # {}
    /\ pc[d] \in {"idle", "gave_up"} \cup Over => held[d] = {}

\* The budget of a dial, with what the round under way may still spend of it.
BudgetOK(d) ==
    /\ pc[d] # "idle" =>
           /\ rounds[d] # <<>>
           /\ AttemptedIn(rounds[d]) + left[d] + remaining[d] = Budget(d)
           /\ \A i \in 1..Len(rounds[d]) : Attempted(rounds[d][i]) <= Width(d)
           /\ Attempted(rounds[d][Len(rounds[d])]) + left[d] <= Width(d)
    /\ pc[d] \in Wanting => left[d] > 0
    /\ pc[d] \in {"probing"} \cup Resolved => left[d] = 0
    /\ pc[d] = "gave_up" => remaining[d] = 0

\* An echo came back on a stream that is being probed, or that was returned.
EchoOK(d) ==
    /\ \A k \in 1..MaxAttempts : reply[<<d, k>>] = "own" =>
           \/ pc[d] = "probing" /\ k \in held[d]
           \/ pc[d] \in {"returned"} \cup Over
    /\ pc[d] = "returned" /\ Probe(d) => \A k \in held[d] : reply[<<d, k>>] = "own"

DialInv ==
    /\ DialTypeOK
    /\ \A s \in live : s[2] \in held[s[1]] \/ Orphan(s)
    /\ \A d \in Dials : StreamsOK(d) /\ BudgetOK(d) /\ EchoOK(d)

-----------------------------------------------------------------------------
(* The mutex. *)

\* The queue holds every dial of a set once.
Queues(q, dials) ==
    /\ q \in Seq(Dials)
    /\ \A i, j \in DOMAIN q : q[i] = q[j] => i = j
    /\ \A d \in Dials : d \in dials <=> \E i \in DOMAIN q : q[i] = d

MutexOK ==
    /\ Queues(queue, {d \in Dials : pc[d] \in Wanting})
    /\ \A d \in Dials : pc[d] = "opening" => Head(queue) = d

\* Whoever holds the mutex is in its queue.
LEMMA HolderQueues ==
    ASSUME MutexOK, NEW e \in Dials, pc[e] = "opening"
    PROVE  queue # <<>> /\ Head(queue) = e
<1>1. PICK i \in DOMAIN queue : queue[i] = e
  BY DEF MutexOK, Queues, Wanting
<1>2. queue # <<>>
  BY <1>1, EmptySeq, LenProperties DEF MutexOK, Queues
<1> QED BY <1>2 DEF MutexOK

LEMMA JoinQueue ==
    ASSUME NEW q, NEW W, Queues(q, W), NEW d \in Dials, d \notin W
    PROVE  /\ Queues(Append(q, d), W \cup {d})
           /\ q # <<>> => Head(Append(q, d)) = Head(q)
<1>1. /\ Append(q, d) \in Seq(Dials) /\ Len(q) \in Nat /\ Len(Append(q, d)) = Len(q) + 1
      /\ \A i \in 1..Len(q) : Append(q, d)[i] = q[i]
      /\ Append(q, d)[Len(q) + 1] = d
      /\ DOMAIN q = 1..Len(q) /\ DOMAIN Append(q, d) = 1..Len(q) + 1
  BY AppendProperties, LenProperties DEF Queues
<1>2. \A i \in 1..Len(q) : q[i] # d
  BY <1>1 DEF Queues
<1>3. \A i, j \in DOMAIN Append(q, d) : Append(q, d)[i] = Append(q, d)[j] => i = j
  BY <1>1, <1>2 DEF Queues
<1>4. ASSUME NEW e \in Dials
      PROVE  e \in W \cup {d} <=> \E i \in DOMAIN Append(q, d) : Append(q, d)[i] = e
  <2>1. CASE e = d
    BY <1>1, <2>1
  <2>2. CASE e # d
    <3>1. e \in W <=> \E i \in 1..Len(q) : q[i] = e
      BY <1>1 DEF Queues
    <3>2. ASSUME NEW i \in 1..Len(q) + 1, Append(q, d)[i] = e PROVE i \in 1..Len(q) /\ q[i] = e
      BY <1>1, <2>2, <3>2
    <3>3. ASSUME NEW i \in 1..Len(q), q[i] = e PROVE i \in 1..Len(q) + 1 /\ Append(q, d)[i] = e
      BY <1>1, <3>3
    <3> QED BY <1>1, <2>2, <3>1, <3>2, <3>3
  <2> QED BY <2>1, <2>2
<1>5. q # <<>> => Head(Append(q, d)) = Head(q)
  BY HeadTailAppend DEF Queues
<1> QED BY <1>1, <1>3, <1>4, <1>5 DEF Queues

LEMMA LeaveFront ==
    ASSUME NEW q, NEW W, Queues(q, W), q # <<>>
    PROVE  Queues(Tail(q), W \ {Head(q)})
<1>1. /\ q \in Seq(Dials) /\ Len(q) \in Nat \ {0} /\ DOMAIN q = 1..Len(q)
      /\ Head(q) = q[1]
  BY EmptySeq, LenProperties, HeadTailProperties DEF Queues
<1>2. /\ Tail(q) \in Seq(Dials) /\ Len(Tail(q)) = Len(q) - 1
      /\ \A i \in 1..Len(Tail(q)) : Tail(q)[i] = q[i + 1]
      /\ DOMAIN Tail(q) = 1..Len(Tail(q))
  BY <1>1, HeadTailProperties, LenProperties
<1>3. \A i, j \in DOMAIN Tail(q) : Tail(q)[i] = Tail(q)[j] => i = j
  <2> SUFFICES ASSUME NEW i \in 1..Len(Tail(q)), NEW j \in 1..Len(Tail(q)), Tail(q)[i] = Tail(q)[j]
               PROVE  i = j
    BY <1>2
  <2>1. i + 1 \in DOMAIN q /\ j + 1 \in DOMAIN q /\ q[i + 1] = q[j + 1]
    BY <1>1, <1>2
  <2>2. i + 1 = j + 1
    BY <2>1 DEF Queues
  <2> QED BY <2>2
<1>4. ASSUME NEW e \in Dials
      PROVE  e \in W \ {Head(q)} <=> \E i \in DOMAIN Tail(q) : Tail(q)[i] = e
  <2>1. ASSUME NEW i \in DOMAIN Tail(q), Tail(q)[i] = e PROVE e \in W /\ e # Head(q)
    <3>1. i + 1 \in DOMAIN q /\ q[i + 1] = e /\ 1 \in DOMAIN q /\ i + 1 # 1
      BY <1>1, <1>2, <2>1
    <3> QED BY <1>1, <3>1 DEF Queues
  <2>2. ASSUME e \in W, e # Head(q) PROVE \E i \in DOMAIN Tail(q) : Tail(q)[i] = e
    <3>1. PICK i \in DOMAIN q : q[i] = e
      BY <2>2 DEF Queues
    <3>2. i - 1 \in 1..Len(Tail(q)) /\ i - 1 + 1 = i
      BY <1>1, <1>2, <2>2, <3>1
    <3> QED BY <1>2, <3>1, <3>2
  <2> QED BY <2>1, <2>2
<1> QED BY <1>2, <1>3, <1>4 DEF Queues

LEMMA LeaveQueue ==
    ASSUME NEW W, Queues(queue, W), NEW d \in Dials
    PROVE  /\ Queues(Without(d), W \ {d})
           /\ queue # <<>> /\ Head(queue) # d => Head(Without(d)) = Head(queue)
<1>1. /\ queue \in Seq(Dials) /\ Len(queue) \in Nat /\ DOMAIN queue = 1..Len(queue)
  BY LenProperties DEF Queues
<1>2. CASE d \notin W
  <2>1. ~ \E i \in DOMAIN queue : queue[i] = d
    BY <1>2 DEF Queues
  <2> QED BY <1>2, <2>1 DEF Without, Queues
<1>3. CASE d \in W
  <2> DEFINE p == CHOOSE i \in DOMAIN queue : queue[i] = d
             r == Without(d)
             front == SubSeq(queue, 1, p - 1)
             back == SubSeq(queue, p + 1, Len(queue))
             n == Len(queue)
  <2>1. p \in 1..n /\ queue[p] = d
    BY <1>1, <1>3 DEF Queues
  <2>2. r = front \o back
    BY <1>3 DEF Without, RemoveAt, Queues
  <2>3. /\ front \in Seq(Dials) /\ Len(front) = p - 1
        /\ \A i \in 1..p - 1 : front[i] = queue[i]
    <3> HIDE DEF p
    <3>1. 1 \in Int /\ p - 1 \in Int /\ \A i \in 1..p - 1 : queue[i] \in Dials
      BY <1>1, <2>1, ElementOfSeq
    <3>2. /\ front \in Seq(Dials) /\ Len(front) = IF 1 <= p - 1 THEN p - 1 - 1 + 1 ELSE 0
          /\ \A i \in 1..p - 1 - 1 + 1 : front[i] = queue[1 + i - 1]
      BY <3>1, SubSeqProperties
    <3> QED BY <2>1, <3>2
  <2>4. /\ back \in Seq(Dials) /\ Len(back) = n - p
        /\ \A i \in 1..n - p : back[i] = queue[p + i]
    <3> HIDE DEF p
    <3>1. p + 1 \in Int /\ n \in Int /\ \A i \in p + 1..n : queue[i] \in Dials
      BY <1>1, <2>1, ElementOfSeq
    <3>2. /\ back \in Seq(Dials) /\ Len(back) = IF p + 1 <= n THEN n - (p + 1) + 1 ELSE 0
          /\ \A i \in 1..n - (p + 1) + 1 : back[i] = queue[p + 1 + i - 1]
      BY <3>1, SubSeqProperties
    <3> HIDE DEF back
    <3>3. Len(back) = n - p
      <4>1. n \in Nat /\ p \in 1..n
        BY <1>1, <2>1
      <4>2. Len(back) = IF p + 1 <= n THEN n - (p + 1) + 1 ELSE 0
        BY <3>2
      <4> HIDE DEF n
      <4> QED BY <4>1, <4>2
    <3>4. ASSUME NEW i \in 1..n - p PROVE back[i] = queue[p + i]
      <4>1. i \in 1..n - (p + 1) + 1 /\ p + 1 + i - 1 = p + i
        BY <1>1, <2>1
      <4>2. back[i] = queue[p + 1 + i - 1]
        BY <3>2, <4>1
      <4> QED BY <4>1, <4>2
    <3> QED BY <3>2, <3>3, <3>4
  <2> HIDE DEF p, front, back, r
  <2>5. /\ r \in Seq(Dials) /\ Len(r) = n - 1 /\ DOMAIN r = 1..n - 1
        /\ \A i \in 1..n - 1 : r[i] = IF i < p THEN queue[i] ELSE queue[i + 1]
    <3>1. /\ r \in Seq(Dials) /\ Len(r) = p - 1 + (n - p)
          /\ \A i \in 1..p - 1 + (n - p) :
                r[i] = IF i <= p - 1 THEN front[i] ELSE back[i - (p - 1)]
      BY <2>2, <2>3, <2>4, ConcatProperties
    <3>2. Len(r) = n - 1 /\ DOMAIN r = 1..n - 1
      BY <1>1, <2>1, <3>1, LenProperties
    <3>3. ASSUME NEW i \in 1..n - 1 PROVE r[i] = IF i < p THEN queue[i] ELSE queue[i + 1]
      <4>1. CASE i < p
        <5>1. i \in 1..p - 1 + (n - p) /\ i <= p - 1 /\ i \in 1..p - 1
          BY <1>1, <2>1, <4>1
        <5>2. r[i] = front[i]
          BY <3>1, <5>1
        <5> QED BY <2>3, <4>1, <5>1, <5>2
      <4>2. CASE ~ (i < p)
        <5>1. i - (p - 1) \in 1..n - p /\ p + (i - (p - 1)) = i + 1
          BY <1>1, <2>1, <4>2
        <5>2. r[i] = back[i - (p - 1)]
          BY <1>1, <2>1, <3>1, <4>2
        <5> QED BY <2>4, <4>2, <5>1, <5>2
      <4> QED BY <4>1, <4>2
    <3> QED BY <3>1, <3>2, <3>3
  <2>6. \A i, j \in 1..n : queue[i] = queue[j] => i = j
    BY <1>1 DEF Queues
  <2>7. \A i, j \in DOMAIN r : r[i] = r[j] => i = j
    <3> SUFFICES ASSUME NEW i \in 1..n - 1, NEW j \in 1..n - 1, r[i] = r[j]
                 PROVE  i = j
      BY <2>5
    <3> DEFINE a == IF i < p THEN i ELSE i + 1
               b == IF j < p THEN j ELSE j + 1
    <3>1. a \in 1..n /\ b \in 1..n /\ queue[a] = queue[b]
      BY <1>1, <2>5
    <3>2. a = b
      BY <2>6, <3>1
    <3> QED BY <2>1, <3>2
  <2>8. ASSUME NEW e \in Dials
        PROVE  e \in W \ {d} <=> \E i \in DOMAIN r : r[i] = e
    <3>1. ASSUME NEW i \in 1..n - 1, r[i] = e PROVE e \in W /\ e # d
      <4> DEFINE a == IF i < p THEN i ELSE i + 1
      <4>1. a \in 1..n /\ a # p /\ queue[a] = e
        BY <1>1, <2>1, <2>5, <3>1
      <4>2. e # d
        BY <2>1, <2>6, <4>1
      <4> QED BY <1>1, <4>1, <4>2 DEF Queues
    <3>2. ASSUME e \in W, e # d PROVE \E i \in 1..n - 1 : r[i] = e
      <4>1. PICK i \in 1..n : queue[i] = e
        BY <1>1, <3>2 DEF Queues
      <4>2. i # p
        BY <2>1, <3>2, <4>1
      <4>3. CASE i < p
        BY <1>1, <2>1, <2>5, <4>1, <4>3
      <4>4. CASE i > p
        <5>1. i - 1 \in 1..n - 1 /\ ~ (i - 1 < p) /\ i - 1 + 1 = i
          BY <1>1, <2>1, <4>4
        <5>2. r[i - 1] = e
          BY <2>5, <4>1, <5>1
        <5> QED BY <5>1, <5>2
      <4> QED BY <2>1, <4>2, <4>3, <4>4
    <3> QED BY <2>5, <3>1, <3>2
  <2>9. ASSUME queue # <<>>, Head(queue) # d PROVE Head(r) = Head(queue)
    <3>1. Head(queue) = queue[1] /\ 1 \in 1..n
      BY <1>1, <2>9, EmptySeq
    <3>2. 1 < p /\ 1 \in 1..n - 1
      BY <1>1, <2>1, <2>9, <3>1
    <3>3. r[1] = queue[1] /\ r # <<>>
      BY <2>5, <3>2
    <3> QED BY <2>5, <3>1, <3>3
  <2> QED BY <2>5, <2>7, <2>8, <2>9 DEF Queues, r
<1> QED BY <1>2, <1>3

-----------------------------------------------------------------------------
(* What a dial does once it holds its streams. *)

Counters == [Dials -> 0..MaxAttempts]

\* The other dials are where they were.
OthersRest(d) ==
    \A e \in Dials : e # d =>
        UNCHANGED <<pc[e], settings[e], remaining[e], left[e], rounds[e], held[e]>>

LEMMA BeginRoundOutcome ==
    ASSUME DialTypeOK, NEW d \in Dials, settings' \in [Dials -> Settings],
           NEW width \in 1..MaxAttempts, width = Width(d)',
           NEW budget \in 1..MaxAttempts,
           NEW q, NEW rs \in Seq(Round), BeginRound(d, width, budget, q, rs),
           AttemptedIn(rs) + budget = Budget(d)',
           \A i \in 1..Len(rs) : Attempted(rs[i]) <= width
    PROVE  /\ pc' = [pc EXCEPT ![d] = "locking"]
           /\ queue' = Append(q, d)
           /\ remaining' \in Counters /\ left' \in Counters
           /\ rounds' \in [Dials -> Seq(Round)]
           /\ BudgetOK(d)'
           /\ rounds' = [rounds EXCEPT ![d] = Append(rs, Fresh)]
           /\ \A e \in Dials : e # d => UNCHANGED <<pc[e], remaining[e], left[e], rounds[e]>>
<1> DEFINE size == RoundSize(width, budget)
<1>1. /\ pc \in [Dials -> {"idle"} \cup Dialling \cup Resolved \cup Over]
      /\ remaining \in Counters /\ left \in Counters /\ rounds \in [Dials -> Seq(Round)]
  BY DEF DialTypeOK, Counters, Round
<1>2. /\ pc' = [pc EXCEPT ![d] = "locking"]
      /\ remaining' = [remaining EXCEPT ![d] = budget - size]
      /\ left' = [left EXCEPT ![d] = size]
      /\ rounds' = [rounds EXCEPT ![d] = Append(rs, Fresh)]
      /\ queue' = Append(q, d)
  BY DEF BeginRound, Move
<1>3. size \in 1..MaxAttempts /\ size <= width /\ budget - size \in 0..MaxAttempts
  BY AttemptsAssumption DEF RoundSize
<1>4. Fresh \in Round /\ Attempted(Fresh) = 0
  BY DEF Fresh, Round, Attempted
<1>5. /\ Append(rs, Fresh) \in Seq(Round) /\ Len(rs) \in Nat
      /\ Append(rs, Fresh) # <<>> /\ Len(Append(rs, Fresh)) = Len(rs) + 1
      /\ \A i \in 1..Len(rs) : Append(rs, Fresh)[i] = rs[i]
      /\ Append(rs, Fresh)[Len(rs) + 1] = Fresh
  BY <1>4, AppendProperties, LenProperties
<1>6. AttemptedIn(Append(rs, Fresh)) = AttemptedIn(rs) /\ AttemptedIn(rs) \in Nat
  BY AttemptedInWithFresh, AttemptedInIsNat
<1> HIDE DEF size
<1>7. remaining' \in Counters /\ left' \in Counters /\ rounds' \in [Dials -> Seq(Round)]
  BY <1>1, <1>2, <1>3, <1>5 DEF Counters
<1>8. /\ pc'[d] = "locking" /\ remaining'[d] = budget - size /\ left'[d] = size
      /\ rounds'[d] = Append(rs, Fresh)
  BY <1>1, <1>2 DEF Counters
<1>9. BudgetOK(d)'
  <2>1. AttemptedIn(rounds'[d]) + left'[d] + remaining'[d] = Budget(d)'
    BY <1>3, <1>6, <1>8
  <2>2. ASSUME NEW i \in 1..Len(rounds'[d]) PROVE Attempted(rounds'[d][i]) <= Width(d)'
    <3>1. CASE i \in 1..Len(rs)
      BY <1>5, <1>8, <3>1
    <3>2. CASE i = Len(rs) + 1
      BY <1>4, <1>5, <1>8, <3>2
    <3> QED BY <1>5, <1>8, <3>1, <3>2
  <2>3. Attempted(rounds'[d][Len(rounds'[d])]) + left'[d] <= Width(d)'
    BY <1>3, <1>4, <1>5, <1>8
  <2> QED BY <1>3, <1>5, <1>8, <2>1, <2>2, <2>3 DEF BudgetOK, Resolved
<1>10. \A e \in Dials : e # d => UNCHANGED <<pc[e], remaining[e], left[e], rounds[e]>>
  BY <1>1, <1>2 DEF Counters
<1> QED BY <1>2, <1>7, <1>9, <1>10

\* The widths and budgets a caller may ask for.
LEMMA SettingsOf ==
    ASSUME NEW s \in Settings
    PROVE  /\ BudgetOf(s) \in 1..MaxAttempts
           /\ (IF s.probe THEN s.concurrency ELSE 1) \in 1..MaxAttempts
BY AttemptsAssumption DEF Settings, BudgetOf

\* A dial has gone on from the rounds rs and the streams h, with opens left to run: to its next open,
\* to a probe or to a new round, or it gave up.  It had left the queue as q.
WentOn(d, q, rs, h, opens) ==
    /\ pc'[d] \in {"locking", "probing", "gave_up"}
    /\ pc' = [pc EXCEPT ![d] = pc'[d]]
    /\ held' = [held EXCEPT ![d] = h]
    /\ queue' = IF pc'[d] = "locking" THEN Append(q, d) ELSE q
    /\ pc'[d] = "locking" => opens > 0 \/ h = {}
    /\ pc'[d] = "probing" => h # {}
    /\ pc'[d] = "gave_up" => h = {}
    /\ remaining' \in Counters /\ left' \in Counters
    /\ rounds' \in [Dials -> Seq(Round)]
    /\ rounds'[d] = rs \/ (h = {} /\ rounds'[d] = Append(rs, Fresh))
    /\ BudgetOK(d)'
    /\ OthersRest(d)

LEMMA ProceedOutcome ==
    ASSUME DialTypeOK, NEW d \in Dials, settings' = settings, BudgetOK(d), pc[d] # "idle",
           NEW q, NEW rs \in Seq(Round), NEW h \in SUBSET (1..MaxAttempts),
           NEW opens \in 0..MaxAttempts,
           Proceed(d, q, rs, h, opens),
           rs # <<>>,
           AttemptedIn(rs) + opens + remaining[d] = Budget(d),
           \A i \in 1..Len(rs) : Attempted(rs[i]) <= Width(d),
           Attempted(rs[Len(rs)]) + opens <= Width(d)
    PROVE  WentOn(d, q, rs, h, opens)
<1>1. /\ pc \in [Dials -> {"idle"} \cup Dialling \cup Resolved \cup Over]
      /\ remaining \in Counters /\ left \in Counters /\ rounds \in [Dials -> Seq(Round)]
      /\ held \in [Dials -> SUBSET (1..MaxAttempts)] /\ settings \in [Dials -> Settings]
  BY DEF DialTypeOK, Counters, Round
<1>2. held' = [held EXCEPT ![d] = h]
  BY DEF Proceed
<1>3. Budget(d)' = Budget(d) /\ Width(d)' = Width(d)
  BY DEF Budget, Width, Probe
<1>4. \A e \in Dials : e # d => UNCHANGED <<settings[e], held[e]>>
  BY <1>1, <1>2
<1>5. CASE opens = 0 /\ h = {} /\ remaining[d] > 0 /\ BeginRound(d, Width(d), remaining[d], q, rs)
  <2>1. Width(d) \in 1..MaxAttempts /\ remaining[d] \in 1..MaxAttempts
    BY <1>1, <1>5, AttemptsAssumption DEF Width, Probe, Settings, Counters
  <2>2. AttemptedIn(rs) + remaining[d] = Budget(d)'
    <3>1. AttemptedIn(rs) \in Nat
      BY AttemptedInIsNat
    <3> QED BY <1>3, <1>5, <2>1, <3>1
  <2>3. /\ pc' = [pc EXCEPT ![d] = "locking"]
        /\ queue' = Append(q, d)
        /\ remaining' \in Counters /\ left' \in Counters
        /\ rounds' \in [Dials -> Seq(Round)]
        /\ BudgetOK(d)'
        /\ rounds' = [rounds EXCEPT ![d] = Append(rs, Fresh)]
        /\ \A e \in Dials : e # d => UNCHANGED <<pc[e], remaining[e], left[e], rounds[e]>>
    BY <1>1, <1>3, <1>5, <2>1, <2>2, BeginRoundOutcome
  <2>4. pc'[d] = "locking" /\ rounds'[d] = Append(rs, Fresh)
    BY <1>1, <2>3
  <2> QED BY <1>2, <1>4, <1>5, <2>3, <2>4 DEF OthersRest, WentOn
<1>6. ASSUME NEW to \in {"locking", "probing", "gave_up"},
             pc' = [pc EXCEPT ![d] = to],
             left' = [left EXCEPT ![d] = opens],
             rounds' = [rounds EXCEPT ![d] = rs],
             remaining' = remaining,
             to = "locking" <=> opens > 0,
             to = "gave_up" => remaining[d] = 0
      PROVE  /\ pc'[d] = to
             /\ remaining' \in Counters /\ left' \in Counters
             /\ rounds' \in [Dials -> Seq(Round)]
             /\ rounds'[d] = rs
             /\ BudgetOK(d)'
             /\ OthersRest(d)
  <2>1. /\ pc'[d] = to /\ left'[d] = opens /\ rounds'[d] = rs /\ remaining'[d] = remaining[d]
        /\ remaining' \in Counters /\ left' \in Counters
        /\ rounds' \in [Dials -> Seq(Round)]
    BY <1>1, <1>6 DEF Counters
  <2>2. BudgetOK(d)'
    BY <1>3, <1>6, <2>1 DEF BudgetOK, Wanting, Resolved
  <2>3. OthersRest(d)
    BY <1>1, <1>4, <1>6 DEF OthersRest, Counters
  <2> QED BY <2>1, <2>2, <2>3
<1>7. CASE /\ opens > 0 /\ Move(d, "locking") /\ left' = [left EXCEPT ![d] = opens]
           /\ rounds' = [rounds EXCEPT ![d] = rs] /\ queue' = Append(q, d)
           /\ UNCHANGED remaining
  <2> DEFINE to == "locking"
  <2>1. /\ to \in {"locking", "probing", "gave_up"} /\ pc' = [pc EXCEPT ![d] = to]
        /\ to = "locking" <=> opens > 0
        /\ to = "gave_up" => remaining[d] = 0
    BY <1>7 DEF Move
  <2> HIDE DEF to
  <2>2. /\ pc'[d] = to /\ remaining' \in Counters /\ left' \in Counters
        /\ rounds' \in [Dials -> Seq(Round)] /\ rounds'[d] = rs
        /\ BudgetOK(d)' /\ OthersRest(d)
    BY <1>6, <1>7, <2>1
  <2>3. rounds'[d] = rs \/ (h = {} /\ rounds'[d] = Append(rs, Fresh))
    BY <2>2
  <2>4. pc' = [pc EXCEPT ![d] = pc'[d]]
    BY <2>1, <2>2
  <2> QED BY <1>2, <1>7, <2>1, <2>2, <2>3, <2>4 DEF to, WentOn
<1>8. CASE /\ opens = 0 /\ h # {} /\ Move(d, "probing") /\ left' = [left EXCEPT ![d] = 0]
           /\ rounds' = [rounds EXCEPT ![d] = rs] /\ queue' = q
           /\ UNCHANGED remaining
  <2> DEFINE to == "probing"
  <2>1. /\ to \in {"locking", "probing", "gave_up"} /\ pc' = [pc EXCEPT ![d] = to]
        /\ to = "locking" <=> opens > 0
        /\ to = "gave_up" => remaining[d] = 0
    BY <1>8 DEF Move
  <2> HIDE DEF to
  <2>2. /\ pc'[d] = to /\ remaining' \in Counters /\ left' \in Counters
        /\ rounds' \in [Dials -> Seq(Round)] /\ rounds'[d] = rs
        /\ BudgetOK(d)' /\ OthersRest(d)
    BY <1>6, <1>8, <2>1
  <2>3. rounds'[d] = rs \/ (h = {} /\ rounds'[d] = Append(rs, Fresh))
    BY <2>2
  <2>4. pc' = [pc EXCEPT ![d] = pc'[d]]
    BY <2>1, <2>2
  <2> QED BY <1>2, <1>8, <2>1, <2>2, <2>3, <2>4 DEF to, WentOn
<1>9. CASE /\ opens = 0 /\ h = {} /\ remaining[d] = 0 /\ Move(d, "gave_up")
           /\ left' = [left EXCEPT ![d] = 0]
           /\ rounds' = [rounds EXCEPT ![d] = rs] /\ queue' = q
           /\ UNCHANGED remaining
  <2> DEFINE to == "gave_up"
  <2>1. /\ to \in {"locking", "probing", "gave_up"} /\ pc' = [pc EXCEPT ![d] = to]
        /\ to = "locking" <=> opens > 0
        /\ to = "gave_up" => remaining[d] = 0
    BY <1>9 DEF Move
  <2> HIDE DEF to
  <2>2. /\ pc'[d] = to /\ remaining' \in Counters /\ left' \in Counters
        /\ rounds' \in [Dials -> Seq(Round)] /\ rounds'[d] = rs
        /\ BudgetOK(d)' /\ OthersRest(d)
    BY <1>6, <1>9, <2>1
  <2>3. rounds'[d] = rs \/ (h = {} /\ rounds'[d] = Append(rs, Fresh))
    BY <2>2
  <2>4. pc' = [pc EXCEPT ![d] = pc'[d]]
    BY <2>1, <2>2
  <2> QED BY <1>2, <1>9, <2>1, <2>2, <2>3, <2>4 DEF to, WentOn
<1> QED BY <1>5, <1>7, <1>8, <1>9 DEF Proceed

-----------------------------------------------------------------------------
(* What every step of one dial leaves in place. *)

Places == {"idle"} \cup Dialling \cup Resolved \cup Over

\* The type invariant but for the mutex.
Typed ==
    /\ pc \in [Dials -> Places]
    /\ settings \in [Dials -> Settings]
    /\ remaining \in Counters /\ left \in Counters
    /\ rounds \in [Dials -> Seq(Round)]
    /\ held \in [Dials -> SUBSET (1..MaxAttempts)]
    /\ live \subseteq Streams
    /\ existed \subseteq Streams
    /\ reply \in [Streams -> {"none", "own", "other"}]

LEMMA TypedWithMutex ==
    /\ DialTypeOK <=> Typed /\ MutexOK
    /\ DialTypeOK' <=> Typed' /\ MutexOK'
<1>1. DialTypeOK <=> Typed /\ MutexOK
  BY DEF DialTypeOK, Typed, MutexOK, Queues, Wanting, Counters, Round, Places
<1>2. DialTypeOK' <=> Typed' /\ MutexOK'
  BY DEF DialTypeOK, Typed, MutexOK, Queues, Wanting, Counters, Round, Places
<1> QED BY <1>1, <1>2

LEMMA Frame ==
    ASSUME DialInv, NEW d \in Dials, OthersRest(d), Typed', MutexOK',
           \A s \in Streams : s[1] # d =>
               (s \in live' <=> s \in live) /\ reply'[s] = reply[s],
           \A k \in 1..MaxAttempts :
               <<d, k>> \in live' =>
                   k \in held'[d] \/ (pc'[d] = "cut_short" /\ k = NextAttempt(d)'),
           StreamsOK(d)', BudgetOK(d)', EchoOK(d)'
    PROVE  DialInv'
<1>1. Typed /\ DialTypeOK'
  BY TypedWithMutex DEF DialInv
<1>2. ASSUME NEW s \in live' PROVE s[2] \in held'[s[1]] \/ Orphan(s)'
  <2>1. s \in Streams /\ s[1] \in Dials /\ s[2] \in 1..MaxAttempts /\ s = <<s[1], s[2]>>
    BY DEF Typed, Streams
  <2>2. CASE s[1] = d
    BY <2>1, <2>2 DEF Orphan
  <2>3. CASE s[1] # d
    <3>1. s \in live /\ held'[s[1]] = held[s[1]] /\ pc'[s[1]] = pc[s[1]]
      BY <2>1, <2>3 DEF OthersRest
    <3>2. NextAttempt(s[1])' = NextAttempt(s[1])
      BY <2>1, <2>3 DEF OthersRest, NextAttempt, Budget
    <3> QED BY <3>1, <3>2 DEF DialInv, Orphan
  <2> QED BY <2>2, <2>3
<1>3. ASSUME NEW e \in Dials, e # d PROVE StreamsOK(e)' /\ BudgetOK(e)' /\ EchoOK(e)'
  <2>1. UNCHANGED <<pc[e], settings[e], remaining[e], left[e], rounds[e], held[e]>>
    BY <1>3 DEF OthersRest
  <2>2. StreamsOK(e) /\ BudgetOK(e) /\ EchoOK(e)
    BY DEF DialInv
  <2>3. \A k \in 1..MaxAttempts :
            /\ <<e, k>> \in live' <=> <<e, k>> \in live
            /\ reply'[<<e, k>>] = reply[<<e, k>>]
    BY <1>3 DEF Streams
  <2>4. held[e] \subseteq 1..MaxAttempts
    BY <1>1 DEF Typed
  <2>5. StreamsOK(e)'
    BY <2>1, <2>2, <2>3, <2>4 DEF StreamsOK, Owned
  <2>6. BudgetOK(e)'
    BY <2>1, <2>2 DEF BudgetOK, Budget, Width, Probe
  <2>7. EchoOK(e)'
    BY <2>1, <2>2, <2>3, <2>4 DEF EchoOK, Probe
  <2> QED BY <2>5, <2>6, <2>7
<1> QED BY <1>1, <1>2, <1>3 DEF DialInv

\* A step that leaves the dial the owner of all its streams.
LEMMA FrameOwned ==
    ASSUME DialInv, NEW d \in Dials, OthersRest(d), Typed', MutexOK',
           \A s \in Streams : s[1] # d =>
               (s \in live' <=> s \in live) /\ reply'[s] = reply[s],
           \A k \in 1..MaxAttempts : <<d, k>> \in live' => k \in held'[d],
           StreamsOK(d)', BudgetOK(d)', EchoOK(d)'
    PROVE  DialInv'
<1>1. \A k \in 1..MaxAttempts :
          <<d, k>> \in live' =>
              k \in held'[d] \/ (pc'[d] = "cut_short" /\ k = NextAttempt(d)')
  OBVIOUS
<1> QED BY <1>1, Frame

\* Where a dial is when it owns the mutex, and what its next open is numbered.
LEMMA OpeningAt ==
    ASSUME DialInv, NEW d \in Dials, pc[d] = "opening"
    PROVE  /\ queue # <<>> /\ Head(queue) = d
           /\ NextAttempt(d) \in 1..MaxAttempts
           /\ left[d] - 1 \in 0..MaxAttempts
           /\ rounds[d] \in Seq(Round) /\ rounds[d] # <<>> /\ Current(d) \in Round
<1>1. Typed /\ MutexOK /\ BudgetOK(d)
  BY TypedWithMutex DEF DialInv
<1>2. queue # <<>> /\ Head(queue) = d
  BY <1>1, HolderQueues
<1>3. rounds[d] \in Seq(Round) /\ rounds[d] # <<>> /\ Current(d) \in Round
  <2>1. rounds[d] \in Seq(Round) /\ rounds[d] # <<>>
    BY <1>1 DEF Typed, BudgetOK
  <2>2. Len(rounds[d]) \in 1..Len(rounds[d])
    BY <2>1, EmptySeq, LenProperties
  <2> QED BY <2>1, <2>2, ElementOfSeq DEF Current
<1>4. /\ left[d] \in 1..MaxAttempts /\ remaining[d] \in 0..MaxAttempts
      /\ AttemptedIn(rounds[d]) + left[d] + remaining[d] = Budget(d)
      /\ AttemptedIn(rounds[d]) \in Nat
  BY <1>1, <1>3, AttemptedInIsNat DEF Typed, BudgetOK, Wanting, Counters
<1>5. Budget(d) \in 1..MaxAttempts
  BY <1>1, SettingsOf DEF Typed, Budget
<1>6. NextAttempt(d) \in 1..MaxAttempts /\ left[d] - 1 \in 0..MaxAttempts
  BY <1>4, <1>5, AttemptsAssumption DEF NextAttempt
<1> QED BY <1>2, <1>3, <1>6

\* The mutex after a dial proceeded with the queue it left behind.
LEMMA MutexAfterProceed ==
    ASSUME MutexOK, NEW d \in Dials, pc \in [Dials -> Places],
           NEW q, Queues(q, {e \in Dials : pc[e] \in Wanting} \ {d}),
           \A e \in Dials : e # d /\ pc[e] = "opening" => q # <<>> /\ Head(q) = e,
           pc' = [pc EXCEPT ![d] = pc'[d]],
           pc'[d] \in {"locking", "probing", "gave_up"},
           queue' = IF pc'[d] = "locking" THEN Append(q, d) ELSE q
    PROVE  MutexOK'
<1> DEFINE W == {e \in Dials : pc[e] \in Wanting}
           V == {e \in Dials : pc'[e] \in Wanting}
<1>1. \A e \in Dials : e # d => pc'[e] = pc[e]
  OBVIOUS
<1>2. CASE pc'[d] = "locking"
  <2>1. V = (W \ {d}) \cup {d}
    BY <1>1, <1>2 DEF Wanting
  <2>2. /\ Queues(Append(q, d), (W \ {d}) \cup {d})
        /\ q # <<>> => Head(Append(q, d)) = Head(q)
    BY JoinQueue
  <2> HIDE DEF W, V
  <2>3. Queues(queue', V)
    BY <1>2, <2>1, <2>2
  <2>4. \A e \in Dials : pc'[e] = "opening" => Head(queue') = e
    BY <1>1, <1>2, <2>2
  <2> QED BY <2>3, <2>4 DEF MutexOK, V, Queues
<1>3. CASE pc'[d] # "locking"
  <2>1. V = W \ {d}
    BY <1>1, <1>3 DEF Wanting
  <2>2. Queues(queue', V)
    BY <1>3, <2>1
  <2>3. \A e \in Dials : pc'[e] = "opening" => Head(queue') = e
    BY <1>1, <1>3
  <2> QED BY <2>2, <2>3 DEF MutexOK, Queues
<1> QED BY <1>2, <1>3

\* A round with an open run, whether the SDK took it or refused it.
LEMMA AmendedRounds ==
    ASSUME NEW d \in Dials, rounds[d] \in Seq(Round), rounds[d] # <<>>, NEW r \in Round
    PROVE  /\ Amend(d, r) \in Seq(Round) /\ Amend(d, r) # <<>>
           /\ Len(Amend(d, r)) = Len(rounds[d])
           /\ AttemptedIn(Amend(d, r))
                  = AttemptedIn(rounds[d]) - Attempted(Current(d)) + Attempted(r)
           /\ Amend(d, r)[Len(rounds[d])] = r
           /\ \A i \in 1..Len(rounds[d]) : i # Len(rounds[d]) => Amend(d, r)[i] = rounds[d][i]
<1>1. Len(rounds[d]) \in 1..Len(rounds[d])
  BY EmptySeq, LenProperties
<1>2. AttemptedIn(Amend(d, r)) = AttemptedIn(rounds[d]) - Attempted(Current(d)) + Attempted(r)
  BY AttemptedInAmended DEF Amend, Current
<1>3. /\ Amend(d, r) \in Seq(Round) /\ Len(Amend(d, r)) = Len(rounds[d])
      /\ Amend(d, r)[Len(rounds[d])] = r
      /\ \A i \in 1..Len(rounds[d]) : i # Len(rounds[d]) => Amend(d, r)[i] = rounds[d][i]
  BY <1>1, ExceptSeq DEF Amend
<1>4. Amend(d, r) # <<>>
  BY <1>1, <1>3, EmptySeq
<1> QED BY <1>2, <1>3, <1>4

\* What the outcomes of one stream do to a round's counts.
LEMMA RaisedCounts ==
    ASSUME NEW r \in Round
    PROVE  /\ Attempted(r) \in Nat
           /\ [r EXCEPT !.opened = @ + 1] \in Round
           /\ Attempted([r EXCEPT !.opened = @ + 1]) = Attempted(r) + 1
           /\ RefusedOne(r) \in Round
           /\ Attempted(RefusedOne(r)) = Attempted(r) + 1
           /\ [r EXCEPT !.unanswered = @ + 1] \in Round
           /\ Attempted([r EXCEPT !.unanswered = @ + 1]) = Attempted(r)
           /\ [r EXCEPT !.answered = TRUE] \in Round
           /\ Attempted([r EXCEPT !.answered = TRUE]) = Attempted(r)
<1>1. Attempted(r) \in Nat
  BY AttemptedIsNat
<1>2. /\ [r EXCEPT !.opened = @ + 1] \in Round
      /\ Attempted([r EXCEPT !.opened = @ + 1]) = Attempted(r) + 1
  BY DEF Round, Attempted
<1>3. /\ RefusedOne(r) \in Round
      /\ Attempted(RefusedOne(r)) = Attempted(r) + 1
  BY DEF Round, Attempted, RefusedOne
<1>4. /\ [r EXCEPT !.unanswered = @ + 1] \in Round
      /\ Attempted([r EXCEPT !.unanswered = @ + 1]) = Attempted(r)
  BY DEF Round, Attempted
<1>5. /\ [r EXCEPT !.answered = TRUE] \in Round
      /\ Attempted([r EXCEPT !.answered = TRUE]) = Attempted(r)
  BY DEF Round, Attempted
<1> QED BY <1>1, <1>2, <1>3, <1>4, <1>5

\* What proceeding with an amended round asks of it.
LEMMA AmendedWithin ==
    ASSUME NEW d \in Dials, rounds[d] \in Seq(Round), BudgetOK(d), pc[d] # "idle",
           remaining[d] \in Nat, left[d] \in Nat, Width(d) \in Nat, Budget(d) \in Nat,
           NEW r \in Round, NEW opens \in Nat,
           Attempted(r) + opens = Attempted(Current(d)) + left[d]
    PROVE  /\ AttemptedIn(Amend(d, r)) + opens + remaining[d] = Budget(d)
           /\ \A i \in 1..Len(Amend(d, r)) : Attempted(Amend(d, r)[i]) <= Width(d)
           /\ Attempted(Amend(d, r)[Len(Amend(d, r))]) + opens <= Width(d)
<1>1. /\ rounds[d] # <<>>
      /\ AttemptedIn(rounds[d]) + left[d] + remaining[d] = Budget(d)
      /\ \A i \in 1..Len(rounds[d]) : Attempted(rounds[d][i]) <= Width(d)
      /\ Attempted(Current(d)) + left[d] <= Width(d)
  BY DEF BudgetOK, Current
<1>2. /\ Len(Amend(d, r)) = Len(rounds[d])
      /\ AttemptedIn(Amend(d, r))
             = AttemptedIn(rounds[d]) - Attempted(Current(d)) + Attempted(r)
      /\ Amend(d, r)[Len(rounds[d])] = r
      /\ \A i \in 1..Len(rounds[d]) : i # Len(rounds[d]) => Amend(d, r)[i] = rounds[d][i]
  BY <1>1, AmendedRounds
<1>3. Len(rounds[d]) \in 1..Len(rounds[d]) /\ Current(d) \in Round
  BY <1>1, EmptySeq, LenProperties, ElementOfSeq DEF Current
<1>4. Attempted(r) \in Nat /\ Attempted(Current(d)) \in Nat /\ AttemptedIn(rounds[d]) \in Nat
  BY <1>3, AttemptedIsNat, AttemptedInIsNat
<1>5. AttemptedIn(Amend(d, r)) + opens + remaining[d] = Budget(d)
  <2>1. \A a, b, c, l, m, n, o \in Nat :
            a + l + m = n /\ c + o = b + l => a - b + c + o + m = n
    OBVIOUS
  <2>2. AttemptedIn(rounds[d]) - Attempted(Current(d)) + Attempted(r) + opens + remaining[d]
            = Budget(d)
    BY <1>1, <1>4, <2>1
  <2> QED BY <1>2, <2>2
<1>6. Attempted(r) + opens <= Width(d) /\ Attempted(r) <= Width(d)
  BY <1>1, <1>4
<1>7. \A i \in 1..Len(Amend(d, r)) : Attempted(Amend(d, r)[i]) <= Width(d)
  BY <1>1, <1>2, <1>6
<1> QED BY <1>2, <1>5, <1>6, <1>7

-----------------------------------------------------------------------------
(* One lemma for each step. *)

LEMMA LockKeeps ==
    ASSUME DialInv, NEW d \in Dials, Lock(d)
    PROVE  DialInv'
<1>1. Typed /\ MutexOK /\ StreamsOK(d) /\ BudgetOK(d) /\ EchoOK(d)
  BY TypedWithMutex DEF DialInv
<1>2. /\ pc[d] = "locking" /\ pc' = [pc EXCEPT ![d] = "opening"] /\ Head(queue) = d
      /\ UNCHANGED <<settings, remaining, left, rounds, held, queue, live, reply, existed>>
  BY DEF Lock, Move
<1>3. Typed' /\ pc'[d] = "opening" /\ \A e \in Dials : e # d => pc'[e] = pc[e]
  BY <1>1, <1>2 DEF Typed, Places, Dialling
<1>4. MutexOK'
  <2>1. \A e \in Dials : pc'[e] \in Wanting <=> pc[e] \in Wanting
    BY <1>2, <1>3 DEF Wanting
  <2>2. \A e \in Dials : pc'[e] = "opening" => Head(queue') = e
    BY <1>1, <1>2, <1>3 DEF MutexOK
  <2> QED BY <1>1, <1>2, <2>1, <2>2 DEF MutexOK, Queues
<1>5. OthersRest(d)
  BY <1>2, <1>3 DEF OthersRest
<1>6. StreamsOK(d)' /\ BudgetOK(d)' /\ EchoOK(d)'
  BY <1>1, <1>2, <1>3
     DEF StreamsOK, BudgetOK, EchoOK, Owned, Budget, Width, Probe, Wanting, Resolved, Over
<1>7. /\ \A s \in Streams : s[1] # d =>
             (s \in live' <=> s \in live) /\ reply'[s] = reply[s]
      /\ \A k \in 1..MaxAttempts :
             <<d, k>> \in live' => k \in held'[d]
  <2>1. \A k \in 1..MaxAttempts : <<d, k>> \in live => k \in held[d] \/ pc[d] = "cut_short"
    BY DEF DialInv, Orphan
  <2> QED BY <1>2, <2>1
<1> QED BY <1>3, <1>4, <1>5, <1>6, <1>7, FrameOwned

LEMMA OpenOutcome ==
    ASSUME DialInv, NEW d \in Dials, Open(d)
    PROVE  /\ WentOn(d, Unlocked, Amend(d, [Current(d) EXCEPT !.opened = @ + 1]),
                     held[d] \cup {NextAttempt(d)}, left[d] - 1)
           /\ Amend(d, [Current(d) EXCEPT !.opened = @ + 1]) \in Seq(Round)
<1> DEFINE k == NextAttempt(d)
           r == [Current(d) EXCEPT !.opened = @ + 1]
           rs == Amend(d, r)
           h == held[d] \cup {k}
           opens == left[d] - 1
<1>1. Typed /\ MutexOK /\ DialTypeOK /\ StreamsOK(d) /\ BudgetOK(d) /\ EchoOK(d)
  BY TypedWithMutex DEF DialInv
<1>2. /\ pc[d] = "opening" /\ live' = live \cup {<<d, k>>} /\ existed' = existed \cup {<<d, k>>}
      /\ Proceed(d, Unlocked, rs, h, opens)
      /\ settings' = settings /\ reply' = reply
  BY DEF Open
<1>3. /\ queue # <<>> /\ Head(queue) = d /\ k \in 1..MaxAttempts /\ opens \in 0..MaxAttempts
      /\ rounds[d] \in Seq(Round) /\ rounds[d] # <<>> /\ Current(d) \in Round
  BY <1>2, OpeningAt
<1>4. r \in Round /\ Attempted(r) = Attempted(Current(d)) + 1 /\ Attempted(Current(d)) \in Nat
  BY <1>3, RaisedCounts
<1>5. /\ remaining[d] \in Nat /\ left[d] \in Nat /\ settings[d] \in Settings
      /\ left[d] \in 0..MaxAttempts
  BY <1>1 DEF Typed, Counters
<1>6. Width(d) \in Nat /\ Budget(d) \in Nat
  BY <1>5, SettingsOf DEF Width, Budget, Probe
<1> HIDE DEF r
<1>7. rs \in Seq(Round) /\ rs # <<>>
  BY <1>3, <1>4, AmendedRounds
<1>8. Attempted(r) + opens = Attempted(Current(d)) + left[d] /\ opens \in Nat
  BY <1>3, <1>4, <1>5
<1>9. /\ AttemptedIn(rs) + opens + remaining[d] = Budget(d)
      /\ \A i \in 1..Len(rs) : Attempted(rs[i]) <= Width(d)
      /\ Attempted(rs[Len(rs)]) + opens <= Width(d)
  <2> HIDE DEF opens
  <2> QED BY <1>1, <1>2, <1>3, <1>4, <1>5, <1>6, <1>8, AmendedWithin
<1>10. h \in SUBSET (1..MaxAttempts) /\ held[d] \in SUBSET (1..MaxAttempts)
  BY <1>1, <1>3 DEF Typed
<1> HIDE DEF k, rs, opens
<1>11. WentOn(d, Unlocked, rs, h, opens)
  <2> HIDE DEF h
  <2> QED BY <1>1, <1>2, <1>3, <1>7, <1>9, <1>10, ProceedOutcome
<1> QED BY <1>7, <1>11 DEF rs, r, opens, k

LEMMA OpenKeeps ==
    ASSUME DialInv, NEW d \in Dials, Open(d)
    PROVE  DialInv'
<1> DEFINE k == NextAttempt(d)
           r == [Current(d) EXCEPT !.opened = @ + 1]
           rs == Amend(d, r)
           h == held[d] \cup {k}
           opens == left[d] - 1
<1>1. Typed /\ MutexOK /\ DialTypeOK /\ StreamsOK(d) /\ BudgetOK(d) /\ EchoOK(d)
  BY TypedWithMutex DEF DialInv
<1>2. /\ pc[d] = "opening" /\ live' = live \cup {<<d, k>>} /\ existed' = existed \cup {<<d, k>>}
      /\ Proceed(d, Unlocked, rs, h, opens)
      /\ settings' = settings /\ reply' = reply
  BY DEF Open
<1>3. /\ queue # <<>> /\ Head(queue) = d /\ k \in 1..MaxAttempts /\ opens \in 0..MaxAttempts
      /\ rounds[d] \in Seq(Round) /\ rounds[d] # <<>> /\ Current(d) \in Round
  BY <1>2, OpeningAt
<1>10. h \in SUBSET (1..MaxAttempts) /\ held[d] \in SUBSET (1..MaxAttempts)
  BY <1>1, <1>3 DEF Typed
<1>4. WentOn(d, Unlocked, rs, h, opens)
  BY OpenOutcome
<1> HIDE DEF k, rs, r, opens
<1>11. /\ pc'[d] \in {"locking", "probing", "gave_up"}
       /\ pc' = [pc EXCEPT ![d] = pc'[d]]
       /\ held' = [held EXCEPT ![d] = h]
       /\ queue' = IF pc'[d] = "locking" THEN Append(Unlocked, d) ELSE Unlocked
       /\ pc'[d] = "gave_up" => h = {}
       /\ remaining' \in Counters /\ left' \in Counters
       /\ rounds' \in [Dials -> Seq(Round)]
       /\ BudgetOK(d)'
       /\ OthersRest(d)
  BY <1>4 DEF WentOn
<1>12. Typed' /\ held'[d] = h
  <2>1. <<d, k>> \in Streams
    BY <1>3 DEF Streams
  <2>2. live' \subseteq Streams /\ existed' \subseteq Streams
    BY <1>1, <1>2, <2>1 DEF Typed
  <2> HIDE DEF h
  <2> QED BY <1>1, <1>2, <1>10, <1>11, <2>2 DEF Typed, Places, Dialling, Resolved
<1>13. MutexOK'
  <2> DEFINE W == {e \in Dials : pc[e] \in Wanting}
  <2>1. Queues(queue, W)
    BY <1>1 DEF MutexOK
  <2>2. Queues(Unlocked, W \ {d})
    <3> HIDE DEF W
    <3> QED BY <1>3, <2>1, LeaveFront DEF Unlocked
  <2>3. \A e \in Dials : e # d => pc[e] # "opening"
    BY <1>1, <1>3 DEF MutexOK
  <2>4. pc \in [Dials -> Places]
    BY <1>1 DEF Typed
  <2> QED BY <1>1, <1>11, <2>2, <2>3, <2>4, MutexAfterProceed
<1>14. StreamsOK(d)'
  <2>1. Owned(d)' \subseteq live'
    BY <1>1, <1>2, <1>12 DEF StreamsOK, Owned
  <2> QED BY <1>11, <1>12, <2>1 DEF StreamsOK, Over
<1>15. EchoOK(d)'
  BY <1>1, <1>2, <1>11 DEF EchoOK, Over
<1>16. /\ \A s \in Streams : s[1] # d =>
              (s \in live' <=> s \in live) /\ reply'[s] = reply[s]
       /\ \A j \in 1..MaxAttempts :
              <<d, j>> \in live' => j \in held'[d]
  <2>1. \A j \in 1..MaxAttempts : <<d, j>> \in live => j \in held[d] \/ pc[d] = "cut_short"
    BY DEF DialInv, Orphan
  <2> QED BY <1>2, <1>12, <2>1
<1> QED BY <1>11, <1>12, <1>13, <1>14, <1>15, <1>16, FrameOwned

LEMMA RefuseOpenOutcome ==
    ASSUME DialInv, NEW d \in Dials, RefuseOpen(d)
    PROVE  /\ WentOn(d, Unlocked, Amend(d, RefusedOne(Current(d))),
                     held[d], left[d] - 1)
           /\ Amend(d, RefusedOne(Current(d))) \in Seq(Round)
<1> DEFINE r == RefusedOne(Current(d))
           rs == Amend(d, r)
           h == held[d]
           opens == left[d] - 1
<1>1. Typed /\ MutexOK /\ DialTypeOK /\ StreamsOK(d) /\ BudgetOK(d) /\ EchoOK(d)
  BY TypedWithMutex DEF DialInv
<1>2. /\ pc[d] = "opening" /\ Proceed(d, Unlocked, rs, h, opens)
      /\ settings' = settings /\ reply' = reply /\ live' = live /\ existed' = existed
  BY DEF RefuseOpen
<1>3. /\ queue # <<>> /\ Head(queue) = d /\ opens \in 0..MaxAttempts
      /\ rounds[d] \in Seq(Round) /\ rounds[d] # <<>> /\ Current(d) \in Round
  BY <1>2, OpeningAt
<1>4. r \in Round /\ Attempted(r) = Attempted(Current(d)) + 1 /\ Attempted(Current(d)) \in Nat
  BY <1>3, RaisedCounts
<1>5. /\ remaining[d] \in Nat /\ left[d] \in Nat /\ settings[d] \in Settings
      /\ left[d] \in 0..MaxAttempts
  BY <1>1 DEF Typed, Counters
<1>6. Width(d) \in Nat /\ Budget(d) \in Nat
  BY <1>5, SettingsOf DEF Width, Budget, Probe
<1> HIDE DEF r
<1>7. rs \in Seq(Round) /\ rs # <<>>
  BY <1>3, <1>4, AmendedRounds
<1>8. Attempted(r) + opens = Attempted(Current(d)) + left[d] /\ opens \in Nat
  BY <1>3, <1>4, <1>5
<1>9. /\ AttemptedIn(rs) + opens + remaining[d] = Budget(d)
      /\ \A i \in 1..Len(rs) : Attempted(rs[i]) <= Width(d)
      /\ Attempted(rs[Len(rs)]) + opens <= Width(d)
  <2> HIDE DEF opens
  <2> QED BY <1>1, <1>2, <1>3, <1>4, <1>5, <1>6, <1>8, AmendedWithin
<1>10. h \in SUBSET (1..MaxAttempts)
  BY <1>1 DEF Typed
<1> HIDE DEF rs, opens
<1>11. WentOn(d, Unlocked, rs, h, opens)
  <2> HIDE DEF h
  <2> QED BY <1>1, <1>2, <1>3, <1>7, <1>9, <1>10, ProceedOutcome
<1> QED BY <1>7, <1>11 DEF rs, r, opens

LEMMA RefuseOpenKeeps ==
    ASSUME DialInv, NEW d \in Dials, RefuseOpen(d)
    PROVE  DialInv'
<1> DEFINE r == RefusedOne(Current(d))
           rs == Amend(d, r)
           h == held[d]
           opens == left[d] - 1
<1>1. Typed /\ MutexOK /\ DialTypeOK /\ StreamsOK(d) /\ BudgetOK(d) /\ EchoOK(d)
  BY TypedWithMutex DEF DialInv
<1>2. /\ pc[d] = "opening" /\ Proceed(d, Unlocked, rs, h, opens)
      /\ settings' = settings /\ reply' = reply /\ live' = live /\ existed' = existed
  BY DEF RefuseOpen
<1>3. /\ queue # <<>> /\ Head(queue) = d /\ opens \in 0..MaxAttempts
      /\ rounds[d] \in Seq(Round) /\ rounds[d] # <<>> /\ Current(d) \in Round
  BY <1>2, OpeningAt
<1>10. h \in SUBSET (1..MaxAttempts)
  BY <1>1 DEF Typed
<1>4. WentOn(d, Unlocked, rs, h, opens)
  BY RefuseOpenOutcome
<1> HIDE DEF rs, r, opens
<1>11. /\ pc'[d] \in {"locking", "probing", "gave_up"}
       /\ pc' = [pc EXCEPT ![d] = pc'[d]]
       /\ held' = [held EXCEPT ![d] = h]
       /\ queue' = IF pc'[d] = "locking" THEN Append(Unlocked, d) ELSE Unlocked
       /\ pc'[d] = "probing" => h # {}
       /\ pc'[d] = "gave_up" => h = {}
       /\ remaining' \in Counters /\ left' \in Counters
       /\ rounds' \in [Dials -> Seq(Round)]
       /\ BudgetOK(d)'
       /\ OthersRest(d)
  BY <1>4 DEF WentOn
<1>12. Typed' /\ held'[d] = held[d]
  BY <1>1, <1>2, <1>3, <1>10, <1>11 DEF Typed, Places, Dialling, Resolved, Streams
<1>13. MutexOK'
  <2> DEFINE W == {e \in Dials : pc[e] \in Wanting}
  <2>1. Queues(queue, W)
    BY <1>1 DEF MutexOK
  <2>2. Queues(Unlocked, W \ {d})
    <3> HIDE DEF W
    <3> QED BY <1>3, <2>1, LeaveFront DEF Unlocked
  <2>3. \A e \in Dials : e # d => pc[e] # "opening"
    BY <1>1, <1>3 DEF MutexOK
  <2>4. pc \in [Dials -> Places]
    BY <1>1 DEF Typed
  <2> QED BY <1>1, <1>11, <2>2, <2>3, <2>4, MutexAfterProceed
<1>14. StreamsOK(d)'
  BY <1>1, <1>2, <1>11, <1>12 DEF StreamsOK, Owned, Over
<1>15. EchoOK(d)'
  BY <1>1, <1>2, <1>11 DEF EchoOK, Over
<1>16. /\ \A s \in Streams : s[1] # d =>
              (s \in live' <=> s \in live) /\ reply'[s] = reply[s]
       /\ \A j \in 1..MaxAttempts :
              <<d, j>> \in live' => j \in held'[d]
  <2>1. \A j \in 1..MaxAttempts : <<d, j>> \in live => j \in held[d] \/ pc[d] = "cut_short"
    BY DEF DialInv, Orphan
  <2> QED BY <1>2, <1>12, <2>1
<1> QED BY <1>11, <1>12, <1>13, <1>14, <1>15, <1>16, FrameOwned

LEMMA BeginKeeps ==
    ASSUME DialInv, NEW d \in Dials, NEW with \in Settings, Begin(d, with)
    PROVE  DialInv'
<1> DEFINE width == IF with.probe THEN with.concurrency ELSE 1
           budget == BudgetOf(with)
           none == <<>>
<1>1. Typed /\ MutexOK /\ DialTypeOK /\ StreamsOK(d) /\ BudgetOK(d) /\ EchoOK(d)
  BY TypedWithMutex DEF DialInv
<1>2. /\ pc[d] \in {"idle", "gave_up", "released"} /\ settings' = [settings EXCEPT ![d] = with]
      /\ BeginRound(d, width, budget, queue, none)
      /\ reply' = [s \in Streams |-> IF s[1] = d THEN "none" ELSE reply[s]]
      /\ existed' = {s \in existed : s[1] # d}
      /\ held' = held /\ live' = live
  BY DEF Begin
<1>3. settings' \in [Dials -> Settings] /\ settings'[d] = with
  BY <1>1, <1>2 DEF Typed
<1>4. width \in 1..MaxAttempts /\ budget \in 1..MaxAttempts
  BY SettingsOf
<1>5. width = Width(d)' /\ budget = Budget(d)'
  BY <1>3 DEF Width, Probe, Budget
<1>6. none \in Seq(Round) /\ AttemptedIn(none) = 0 /\ Len(none) = 0
  BY TotalOfNone DEF AttemptedIn
<1>7. AttemptedIn(none) + budget = Budget(d)' /\ \A i \in 1..Len(none) : Attempted(none[i]) <= width
  BY <1>4, <1>5, <1>6
<1> HIDE DEF width, budget, none
<1>8. /\ pc' = [pc EXCEPT ![d] = "locking"]
      /\ queue' = Append(queue, d)
      /\ remaining' \in Counters /\ left' \in Counters
      /\ rounds' \in [Dials -> Seq(Round)]
      /\ BudgetOK(d)'
      /\ \A e \in Dials : e # d => UNCHANGED <<pc[e], remaining[e], left[e], rounds[e]>>
  BY <1>1, <1>2, <1>3, <1>4, <1>5, <1>6, <1>7, BeginRoundOutcome
<1>9. pc'[d] = "locking" /\ pc' \in [Dials -> Places]
  BY <1>1, <1>8 DEF Typed, Places, Dialling
<1>10. reply' \in [Streams -> {"none", "own", "other"}]
  BY <1>1, <1>2 DEF Typed
<1>11. Typed'
  BY <1>1, <1>2, <1>3, <1>8, <1>9, <1>10 DEF Typed
<1>12. MutexOK'
  <2> DEFINE W == {e \in Dials : pc[e] \in Wanting}
  <2>1. Queues(queue, W) /\ d \notin W
    BY <1>1, <1>2 DEF MutexOK, Wanting
  <2>2. {e \in Dials : pc'[e] \in Wanting} = W \cup {d}
    BY <1>8, <1>9 DEF Wanting
  <2>3. \A e \in W : queue # <<>>
    BY <2>1 DEF Queues
  <2>4. \A e \in Dials : e # d /\ pc[e] = "opening" => e \in W /\ Head(queue) = e
    BY <1>1 DEF MutexOK, Wanting
  <2> HIDE DEF W
  <2>5. /\ Queues(Append(queue, d), W \cup {d})
        /\ queue # <<>> => Head(Append(queue, d)) = Head(queue)
    BY <2>1, JoinQueue
  <2>6. \A e \in Dials : pc'[e] = "opening" => Head(queue') = e
    BY <1>8, <1>9, <2>3, <2>4, <2>5
  <2> QED BY <1>8, <2>2, <2>5, <2>6 DEF MutexOK
<1>13. OthersRest(d)
  BY <1>1, <1>2, <1>8 DEF OthersRest, Typed
<1>14. StreamsOK(d)'
  BY <1>1, <1>2, <1>9 DEF StreamsOK, Owned, Over
<1>15. \A k \in 1..MaxAttempts : reply'[<<d, k>>] = "none"
  BY <1>2 DEF Streams
<1>16. EchoOK(d)'
  BY <1>9, <1>15 DEF EchoOK
<1>17. /\ \A s \in Streams : s[1] # d =>
              (s \in live' <=> s \in live) /\ reply'[s] = reply[s]
       /\ \A j \in 1..MaxAttempts :
              <<d, j>> \in live' => j \in held'[d]
  <2>1. \A j \in 1..MaxAttempts : <<d, j>> \in live => j \in held[d] \/ pc[d] = "cut_short"
    BY DEF DialInv, Orphan
  <2> QED BY <1>2, <2>1
<1> QED BY <1>8, <1>11, <1>12, <1>13, <1>14, <1>16, <1>17, FrameOwned

LEMMA ReplyKeeps ==
    ASSUME DialInv, NEW d \in Dials, NEW k \in 1..MaxAttempts, NEW what \in {"own", "other"},
           Reply(d, k, what)
    PROVE  DialInv'
<1>1. Typed /\ MutexOK /\ StreamsOK(d) /\ BudgetOK(d) /\ EchoOK(d)
  BY TypedWithMutex DEF DialInv
<1>2. /\ pc[d] = "probing" /\ k \in held[d] /\ reply' = [reply EXCEPT ![<<d, k>>] = what]
      /\ UNCHANGED <<pc, settings, remaining, left, rounds, held, queue, live, existed>>
  BY DEF Reply
<1>3. <<d, k>> \in Streams
  BY DEF Streams
<1>4. Typed'
  BY <1>1, <1>2, <1>3 DEF Typed
<1>5. MutexOK'
  BY <1>1, <1>2 DEF MutexOK, Queues
<1>6. \A s \in Streams : s # <<d, k>> => reply'[s] = reply[s]
  BY <1>1, <1>2 DEF Typed
<1>7. StreamsOK(d)' /\ BudgetOK(d)' /\ OthersRest(d)
  BY <1>1, <1>2 DEF StreamsOK, BudgetOK, OthersRest, Owned, Budget, Width, Probe
<1>8. EchoOK(d)'
  <2>1. \A j \in 1..MaxAttempts : j # k => reply'[<<d, j>>] = reply[<<d, j>>]
    BY <1>6 DEF Streams
  <2> QED BY <1>1, <1>2, <2>1 DEF EchoOK
<1>9. /\ \A s \in Streams : s[1] # d =>
             (s \in live' <=> s \in live) /\ reply'[s] = reply[s]
      /\ \A j \in 1..MaxAttempts :
             <<d, j>> \in live' => j \in held'[d]
  <2>1. \A j \in 1..MaxAttempts : <<d, j>> \in live => j \in held[d] \/ pc[d] = "cut_short"
    BY DEF DialInv, Orphan
  <2>2. \A s \in Streams : s[1] # d => s # <<d, k>>
    OBVIOUS
  <2> QED BY <1>2, <1>6, <2>1, <2>2
<1> QED BY <1>4, <1>5, <1>7, <1>8, <1>9, FrameOwned

LEMMA AnswerKeeps ==
    ASSUME DialInv, NEW d \in Dials, NEW k \in 1..MaxAttempts, Answer(d, k)
    PROVE  DialInv'
<1> DEFINE r == [Current(d) EXCEPT !.answered = TRUE]
           rs == Amend(d, r)
<1>1. Typed /\ MutexOK /\ DialTypeOK /\ StreamsOK(d) /\ BudgetOK(d) /\ EchoOK(d)
  BY TypedWithMutex DEF DialInv
<1>2. /\ pc[d] = "probing" /\ k \in held[d] /\ Proven(d, k) /\ pc' = [pc EXCEPT ![d] = "returned"]
      /\ rounds' = [rounds EXCEPT ![d] = rs]
      /\ held' = [held EXCEPT ![d] = {k}]
      /\ live' = LiveAfterAnswer(d, k)
      /\ UNCHANGED <<settings, remaining, left, queue, reply, existed>>
  BY DEF Answer, Move
<1>3. /\ rounds[d] \in Seq(Round) /\ rounds[d] # <<>> /\ left[d] = 0
      /\ remaining[d] \in Nat /\ settings[d] \in Settings
  BY <1>1, <1>2 DEF Typed, BudgetOK, Counters
<1>4. Current(d) \in Round
  <2>1. Len(rounds[d]) \in 1..Len(rounds[d])
    BY <1>3, EmptySeq, LenProperties
  <2> QED BY <1>3, <2>1, ElementOfSeq DEF Current
<1>5. r \in Round /\ Attempted(r) = Attempted(Current(d)) /\ Attempted(r) \in Nat
  BY <1>4, RaisedCounts
<1>6. Width(d) \in Nat /\ Budget(d) \in Nat
  BY <1>3, SettingsOf DEF Width, Budget, Probe
<1> HIDE DEF r
<1>7. rs \in Seq(Round) /\ rs # <<>>
  BY <1>3, <1>5, AmendedRounds
<1>8. Attempted(r) + 0 = Attempted(Current(d)) + left[d] /\ left[d] \in Nat
  BY <1>3, <1>5
<1>9. /\ AttemptedIn(rs) + 0 + remaining[d] = Budget(d)
      /\ \A i \in 1..Len(rs) : Attempted(rs[i]) <= Width(d)
      /\ Attempted(rs[Len(rs)]) + 0 <= Width(d)
  BY <1>1, <1>2, <1>3, <1>5, <1>6, <1>8, AmendedWithin
<1> HIDE DEF rs
<1>10. /\ pc'[d] = "returned" /\ rounds'[d] = rs /\ held'[d] = {k}
       /\ OthersRest(d)
  BY <1>1, <1>2 DEF Typed, OthersRest
<1>11. Typed'
  <2>1. live' \subseteq Streams
    BY <1>1, <1>2 DEF Typed, LiveAfterAnswer
  <2> QED BY <1>1, <1>2, <1>7, <2>1 DEF Typed, Places, Resolved
<1>12. MutexOK'
  <2>1. \A e \in Dials : pc'[e] \in Wanting <=> pc[e] \in Wanting
    BY <1>2, <1>10 DEF Wanting, OthersRest
  <2>2. \A e \in Dials : pc'[e] = "opening" => Head(queue') = e
    BY <1>1, <1>2, <1>10 DEF MutexOK, OthersRest
  <2> QED BY <1>1, <1>2, <2>1, <2>2 DEF MutexOK, Queues
<1>13. BudgetOK(d)'
  BY <1>2, <1>3, <1>7, <1>9, <1>10 DEF BudgetOK, Wanting, Resolved, Budget, Width, Probe
<1>14. <<d, k>> \in live'
  BY <1>1, <1>2 DEF StreamsOK, Owned, LiveAfterAnswer
<1>15. StreamsOK(d)'
  BY <1>10, <1>14 DEF StreamsOK, Owned, Over
<1>16. EchoOK(d)'
  BY <1>2, <1>10 DEF EchoOK, Proven, Probe
<1>17. /\ \A s \in Streams : s[1] # d =>
              (s \in live' <=> s \in live) /\ reply'[s] = reply[s]
       /\ \A j \in 1..MaxAttempts :
              <<d, j>> \in live' => j \in held'[d]
  <2>1. \A j \in 1..MaxAttempts : <<d, j>> \in live => j \in held[d] \/ pc[d] = "cut_short"
    BY DEF DialInv, Orphan
  <2>2. \A s \in Streams : s[1] # d => (s \in live' <=> s \in live)
    BY <1>2 DEF LiveAfterAnswer
  <2>3. \A j \in 1..MaxAttempts : <<d, j>> \in live' => j = k
    BY <1>2, <2>1 DEF LiveAfterAnswer
  <2> QED BY <1>2, <1>10, <2>2, <2>3
<1> QED BY <1>10, <1>11, <1>12, <1>13, <1>15, <1>16, <1>17, FrameOwned

LEMMA DiscardOutcome ==
    ASSUME DialInv, NEW d \in Dials, NEW k \in 1..MaxAttempts, Discard(d, k)
    PROVE  /\ WentOn(d, queue, Amend(d, [Current(d) EXCEPT !.unanswered = @ + 1]),
                     held[d] \ {k}, 0)
           /\ Amend(d, [Current(d) EXCEPT !.unanswered = @ + 1]) \in Seq(Round)
<1> DEFINE r == [Current(d) EXCEPT !.unanswered = @ + 1]
           rs == Amend(d, r)
           h == held[d] \ {k}
<1>1. Typed /\ MutexOK /\ DialTypeOK /\ StreamsOK(d) /\ BudgetOK(d) /\ EchoOK(d)
  BY TypedWithMutex DEF DialInv
<1>2. /\ pc[d] = "probing" /\ k \in held[d] /\ reply[<<d, k>>] # "own"
      /\ live' = live \ {<<d, k>>}
      /\ Proceed(d, queue, rs, h, 0)
      /\ settings' = settings /\ existed' = existed
  BY DEF Discard, Unproven
<1>3. /\ rounds[d] \in Seq(Round) /\ rounds[d] # <<>> /\ left[d] = 0
      /\ remaining[d] \in Nat /\ settings[d] \in Settings
  BY <1>1, <1>2 DEF Typed, BudgetOK, Counters
<1>4. Current(d) \in Round
  <2>1. Len(rounds[d]) \in 1..Len(rounds[d])
    BY <1>3, EmptySeq, LenProperties
  <2> QED BY <1>3, <2>1, ElementOfSeq DEF Current
<1>5. r \in Round /\ Attempted(r) = Attempted(Current(d)) /\ Attempted(r) \in Nat
  BY <1>4, RaisedCounts
<1>6. Width(d) \in Nat /\ Budget(d) \in Nat
  BY <1>3, SettingsOf DEF Width, Budget, Probe
<1> HIDE DEF r
<1>7. rs \in Seq(Round) /\ rs # <<>>
  BY <1>3, <1>5, AmendedRounds
<1>8. Attempted(r) + 0 = Attempted(Current(d)) + left[d] /\ left[d] \in Nat
  BY <1>3, <1>5
<1>9. /\ AttemptedIn(rs) + 0 + remaining[d] = Budget(d)
      /\ \A i \in 1..Len(rs) : Attempted(rs[i]) <= Width(d)
      /\ Attempted(rs[Len(rs)]) + 0 <= Width(d)
  BY <1>1, <1>2, <1>3, <1>5, <1>6, <1>8, AmendedWithin
<1>10. h \in SUBSET (1..MaxAttempts) /\ 0 \in 0..MaxAttempts
  BY <1>1, AttemptsAssumption DEF Typed
<1> HIDE DEF rs
<1>11. WentOn(d, queue, rs, h, 0)
  <2> HIDE DEF h
  <2> QED BY <1>1, <1>2, <1>7, <1>9, <1>10, ProceedOutcome
<1> QED BY <1>7, <1>11 DEF rs, r

LEMMA DiscardKeeps ==
    ASSUME DialInv, NEW d \in Dials, NEW k \in 1..MaxAttempts, Discard(d, k)
    PROVE  DialInv'
<1> DEFINE r == [Current(d) EXCEPT !.unanswered = @ + 1]
           rs == Amend(d, r)
           h == held[d] \ {k}
<1>1. Typed /\ MutexOK /\ DialTypeOK /\ StreamsOK(d) /\ BudgetOK(d) /\ EchoOK(d)
  BY TypedWithMutex DEF DialInv
<1>2. /\ pc[d] = "probing" /\ k \in held[d] /\ reply[<<d, k>>] # "own"
      /\ live' = live \ {<<d, k>>}
      /\ Proceed(d, queue, rs, h, 0)
      /\ settings' = settings /\ existed' = existed
  BY DEF Discard, Unproven
<1>3. /\ rounds[d] \in Seq(Round) /\ rounds[d] # <<>> /\ left[d] = 0
      /\ remaining[d] \in Nat /\ settings[d] \in Settings
  BY <1>1, <1>2 DEF Typed, BudgetOK, Counters
<1>17. /\ reply' \in [Streams -> {"none", "own", "other"}] /\ reply'[<<d, k>>] # "own"
       /\ \A s \in Streams : s # <<d, k>> => reply'[s] = reply[s]
  <2>1. reply' = [reply EXCEPT ![<<d, k>>] = Remembered(@)]
    BY DEF Discard
  <2>2. reply \in [Streams -> {"none", "own", "other"}] /\ <<d, k>> \in Streams
    BY <1>1 DEF Typed, Streams
  <2> QED BY <1>2, <2>1, <2>2 DEF Remembered
<1>10. h \in SUBSET (1..MaxAttempts) /\ 0 \in 0..MaxAttempts
  BY <1>1, AttemptsAssumption DEF Typed
<1>4. WentOn(d, queue, rs, h, 0)
  BY DiscardOutcome
<1> HIDE DEF rs, r
<1>11. /\ pc'[d] \in {"locking", "probing", "gave_up"}
       /\ pc' = [pc EXCEPT ![d] = pc'[d]]
       /\ held' = [held EXCEPT ![d] = h]
       /\ queue' = IF pc'[d] = "locking" THEN Append(queue, d) ELSE queue
       /\ pc'[d] = "locking" => 0 > 0 \/ h = {}
       /\ pc'[d] = "probing" => h # {}
       /\ pc'[d] = "gave_up" => h = {}
       /\ remaining' \in Counters /\ left' \in Counters
       /\ rounds' \in [Dials -> Seq(Round)]
       /\ BudgetOK(d)'
       /\ OthersRest(d)
  BY <1>4 DEF WentOn
<1>12. Typed' /\ held'[d] = h
  <2> HIDE DEF h
  <2>1. live' \subseteq Streams
    BY <1>1, <1>2 DEF Typed
  <2> QED BY <1>1, <1>2, <1>10, <1>11, <1>17, <2>1 DEF Typed, Places, Dialling, Resolved
<1>13. MutexOK'
  <2> DEFINE W == {e \in Dials : pc[e] \in Wanting}
  <2>1. Queues(queue, W) /\ W \ {d} = W
    BY <1>1, <1>2 DEF MutexOK, Wanting
  <2>2. \A e \in Dials : e # d /\ pc[e] = "opening" => queue # <<>> /\ Head(queue) = e
    BY <1>1, HolderQueues
  <2>3. pc \in [Dials -> Places]
    BY <1>1 DEF Typed
  <2>4. Queues(queue, W \ {d})
    <3> HIDE DEF W
    <3> QED BY <2>1
  <2>5. /\ pc' = [pc EXCEPT ![d] = pc'[d]]
        /\ pc'[d] \in {"locking", "probing", "gave_up"}
        /\ queue' = IF pc'[d] = "locking" THEN Append(queue, d) ELSE queue
    BY <1>11
  <2>6. MutexOK
    BY <1>1
  <2> QED BY <2>2, <2>3, <2>4, <2>5, <2>6, MutexAfterProceed
<1>14. StreamsOK(d)'
  <2>1. Owned(d)' \subseteq live'
    BY <1>1, <1>2, <1>12 DEF StreamsOK, Owned
  <2> QED BY <1>11, <1>12, <2>1 DEF StreamsOK, Over
<1>15. EchoOK(d)'
  <2>1. ASSUME NEW j \in 1..MaxAttempts, reply'[<<d, j>>] = "own"
        PROVE  pc'[d] = "probing" /\ j \in held'[d]
    <3>4. j # k /\ <<d, j>> \in Streams /\ reply[<<d, j>>] = "own"
      BY <1>17, <2>1 DEF Streams
    <3>1. j \in held[d] /\ j # k
      BY <1>1, <1>2, <3>4 DEF EchoOK, Over
    <3>2. j \in h /\ h # {}
      BY <3>1
    <3>3. pc'[d] = "probing"
      <4>1. ~ (0 > 0)
        OBVIOUS
      <4> HIDE DEF h
      <4> QED BY <1>11, <3>2, <4>1
    <3> QED BY <1>12, <3>2, <3>3
  <2> QED BY <1>2, <1>11, <2>1 DEF EchoOK
<1>16. /\ \A s \in Streams : s[1] # d =>
              (s \in live' <=> s \in live) /\ reply'[s] = reply[s]
       /\ \A j \in 1..MaxAttempts :
              <<d, j>> \in live' => j \in held'[d]
  <2>1. \A j \in 1..MaxAttempts : <<d, j>> \in live => j \in held[d] \/ pc[d] = "cut_short"
    BY DEF DialInv, Orphan
  <2>2. \A s \in Streams : s[1] # d => reply'[s] = reply[s]
    BY <1>17 DEF Streams
  <2> QED BY <1>2, <1>12, <2>1, <2>2
<1> QED BY <1>11, <1>12, <1>13, <1>14, <1>15, <1>16, FrameOwned

LEMMA ReleaseKeeps ==
    ASSUME DialInv, NEW d \in Dials, Release(d)
    PROVE  DialInv'
<1>1. Typed /\ MutexOK /\ StreamsOK(d) /\ BudgetOK(d) /\ EchoOK(d)
  BY TypedWithMutex DEF DialInv
<1>2. /\ pc[d] = "returned" /\ pc' = [pc EXCEPT ![d] = "released"]
      /\ held' = [held EXCEPT ![d] = {}] /\ live' = live \ Owned(d)
      /\ UNCHANGED <<settings, remaining, left, rounds, queue, reply, existed>>
  BY DEF Release, Move
<1>3. pc'[d] = "released" /\ held'[d] = {} /\ OthersRest(d)
  BY <1>1, <1>2 DEF Typed, OthersRest
<1>4. Typed'
  BY <1>1, <1>2 DEF Typed, Places, Over
<1>5. MutexOK'
  <2>1. \A e \in Dials : pc'[e] \in Wanting <=> pc[e] \in Wanting
    BY <1>2, <1>3 DEF Wanting, OthersRest
  <2>2. \A e \in Dials : pc'[e] = "opening" => Head(queue') = e
    BY <1>1, <1>2, <1>3 DEF MutexOK, OthersRest
  <2> QED BY <1>1, <1>2, <2>1, <2>2 DEF MutexOK, Queues
<1>6. StreamsOK(d)' /\ BudgetOK(d)' /\ EchoOK(d)'
  BY <1>1, <1>2, <1>3
     DEF StreamsOK, BudgetOK, EchoOK, Owned, Budget, Width, Probe, Wanting, Resolved, Over
<1>7. /\ \A s \in Streams : s[1] # d =>
             (s \in live' <=> s \in live) /\ reply'[s] = reply[s]
      /\ \A k \in 1..MaxAttempts :
             <<d, k>> \in live' => k \in held'[d]
  <2>1. \A j \in 1..MaxAttempts : <<d, j>> \in live => j \in held[d] \/ pc[d] = "cut_short"
    BY DEF DialInv, Orphan
  <2>2. \A s \in Streams : s[1] # d => (s \in live' <=> s \in live)
    BY <1>2 DEF Owned
  <2>3. \A j \in 1..MaxAttempts : <<d, j>> \notin live'
    BY <1>2, <2>1 DEF Owned
  <2> QED BY <1>2, <2>2, <2>3
<1> QED BY <1>3, <1>4, <1>5, <1>6, <1>7, Frame

\* A dial that is aborted, with the stream it was opening left registered or without.
LEMMA DroppedKeeps ==
    ASSUME DialInv, NEW d \in Dials, NEW to \in {"cancelled", "cut_short"},
           pc[d] \in Dialling \cup {"returned"}, Dropped(d, to), existed' \subseteq Streams,
           \/ live' = live \ Owned(d)
           \/ /\ pc[d] = "opening" /\ to = "cut_short"
              /\ live' = (live \ Owned(d)) \cup {<<d, NextAttempt(d)>>}
    PROVE  DialInv'
<1>1. Typed /\ MutexOK /\ StreamsOK(d) /\ BudgetOK(d) /\ EchoOK(d)
  BY TypedWithMutex DEF DialInv
<1>2. /\ pc' = [pc EXCEPT ![d] = to]
      /\ held' = [held EXCEPT ![d] = {}] /\ queue' = Without(d)
      /\ UNCHANGED <<settings, remaining, left, rounds, reply>>
  BY DEF Dropped, Move
<1>3. pc'[d] = to /\ held'[d] = {} /\ OthersRest(d) /\ pc' \in [Dials -> Places]
  BY <1>1, <1>2 DEF Typed, OthersRest, Places, Over
<1>4. live' \subseteq Streams /\ \A s \in Streams : s[1] # d => (s \in live' <=> s \in live)
  <2>1. CASE live' = live \ Owned(d)
    BY <1>1, <2>1 DEF Typed, Owned
  <2>2. CASE pc[d] = "opening" /\ live' = (live \ Owned(d)) \cup {<<d, NextAttempt(d)>>}
    <3>1. <<d, NextAttempt(d)>> \in Streams
      BY <2>2, OpeningAt DEF Streams
    <3>2. \A s \in Streams : s[1] # d => s # <<d, NextAttempt(d)>> /\ s \notin Owned(d)
      BY DEF Owned
    <3>3. live \subseteq Streams
      BY <1>1 DEF Typed
    <3> QED BY <2>2, <3>1, <3>2, <3>3
  <2> QED BY <2>1, <2>2
<1>5. Typed'
  BY <1>1, <1>2, <1>3, <1>4 DEF Typed
<1>6. MutexOK'
  <2> DEFINE W == {e \in Dials : pc[e] \in Wanting}
  <2>1. Queues(queue, W)
    BY <1>1 DEF MutexOK
  <2>2. {e \in Dials : pc'[e] \in Wanting} = W \ {d}
    BY <1>2, <1>3 DEF Wanting, OthersRest
  <2>3. \A e \in Dials : pc'[e] = "opening" => queue # <<>> /\ Head(queue) = e /\ e # d
    BY <1>1, <1>3, HolderQueues DEF OthersRest
  <2> HIDE DEF W
  <2>4. /\ Queues(Without(d), W \ {d})
        /\ queue # <<>> /\ Head(queue) # d => Head(Without(d)) = Head(queue)
    BY <2>1, LeaveQueue
  <2>5. \A e \in Dials : pc'[e] = "opening" => Head(queue') = e
    BY <1>2, <2>3, <2>4
  <2> QED BY <1>2, <2>2, <2>4, <2>5 DEF MutexOK
<1>7. StreamsOK(d)' /\ BudgetOK(d)' /\ EchoOK(d)'
  <2>1. StreamsOK(d)'
    BY <1>3 DEF StreamsOK, Owned
  <2>2. BudgetOK(d)'
    BY <1>1, <1>2, <1>3 DEF BudgetOK, Budget, Width, Probe, Wanting, Resolved, Dialling
  <2>3. EchoOK(d)'
    BY <1>3 DEF EchoOK, Over
  <2> QED BY <2>1, <2>2, <2>3
<1>8. \A k \in 1..MaxAttempts :
          <<d, k>> \in live' => pc'[d] = "cut_short" /\ k = NextAttempt(d)'
  <2>1. \A k \in 1..MaxAttempts : <<d, k>> \notin live \ Owned(d)
    <3>1. \A k \in 1..MaxAttempts : <<d, k>> \in live => k \in held[d]
      BY DEF DialInv, Orphan, Dialling
    <3> QED BY <3>1 DEF Owned
  <2>2. NextAttempt(d)' = NextAttempt(d)
    BY <1>2 DEF NextAttempt, Budget
  <2>3. \A k : <<d, k>> = <<d, NextAttempt(d)>> => k = NextAttempt(d)
    OBVIOUS
  <2> QED BY <1>3, <2>1, <2>2, <2>3
<1> QED BY <1>2, <1>3, <1>4, <1>5, <1>6, <1>7, <1>8, Frame

LEMMA CancelKeeps ==
    ASSUME DialInv, NEW d \in Dials, Cancel(d)
    PROVE  DialInv'
<1>1. existed \subseteq Streams
  BY DEF DialInv, DialTypeOK
<1> QED BY <1>1, DroppedKeeps DEF Cancel, LiveWithout

LEMMA CutShortKeeps ==
    ASSUME DialInv, NEW d \in Dials, CutShort(d)
    PROVE  DialInv'
<1>1. existed \subseteq Streams
  BY DEF DialInv, DialTypeOK
<1>2. <<d, NextAttempt(d)>> \in Streams
  BY OpeningAt DEF CutShort, Streams
<1> QED BY <1>1, <1>2, DroppedKeeps DEF CutShort, LiveWithout, Dialling

-----------------------------------------------------------------------------
(* The invariant holds, and what it says. *)

LEMMA InitEstablishes == DialInit => DialInv
<1> SUFFICES ASSUME DialInit PROVE DialInv
  OBVIOUS
<1>1. Unprobed \in Settings
  BY AttemptsAssumption DEF Unprobed, Settings
<1>2. <<>> \in Seq(Round) /\ <<>> \in Seq(Dials) /\ DOMAIN <<>> = {} /\ 0 \in 0..MaxAttempts
  BY AttemptsAssumption
<1>3. Typed
  BY <1>1, <1>2 DEF DialInit, Typed, Places, Counters
<1>4. MutexOK
  BY <1>2 DEF DialInit, MutexOK, Queues, Wanting
<1>5. ASSUME NEW d \in Dials PROVE StreamsOK(d) /\ BudgetOK(d) /\ EchoOK(d)
  BY DEF DialInit, StreamsOK, BudgetOK, EchoOK, Owned, Wanting, Resolved, Over, Streams
<1>6. live = {}
  BY DEF DialInit
<1> QED BY <1>3, <1>4, <1>5, <1>6, TypedWithMutex DEF DialInv

LEMMA StutterKeeps ==
    ASSUME DialInv, UNCHANGED dialVars
    PROVE  DialInv'
BY DEF dialVars, DialInv, DialTypeOK, StreamsOK, BudgetOK, EchoOK, Owned, Budget, Width, Probe,
       Orphan, NextAttempt

\* Whatever one dial does, as one of the callers' steps or of its own, keeps the invariant.
LEMMA StepKeeps ==
    ASSUME DialInv, NEW d \in Dials,
           DialStep(d) \/ Release(d) \/ Cancel(d) \/ CutShort(d) \/ \E with \in Settings : Begin(d, with)
    PROVE  DialInv'
<1>1. CASE Lock(d)
  BY <1>1, LockKeeps
<1>2. CASE Open(d)
  BY <1>2, OpenKeeps
<1>3. CASE RefuseOpen(d)
  BY <1>3, RefuseOpenKeeps
<1>4. ASSUME NEW k \in 1..MaxAttempts, Answer(d, k) PROVE DialInv'
  BY <1>4, AnswerKeeps
<1>5. ASSUME NEW k \in 1..MaxAttempts, Discard(d, k) PROVE DialInv'
  BY <1>5, DiscardKeeps
<1>6. ASSUME NEW k \in 1..MaxAttempts, NEW what \in {"own", "other"}, Reply(d, k, what)
      PROVE  DialInv'
  BY <1>6, ReplyKeeps
<1>7. CASE Release(d)
  BY <1>7, ReleaseKeeps
<1>8. CASE Cancel(d)
  BY <1>8, CancelKeeps
<1>10. CASE CutShort(d)
  BY <1>10, CutShortKeeps
<1>9. ASSUME NEW with \in Settings, Begin(d, with) PROVE DialInv'
  BY <1>9, BeginKeeps
<1> QED BY <1>1, <1>2, <1>3, <1>4, <1>5, <1>6, <1>7, <1>8, <1>9, <1>10 DEF DialStep

LEMMA NextKeeps == DialInv /\ [DialNext]_dialVars => DialInv'
<1> SUFFICES ASSUME DialInv, [DialNext]_dialVars PROVE DialInv'
  OBVIOUS
<1>1. CASE UNCHANGED dialVars
  BY <1>1, StutterKeeps
<1>2. CASE DialNext
  BY <1>2, StepKeeps DEF DialNext
<1> QED BY <1>1, <1>2

\* What the invariant says of every dial.
LEMMA DialsAreRight ==
    DialInv => DialTypeOK /\ StreamsAccountedFor /\ BudgetIsSpentExactly /\ VerdictFollowsTheEcho
<1> SUFFICES ASSUME DialInv
             PROVE  DialTypeOK /\ StreamsAccountedFor /\ BudgetIsSpentExactly /\ VerdictFollowsTheEcho
  OBVIOUS
<1>1. DialTypeOK /\ Typed
  BY TypedWithMutex DEF DialInv
<1>2. StreamsAccountedFor
  BY DEF DialInv, StreamsOK, StreamsAccountedFor, Orphan, Over
<1>3. BudgetIsSpentExactly
  <2> SUFFICES ASSUME NEW d \in Dials, pc[d] # "idle"
               PROVE  /\ AttemptedIn(rounds[d]) + left[d] + remaining[d] = Budget(d)
                      /\ AttemptedIn(rounds[d]) + left[d] <= Budget(d)
                      /\ pc[d] = "gave_up" => AttemptedIn(rounds[d]) = Budget(d)
                      /\ \A i \in DOMAIN rounds[d] : Attempted(rounds[d][i]) <= Width(d)
    BY DEF BudgetIsSpentExactly
  <2>1. BudgetOK(d) /\ rounds[d] \in Seq(Round) /\ left[d] \in Nat /\ remaining[d] \in Nat
    BY <1>1 DEF DialInv, Typed, Counters
  <2>2. AttemptedIn(rounds[d]) \in Nat /\ DOMAIN rounds[d] = 1..Len(rounds[d])
    BY <2>1, AttemptedInIsNat, LenProperties
  <2>3. AttemptedIn(rounds[d]) + left[d] + remaining[d] = Budget(d)
    BY <2>1 DEF BudgetOK
  <2>4. AttemptedIn(rounds[d]) + left[d] <= Budget(d)
    BY <2>1, <2>2, <2>3
  <2>5. pc[d] = "gave_up" => left[d] = 0 /\ remaining[d] = 0
    BY <2>1 DEF BudgetOK, Resolved
  <2> QED BY <2>1, <2>2, <2>3, <2>4, <2>5 DEF BudgetOK
<1>4. VerdictFollowsTheEcho
  BY DEF DialInv, EchoOK, VerdictFollowsTheEcho, Over
<1> QED BY <1>1, <1>2, <1>3, <1>4

LEMMA Invariance == DialSpec => []DialInv
<1>1. DialInit => DialInv
  BY InitEstablishes
<1>2. DialInv /\ [DialNext]_dialVars => DialInv'
  BY NextKeeps
<1> QED BY <1>1, <1>2, PTL DEF DialSpec

\* Any number of dials, over any budget, stay within their types, and the mutex of open_stream is
\* neither lost nor held twice: a dial waits for it once, holds it only while it opens a stream, and
\* gives its place up when it is aborted (Open's guard in dial.rs).
THEOREM TheMutexIsNeverLost == DialSpec => []DialTypeOK
<1>1. DialInv => DialTypeOK
  BY DialsAreRight
<1> QED BY <1>1, Invariance, PTL

\* Every registered stream is owned by a dial that needs it or by the caller it was returned to, and
\* a dial that is over owns none.  The exception is, for a dial aborted in the middle of an open, the
\* one stream it was opening.
THEOREM EveryStreamHasAnOwner == DialSpec => []StreamsAccountedFor
<1>1. DialInv => StreamsAccountedFor
  BY DialsAreRight
<1> QED BY <1>1, Invariance, PTL

\* The rounds of a dial and what is left to run add up to its budget, whatever the outcomes and
\* however the dials interleave; a dial that gave up spent all of it.
THEOREM TheBudgetIsSpent == DialSpec => []BudgetIsSpentExactly
<1>1. DialInv => BudgetIsSpentExactly
  BY DialsAreRight
<1> QED BY <1>1, Invariance, PTL

\* Only a stream that echoed is returned from a probed dial, and none that echoed is given up.
THEOREM TheEchoDecides == DialSpec => []VerdictFollowsTheEcho
<1>1. DialInv => VerdictFollowsTheEcho
  BY DialsAreRight
<1> QED BY <1>1, Invariance, PTL

-----------------------------------------------------------------------------
(* What a dial leaves behind: the counts of its rounds and the streams they *)
(* are of.                                                                  *)

\* The totals of one count over the rounds.
CountIn(rs, field) == Total([i \in DOMAIN rs |-> rs[i][field]])

CountFields == {"opened", "refused", "unanswered"}

LEMMA CountSeq ==
    ASSUME NEW rs \in Seq(Round), NEW field \in CountFields
    PROVE  /\ [i \in DOMAIN rs |-> rs[i][field]] \in Seq(Nat)
           /\ Len([i \in DOMAIN rs |-> rs[i][field]]) = Len(rs)
           /\ \A i \in 1..Len(rs) : [j \in DOMAIN rs |-> rs[j][field]][i] = rs[i][field]
<1>1. Len(rs) \in Nat /\ DOMAIN rs = 1..Len(rs)
  BY LenProperties
<1>2. \A r \in Round : r[field] \in Nat
  BY DEF Round, CountFields
<1>3. \A i \in 1..Len(rs) : rs[i][field] \in Nat
  BY <1>2, ElementOfSeq
<1> QED BY <1>1, <1>3

LEMMA CountInIsNat ==
    ASSUME NEW rs \in Seq(Round), NEW field \in CountFields
    PROVE  CountIn(rs, field) \in Nat
BY CountSeq, TotalIsNat DEF CountIn

LEMMA CountInNone ==
    ASSUME NEW field
    PROVE  CountIn(<<>>, field) = 0
<1>1. [i \in DOMAIN <<>> |-> <<>>[i][field]] = <<>>
  OBVIOUS
<1> QED BY <1>1, TotalOfNone DEF CountIn

LEMMA CountInWithFresh ==
    ASSUME NEW rs \in Seq(Round), NEW field \in CountFields
    PROVE  CountIn(Append(rs, Fresh), field) = CountIn(rs, field)
<1> DEFINE n == Len(rs)
           more == Append(rs, Fresh)
           b == [i \in DOMAIN rs |-> rs[i][field]]
           c == [i \in DOMAIN more |-> more[i][field]]
<1>1. Fresh \in Round /\ Fresh[field] = 0
  BY DEF Fresh, Round, CountFields
<1>2. /\ n \in Nat /\ more \in Seq(Round) /\ Len(more) = n + 1
      /\ more[n + 1] = Fresh /\ \A i \in 1..n : more[i] = rs[i]
  BY <1>1, AppendProperties, LenProperties
<1>3. /\ b \in Seq(Nat) /\ n = Len(b) /\ \A i \in 1..n : b[i] = rs[i][field]
  BY CountSeq
<1>4. /\ c \in Seq(Nat) /\ Len(c) = Len(more) /\ \A i \in 1..Len(more) : c[i] = more[i][field]
  <2> HIDE DEF more
  <2> QED BY <1>2, CountSeq
<1>5. b \in Seq(Int) /\ c \in Seq(Int)
  <2> HIDE DEF b, c
  <2> QED BY <1>3, <1>4, SeqMonotonic
<1>6. n + 1 = Len(c) /\ c[n + 1] = 0 /\ \A i \in 1..n : b[i] = c[i]
  <2> HIDE DEF b, c, more, n
  <2>1. n + 1 = Len(c) /\ n + 1 \in 1..Len(more)
    BY <1>2, <1>4
  <2>2. c[n + 1] = Fresh[field]
    BY <1>2, <1>4, <2>1
  <2>3. ASSUME NEW i \in 1..n PROVE b[i] = c[i]
    <3>1. i \in 1..Len(more) /\ more[i] = rs[i]
      BY <1>2
    <3> QED BY <1>3, <1>4, <3>1
  <2> QED BY <1>1, <2>1, <2>2, <2>3
<1>7. Total(b) \in Int /\ Total(c) = Total(b) + 0
  <2> HIDE DEF b, c, more, n
  <2> QED BY <1>2, <1>3, <1>5, <1>6, TotalOfOneMore
<1>8. CountIn(rs, field) = Total(b) /\ CountIn(more, field) = Total(c)
  BY DEF CountIn
<1> HIDE DEF b, c
<1> QED BY <1>7, <1>8

LEMMA CountInAmended ==
    ASSUME NEW d \in Dials, rounds[d] \in Seq(Round), rounds[d] # <<>>, NEW r \in Round,
           NEW field \in CountFields
    PROVE  CountIn(Amend(d, r), field)
               = CountIn(rounds[d], field) - Current(d)[field] + r[field]
<1> DEFINE rs == rounds[d]
           n == Len(rs)
           new == Amend(d, r)
           b == [i \in DOMAIN rs |-> rs[i][field]]
           c == [i \in DOMAIN new |-> new[i][field]]
<1>1. n \in Nat \ {0} /\ n \in 1..n
  BY EmptySeq
<1>2. /\ new \in Seq(Round) /\ Len(new) = n
      /\ new[n] = r /\ \A i \in 1..n - 1 : new[i] = rs[i]
  <2>1. /\ new \in Seq(Round) /\ Len(new) = Len(rounds[d])
        /\ new[Len(rounds[d])] = r
        /\ \A i \in 1..Len(rounds[d]) : i # Len(rounds[d]) => new[i] = rounds[d][i]
    <3> HIDE DEF new
    <3> QED BY AmendedRounds DEF new
  <2> HIDE DEF new
  <2> QED BY <1>1, <2>1
<1>3. /\ b \in Seq(Nat) /\ n = Len(b) /\ \A i \in 1..n : b[i] = rs[i][field]
  BY CountSeq
<1>4. /\ c \in Seq(Nat) /\ n = Len(c) /\ \A i \in 1..n : c[i] = new[i][field]
  <2> HIDE DEF new
  <2> QED BY <1>2, CountSeq
<1>5. b \in Seq(Int) /\ c \in Seq(Int)
  <2> HIDE DEF b, c
  <2> QED BY <1>3, <1>4, SeqMonotonic
<1>6. b[n] = rs[n][field] /\ c[n] = r[field] /\ \A i \in 1..n - 1 : b[i] = c[i]
  <2> HIDE DEF b, c, new, rs, n
  <2>1. b[n] = rs[n][field] /\ c[n] = r[field]
    BY <1>1, <1>2, <1>3, <1>4
  <2>2. ASSUME NEW i \in 1..n - 1 PROVE b[i] = c[i]
    <3>1. i \in 1..n /\ new[i] = rs[i]
      BY <1>1, <1>2
    <3> QED BY <1>3, <1>4, <3>1
  <2> QED BY <2>1, <2>2
<1>7. Total(c) = Total(b) - b[n] + c[n]
  <2> HIDE DEF b, c, new, n
  <2> QED BY <1>1, <1>3, <1>4, <1>5, <1>6, TotalOfAnotherLast
<1>8. CountIn(rs, field) = Total(b) /\ CountIn(new, field) = Total(c) /\ Current(d) = rs[n]
  BY DEF CountIn, Current
<1> HIDE DEF b, c
<1> QED BY <1>6, <1>7, <1>8

\* Every open that was tried was opened or refused.
LEMMA AttemptedIsOpenedOrRefused ==
    ASSUME NEW rs \in Seq(Round)
    PROVE  AttemptedIn(rs) = CountIn(rs, "opened") + CountIn(rs, "refused")
<1> DEFINE n == Len(rs)
           a == [i \in DOMAIN rs |-> Attempted(rs[i])]
           b == [i \in DOMAIN rs |-> rs[i]["opened"]]
           c == [i \in DOMAIN rs |-> rs[i]["refused"]]
<1>1. n \in Nat /\ "opened" \in CountFields /\ "refused" \in CountFields
  BY LenProperties DEF CountFields
<1>2. a \in Seq(Nat) /\ n = Len(a) /\ \A i \in 1..n : a[i] = Attempted(rs[i])
  BY AttemptedSeq
<1>3. b \in Seq(Nat) /\ n = Len(b) /\ \A i \in 1..n : b[i] = rs[i]["opened"]
  BY <1>1, CountSeq
<1>4. c \in Seq(Nat) /\ n = Len(c) /\ \A i \in 1..n : c[i] = rs[i]["refused"]
  BY <1>1, CountSeq
<1>5. \A i \in 1..n : a[i] = b[i] + c[i] /\ b[i] \in Nat /\ c[i] \in Nat
  <2>1. \A i \in 1..n : rs[i] \in Round
    BY ElementOfSeq
  <2> HIDE DEF a, b, c
  <2> QED BY <1>2, <1>3, <1>4, <2>1 DEF Attempted, Round
<1>6. a \in Seq(Int) /\ b \in Seq(Int) /\ c \in Seq(Int)
  <2> HIDE DEF a, b, c
  <2> QED BY <1>2, <1>3, <1>4, SeqMonotonic
<1>7. Total(a) = AttemptedIn(rs) /\ Total(b) = CountIn(rs, "opened") /\ Total(c) = CountIn(rs, "refused")
  BY DEF AttemptedIn, CountIn
<1>8. \A i \in 1..n : a[i] = b[i] + c[i]
  <2> HIDE DEF a, b, c
  <2> QED BY <1>5
<1>9. Total(a) = Total(b) + Total(c)
  <2> HIDE DEF a, b, c, n
  <2> QED BY <1>1, <1>2, <1>3, <1>4, <1>6, <1>8, TotalsAdd
<1> QED BY <1>7, <1>9

-----------------------------------------------------------------------------
(* The history of a dial: its rounds agree with the streams the SDK         *)
(* registered for it and with those it still holds.                         *)

Existing(d) == {k \in 1..MaxAttempts : <<d, k>> \in existed}

AnsweredLast(rs) == rs # <<>> /\ rs[Len(rs)].answered

\* Of a dial that is at a place, ran the rounds rs, holds the streams h, and whose streams ex existed.
HistoryOf(place, rs, h, ex, width) ==
    /\ \A i \in 1..Len(rs) :
          rs[i].answered => i = Len(rs) /\ place \in {"returned", "released", "cancelled"}
    /\ place \in {"returned", "released"} => AnsweredLast(rs)
    /\ place # "cut_short" =>
          /\ Cardinality(ex) = CountIn(rs, "opened")
          /\ \A k \in ex : k <= AttemptedIn(rs)
          /\ ex # {} => \E i \in 1..Len(rs) : rs[i].opened > 0
    /\ place \in Dialling \cup {"gave_up"} =>
          CountIn(rs, "opened") = CountIn(rs, "unanswered") + Cardinality(h)
    /\ place \in Dialling => h \subseteq ex /\ Cardinality(h) <= rs[Len(rs)].opened
    /\ AnsweredLast(rs) =>
          /\ CountIn(rs, "unanswered") + 1 <= CountIn(rs, "opened")
          /\ CountIn(rs, "opened") <= CountIn(rs, "unanswered") + width

HistoryOK(d) == HistoryOf(pc[d], rounds[d], held[d], Existing(d), Width(d))

HistoryInv == \A d \in Dials : HistoryOK(d)

\* A set that differs from a finite one in one element at most.
LEMMA OneDiffers ==
    ASSUME NEW S, IsFiniteSet(S), NEW T, NEW x, \A y : y # x => (y \in T <=> y \in S)
    PROVE  /\ IsFiniteSet(T) /\ Cardinality(S) \in Nat /\ Cardinality(T) \in Nat
           /\ (x \in T <=> x \in S) => T = S /\ Cardinality(T) = Cardinality(S)
           /\ x \in T /\ x \notin S => Cardinality(T) = Cardinality(S) + 1
           /\ x \notin T /\ x \in S => Cardinality(T) = Cardinality(S) - 1
<1>1. CASE x \in T <=> x \in S
  <2>1. T = S
    BY <1>1
  <2> QED BY <1>1, <2>1, FS_CardinalityType
<1>2. CASE x \in T /\ x \notin S
  <2>1. T = S \cup {x}
    BY <1>2
  <2> QED BY <1>2, <2>1, FS_CardinalityType, FS_AddElement
<1>3. CASE x \notin T /\ x \in S
  <2>1. T = S \ {x}
    BY <1>3
  <2> QED BY <1>3, <2>1, FS_CardinalityType, FS_RemoveElement
<1> QED BY <1>1, <1>2, <1>3

LEMMA AttemptsAreFinite ==
    ASSUME NEW h \in SUBSET (1..MaxAttempts)
    PROVE  IsFiniteSet(h) /\ Cardinality(h) \in Nat /\ (h # {} => Cardinality(h) >= 1)
<1>1. IsFiniteSet(1..MaxAttempts)
  BY FS_Interval, AttemptsAssumption
<1>2. IsFiniteSet(h) /\ Cardinality(h) \in Nat
  BY <1>1, FS_Subset, FS_CardinalityType
<1>3. h # {} => Cardinality(h) # 0
  BY <1>2, FS_EmptySet
<1> QED BY <1>2, <1>3

\* The history of a dial that went on, with the round it may have begun.
LEMMA HistoryGoesOn ==
    ASSUME NEW place \in {"locking", "probing", "gave_up"},
           NEW rs \in Seq(Round), rs # <<>>, NEW h \in SUBSET (1..MaxAttempts), NEW ex, NEW width,
           NEW new, new = rs \/ (h = {} /\ new = Append(rs, Fresh)),
           \A i \in 1..Len(rs) : ~ rs[i].answered,
           Cardinality(ex) = CountIn(rs, "opened"),
           \A k \in ex : k <= AttemptedIn(rs),
           ex # {} => \E i \in 1..Len(rs) : rs[i].opened > 0,
           h \subseteq ex,
           CountIn(rs, "opened") = CountIn(rs, "unanswered") + Cardinality(h),
           Cardinality(h) <= rs[Len(rs)].opened
    PROVE  HistoryOf(place, new, h, ex, width)
<1>1. CASE new = rs
  <2>1. ~ AnsweredLast(rs)
    <3>1. Len(rs) \in 1..Len(rs)
      BY EmptySeq, LenProperties
    <3> QED BY <3>1 DEF AnsweredLast
  <2>2. place \notin {"returned", "released"}
    OBVIOUS
  <2> QED BY <1>1, <2>1, <2>2 DEF HistoryOf
<1>2. CASE h = {} /\ new = Append(rs, Fresh)
  <2>1. Fresh \in Round /\ ~ Fresh.answered /\ Fresh.opened = 0
    BY DEF Fresh, Round
  <2>2. /\ Len(rs) \in Nat /\ Len(new) = Len(rs) + 1 /\ new[Len(rs) + 1] = Fresh
        /\ \A i \in 1..Len(rs) : new[i] = rs[i]
    BY <1>2, <2>1, AppendProperties, LenProperties
  <2>3. \A i \in 1..Len(new) : ~ new[i].answered
    <3> SUFFICES ASSUME NEW i \in 1..Len(new) PROVE ~ new[i].answered
      OBVIOUS
    <3>1. CASE i \in 1..Len(rs)
      BY <2>2, <3>1
    <3>2. CASE i = Len(rs) + 1
      BY <2>1, <2>2, <3>2
    <3> QED BY <2>2, <3>1, <3>2
  <2>4. Len(new) \in 1..Len(new) /\ new[Len(new)].opened = 0
    BY <2>1, <2>2
  <2>5. ~ AnsweredLast(new)
    BY <2>3, <2>4 DEF AnsweredLast
  <2>6. "opened" \in CountFields /\ "unanswered" \in CountFields
    BY DEF CountFields
  <2>7. /\ CountIn(new, "opened") = CountIn(rs, "opened")
        /\ CountIn(new, "unanswered") = CountIn(rs, "unanswered")
        /\ AttemptedIn(new) = AttemptedIn(rs)
    BY <1>2, <2>6, CountInWithFresh, AttemptedInWithFresh
  <2>8. Cardinality(h) = 0
    BY <1>2, FS_EmptySet
  <2>9. ex # {} => \E i \in 1..Len(new) : new[i].opened > 0
    <3> SUFFICES ASSUME ex # {} PROVE \E i \in 1..Len(new) : new[i].opened > 0
      OBVIOUS
    <3>1. PICK i \in 1..Len(rs) : rs[i].opened > 0
      OBVIOUS
    <3>2. i \in 1..Len(new) /\ new[i] = rs[i]
      BY <2>2
    <3> QED BY <3>1, <3>2
  <2>10. place \notin {"returned", "released"}
    OBVIOUS
  <2>11. Cardinality(h) <= new[Len(new)].opened
    BY <2>4, <2>8
  <2> QED BY <2>3, <2>5, <2>7, <2>9, <2>10, <2>11 DEF HistoryOf
<1> QED BY <1>1, <1>2

LEMMA HistoryFrame ==
    ASSUME HistoryInv, NEW d \in Dials, OthersRest(d),
           \A e \in Dials : e # d => \A k \in 1..MaxAttempts :
               <<e, k>> \in existed' <=> <<e, k>> \in existed,
           HistoryOK(d)'
    PROVE  HistoryInv'
<1> SUFFICES ASSUME NEW e \in Dials, e # d PROVE HistoryOK(e)'
  BY DEF HistoryInv
<1>1. HistoryOK(e)
  BY DEF HistoryInv
<1>2. UNCHANGED <<pc[e], settings[e], rounds[e], held[e]>>
  BY DEF OthersRest
<1>3. Existing(e)' = Existing(e)
  BY DEF Existing
<1>4. Width(e)' = Width(e)
  BY <1>2 DEF Width, Probe
<1> QED BY <1>1, <1>2, <1>3, <1>4 DEF HistoryOK

LEMMA HistoryOfOpen ==
    ASSUME DialInv, HistoryInv, NEW d \in Dials, Open(d)
    PROVE  HistoryInv'
<1> DEFINE k == NextAttempt(d)
           r == [Current(d) EXCEPT !.opened = @ + 1]
           rs == Amend(d, r)
           h == held[d] \cup {k}
           n == Len(rounds[d])
<1>1. /\ pc[d] = "opening" /\ existed' = existed \cup {<<d, k>>} /\ settings' = settings
  BY DEF Open
<1>2. /\ k \in 1..MaxAttempts /\ rounds[d] \in Seq(Round) /\ rounds[d] # <<>>
      /\ Current(d) \in Round
  BY <1>1, OpeningAt
<1>3. /\ r \in Round /\ r["opened"] = Current(d)["opened"] + 1 /\ Current(d)["opened"] \in Nat
      /\ r["unanswered"] = Current(d)["unanswered"] /\ r.answered = Current(d).answered
      /\ Current(d)["unanswered"] \in Nat
      /\ Attempted(r) = Attempted(Current(d)) + 1 /\ Attempted(Current(d)) \in Nat
  BY <1>2, RaisedCounts DEF Round
<1>4. WentOn(d, Unlocked, rs, h, left[d] - 1)
  BY OpenOutcome
<1> HIDE DEF r
<1>5. /\ rs \in Seq(Round) /\ rs # <<>> /\ Len(rs) = n
      /\ AttemptedIn(rs) = AttemptedIn(rounds[d]) - Attempted(Current(d)) + Attempted(r)
      /\ rs[n] = r
      /\ \A i \in 1..n : i # n => rs[i] = rounds[d][i]
  BY <1>2, <1>3, AmendedRounds
<1>6. "opened" \in CountFields /\ "unanswered" \in CountFields /\ n \in 1..n /\ Current(d) = rounds[d][n]
  BY <1>2, EmptySeq, LenProperties DEF CountFields, Current
<1>7. /\ CountIn(rs, "opened") = CountIn(rounds[d], "opened") - Current(d)["opened"] + r["opened"]
      /\ CountIn(rs, "unanswered")
             = CountIn(rounds[d], "unanswered") - Current(d)["unanswered"] + r["unanswered"]
  BY <1>2, <1>3, <1>6, CountInAmended
<1>8. /\ CountIn(rounds[d], "opened") \in Nat /\ CountIn(rounds[d], "unanswered") \in Nat
      /\ AttemptedIn(rounds[d]) \in Nat
  BY <1>2, <1>6, CountInIsNat, AttemptedInIsNat
<1> HIDE DEF rs
<1>9. /\ \A i \in 1..n : ~ rounds[d][i].answered
      /\ Cardinality(Existing(d)) = CountIn(rounds[d], "opened")
      /\ \A j \in Existing(d) : j <= AttemptedIn(rounds[d])
      /\ CountIn(rounds[d], "opened") = CountIn(rounds[d], "unanswered") + Cardinality(held[d])
      /\ held[d] \subseteq Existing(d) /\ Cardinality(held[d]) <= rounds[d][n].opened
  BY <1>1 DEF HistoryInv, HistoryOK, HistoryOf, Dialling, Over
<1>10. k = AttemptedIn(rounds[d]) + 1
  <2>1. BudgetOK(d) /\ left[d] \in Nat /\ remaining[d] \in Nat
    BY TypedWithMutex DEF DialInv, Typed, Counters
  <2>2. AttemptedIn(rounds[d]) + left[d] + remaining[d] = Budget(d)
    BY <1>1, <2>1 DEF BudgetOK
  <2> QED BY <1>8, <2>1, <2>2 DEF NextAttempt
<1>11. Existing(d)' = Existing(d) \cup {k}
  BY <1>1, <1>2 DEF Existing
<1>12. held[d] \in SUBSET (1..MaxAttempts) /\ Existing(d) \in SUBSET (1..MaxAttempts)
  BY TypedWithMutex DEF DialInv, Typed, Existing
<1> HIDE DEF k
<1>13. k \notin Existing(d) /\ k \notin held[d]
  BY <1>8, <1>9, <1>10
<1>14. /\ Cardinality(Existing(d)') = Cardinality(Existing(d)) + 1
       /\ Cardinality(h) = Cardinality(held[d]) + 1
       /\ Cardinality(Existing(d)) \in Nat /\ Cardinality(held[d]) \in Nat
  BY <1>11, <1>12, <1>13, AttemptsAreFinite, FS_AddElement
<1>15. /\ CountIn(rs, "opened") = CountIn(rounds[d], "opened") + 1
       /\ CountIn(rs, "unanswered") = CountIn(rounds[d], "unanswered")
       /\ AttemptedIn(rs) = AttemptedIn(rounds[d]) + 1
  BY <1>3, <1>5, <1>7, <1>8
<1>16. \A i \in 1..Len(rs) : ~ rs[i].answered
  BY <1>3, <1>5, <1>6, <1>9
<1>17. \A j \in Existing(d)' : j <= AttemptedIn(rs)
  <2>1. \A j \in Existing(d) : j \in Nat
    BY <1>12
  <2> QED BY <1>8, <1>9, <1>10, <1>11, <1>15, <2>1
<1>18. /\ Cardinality(Existing(d)') = CountIn(rs, "opened")
       /\ CountIn(rs, "opened") = CountIn(rs, "unanswered") + Cardinality(h)
  BY <1>8, <1>9, <1>14, <1>15
<1>19. rs[Len(rs)].opened = Current(d)["opened"] + 1 /\ Current(d)["opened"] = rounds[d][n].opened
  BY <1>3, <1>5, <1>6
<1>20. /\ Cardinality(h) <= rs[Len(rs)].opened
       /\ \E i \in 1..Len(rs) : rs[i].opened > 0
  <2>1. Cardinality(h) <= rs[Len(rs)].opened /\ rs[Len(rs)].opened > 0
    <3> HIDE DEF h, n
    <3> QED BY <1>3, <1>9, <1>14, <1>19
  <2>2. Len(rs) \in 1..Len(rs)
    BY <1>5, <1>6
  <2> QED BY <2>1, <2>2
<1>21. h \subseteq Existing(d)' /\ h \in SUBSET (1..MaxAttempts)
  BY <1>2, <1>9, <1>11, <1>12
<1>22. /\ pc'[d] \in {"locking", "probing", "gave_up"} /\ held' = [held EXCEPT ![d] = h]
       /\ rounds'[d] = rs \/ (h = {} /\ rounds'[d] = Append(rs, Fresh))
       /\ OthersRest(d)
  BY <1>4 DEF WentOn
<1>23. HistoryOK(d)'
  <2>1. held'[d] = h
    BY <1>22, TypedWithMutex DEF DialInv, Typed
  <2> HIDE DEF h
  <2>2. HistoryOf(pc'[d], rounds'[d], h, Existing(d)', Width(d)')
    BY <1>5, <1>16, <1>17, <1>18, <1>20, <1>21, <1>22, HistoryGoesOn
  <2> QED BY <2>1, <2>2 DEF HistoryOK
<1>24. \A e \in Dials : e # d => \A j \in 1..MaxAttempts :
           <<e, j>> \in existed' <=> <<e, j>> \in existed
  BY <1>1
<1> QED BY <1>22, <1>23, <1>24, HistoryFrame

LEMMA HistoryOfRefusal ==
    ASSUME DialInv, HistoryInv, NEW d \in Dials, RefuseOpen(d)
    PROVE  HistoryInv'
<1> DEFINE r == RefusedOne(Current(d))
           rs == Amend(d, r)
           n == Len(rounds[d])
<1>1. pc[d] = "opening" /\ existed' = existed /\ settings' = settings
  BY DEF RefuseOpen
<1>2. rounds[d] \in Seq(Round) /\ rounds[d] # <<>> /\ Current(d) \in Round
  BY <1>1, OpeningAt
<1>3. /\ r \in Round /\ r["opened"] = Current(d)["opened"] /\ Current(d)["opened"] \in Nat
      /\ r["unanswered"] = Current(d)["unanswered"] /\ r.answered = Current(d).answered
      /\ Current(d)["unanswered"] \in Nat
      /\ Attempted(r) = Attempted(Current(d)) + 1 /\ Attempted(Current(d)) \in Nat
  BY <1>2, RaisedCounts DEF Round, RefusedOne
<1>4. WentOn(d, Unlocked, rs, held[d], left[d] - 1)
  BY RefuseOpenOutcome
<1> HIDE DEF r
<1>5. /\ rs \in Seq(Round) /\ rs # <<>> /\ Len(rs) = n
      /\ AttemptedIn(rs) = AttemptedIn(rounds[d]) - Attempted(Current(d)) + Attempted(r)
      /\ rs[n] = r
      /\ \A i \in 1..n : i # n => rs[i] = rounds[d][i]
  BY <1>2, <1>3, AmendedRounds
<1>6. "opened" \in CountFields /\ "unanswered" \in CountFields /\ n \in 1..n /\ Current(d) = rounds[d][n]
  BY <1>2, EmptySeq, LenProperties DEF CountFields, Current
<1>7. /\ CountIn(rs, "opened") = CountIn(rounds[d], "opened") - Current(d)["opened"] + r["opened"]
      /\ CountIn(rs, "unanswered")
             = CountIn(rounds[d], "unanswered") - Current(d)["unanswered"] + r["unanswered"]
  BY <1>2, <1>3, <1>6, CountInAmended
<1>8. /\ CountIn(rounds[d], "opened") \in Nat /\ CountIn(rounds[d], "unanswered") \in Nat
      /\ AttemptedIn(rounds[d]) \in Nat
  BY <1>2, <1>6, CountInIsNat, AttemptedInIsNat
<1> HIDE DEF rs
<1>9. /\ \A i \in 1..n : ~ rounds[d][i].answered
      /\ Cardinality(Existing(d)) = CountIn(rounds[d], "opened")
      /\ \A j \in Existing(d) : j <= AttemptedIn(rounds[d])
      /\ Existing(d) # {} => \E i \in 1..n : rounds[d][i].opened > 0
      /\ CountIn(rounds[d], "opened") = CountIn(rounds[d], "unanswered") + Cardinality(held[d])
      /\ held[d] \subseteq Existing(d) /\ Cardinality(held[d]) <= rounds[d][n].opened
  BY <1>1 DEF HistoryInv, HistoryOK, HistoryOf, Dialling, Over
<1>10. Existing(d)' = Existing(d)
  BY <1>1 DEF Existing
<1>11. held[d] \in SUBSET (1..MaxAttempts) /\ Existing(d) \in SUBSET (1..MaxAttempts)
  BY TypedWithMutex DEF DialInv, Typed, Existing
<1>12. /\ CountIn(rs, "opened") = CountIn(rounds[d], "opened")
       /\ CountIn(rs, "unanswered") = CountIn(rounds[d], "unanswered")
       /\ AttemptedIn(rs) = AttemptedIn(rounds[d]) + 1
  BY <1>3, <1>5, <1>7, <1>8
<1>13. \A i \in 1..Len(rs) : ~ rs[i].answered /\ rs[i].opened = rounds[d][i].opened
  BY <1>3, <1>5, <1>6, <1>9
<1>14. \A j \in Existing(d)' : j <= AttemptedIn(rs)
  <2>1. \A j \in Existing(d) : j \in Nat
    BY <1>11
  <2> QED BY <1>8, <1>9, <1>10, <1>12, <2>1
<1>15. /\ Cardinality(held[d]) <= rs[Len(rs)].opened
       /\ Existing(d)' # {} => \E i \in 1..Len(rs) : rs[i].opened > 0
  BY <1>5, <1>6, <1>9, <1>10, <1>13
<1>16. /\ pc'[d] \in {"locking", "probing", "gave_up"} /\ held' = [held EXCEPT ![d] = held[d]]
       /\ rounds'[d] = rs \/ (held[d] = {} /\ rounds'[d] = Append(rs, Fresh))
       /\ OthersRest(d)
  BY <1>4 DEF WentOn
<1>17. HistoryOK(d)'
  <2>1. held'[d] = held[d]
    BY <1>16, TypedWithMutex DEF DialInv, Typed
  <2>2. HistoryOf(pc'[d], rounds'[d], held[d], Existing(d)', Width(d)')
    BY <1>5, <1>9, <1>10, <1>11, <1>12, <1>13, <1>14, <1>15, <1>16, HistoryGoesOn
  <2> QED BY <2>1, <2>2 DEF HistoryOK
<1> QED BY <1>1, <1>16, <1>17, HistoryFrame

LEMMA HistoryOfDiscard ==
    ASSUME DialInv, HistoryInv, NEW d \in Dials, NEW k \in 1..MaxAttempts, Discard(d, k)
    PROVE  HistoryInv'
<1> DEFINE r == [Current(d) EXCEPT !.unanswered = @ + 1]
           rs == Amend(d, r)
           h == held[d] \ {k}
           n == Len(rounds[d])
<1>1. pc[d] = "probing" /\ k \in held[d] /\ existed' = existed /\ settings' = settings
  BY DEF Discard
<1>2. rounds[d] \in Seq(Round) /\ rounds[d] # <<>> /\ Current(d) \in Round
  <2>1. rounds[d] \in Seq(Round) /\ rounds[d] # <<>>
    BY <1>1, TypedWithMutex DEF DialInv, Typed, BudgetOK
  <2>2. Len(rounds[d]) \in 1..Len(rounds[d])
    BY <2>1, EmptySeq, LenProperties
  <2> QED BY <2>1, <2>2, ElementOfSeq DEF Current
<1>3. /\ r \in Round /\ r["opened"] = Current(d)["opened"] /\ Current(d)["opened"] \in Nat
      /\ r["unanswered"] = Current(d)["unanswered"] + 1 /\ r.answered = Current(d).answered
      /\ Current(d)["unanswered"] \in Nat
      /\ Attempted(r) = Attempted(Current(d)) /\ Attempted(Current(d)) \in Nat
  BY <1>2, RaisedCounts DEF Round
<1>4. WentOn(d, queue, rs, h, 0)
  BY DiscardOutcome
<1> HIDE DEF r
<1>5. /\ rs \in Seq(Round) /\ rs # <<>> /\ Len(rs) = n
      /\ AttemptedIn(rs) = AttemptedIn(rounds[d]) - Attempted(Current(d)) + Attempted(r)
      /\ rs[n] = r
      /\ \A i \in 1..n : i # n => rs[i] = rounds[d][i]
  BY <1>2, <1>3, AmendedRounds
<1>6. "opened" \in CountFields /\ "unanswered" \in CountFields /\ n \in 1..n /\ Current(d) = rounds[d][n]
  BY <1>2, EmptySeq, LenProperties DEF CountFields, Current
<1>7. /\ CountIn(rs, "opened") = CountIn(rounds[d], "opened") - Current(d)["opened"] + r["opened"]
      /\ CountIn(rs, "unanswered")
             = CountIn(rounds[d], "unanswered") - Current(d)["unanswered"] + r["unanswered"]
  BY <1>2, <1>3, <1>6, CountInAmended
<1>8. /\ CountIn(rounds[d], "opened") \in Nat /\ CountIn(rounds[d], "unanswered") \in Nat
      /\ AttemptedIn(rounds[d]) \in Nat
  BY <1>2, <1>6, CountInIsNat, AttemptedInIsNat
<1> HIDE DEF rs
<1>9. /\ \A i \in 1..n : ~ rounds[d][i].answered
      /\ Cardinality(Existing(d)) = CountIn(rounds[d], "opened")
      /\ \A j \in Existing(d) : j <= AttemptedIn(rounds[d])
      /\ Existing(d) # {} => \E i \in 1..n : rounds[d][i].opened > 0
      /\ CountIn(rounds[d], "opened") = CountIn(rounds[d], "unanswered") + Cardinality(held[d])
      /\ held[d] \subseteq Existing(d) /\ Cardinality(held[d]) <= rounds[d][n].opened
  BY <1>1 DEF HistoryInv, HistoryOK, HistoryOf, Dialling, Over
<1>10. Existing(d)' = Existing(d)
  BY <1>1 DEF Existing
<1>11. held[d] \in SUBSET (1..MaxAttempts) /\ Existing(d) \in SUBSET (1..MaxAttempts)
  BY TypedWithMutex DEF DialInv, Typed, Existing
<1>12. /\ CountIn(rs, "opened") = CountIn(rounds[d], "opened")
       /\ CountIn(rs, "unanswered") = CountIn(rounds[d], "unanswered") + 1
       /\ AttemptedIn(rs) = AttemptedIn(rounds[d])
  BY <1>3, <1>5, <1>7, <1>8
<1>13. \A i \in 1..Len(rs) : ~ rs[i].answered /\ rs[i].opened = rounds[d][i].opened
  BY <1>3, <1>5, <1>6, <1>9
<1>14. Cardinality(held[d]) \in Nat /\ Cardinality(h) = Cardinality(held[d]) - 1
  BY <1>1, <1>11, AttemptsAreFinite, FS_RemoveElement
<1>15. rs[Len(rs)].opened = rounds[d][n].opened /\ rounds[d][n].opened \in Nat
  BY <1>3, <1>5, <1>6
<1>16. /\ Cardinality(h) <= rs[Len(rs)].opened
       /\ CountIn(rs, "opened") = CountIn(rs, "unanswered") + Cardinality(h)
  <2> HIDE DEF h, n
  <2> QED BY <1>8, <1>9, <1>12, <1>14, <1>15
<1>17. Existing(d)' # {} => \E i \in 1..Len(rs) : rs[i].opened > 0
  BY <1>5, <1>9, <1>10, <1>13
<1>18. /\ pc'[d] \in {"locking", "probing", "gave_up"} /\ held' = [held EXCEPT ![d] = h]
       /\ rounds'[d] = rs \/ (h = {} /\ rounds'[d] = Append(rs, Fresh))
       /\ OthersRest(d)
  BY <1>4 DEF WentOn
<1>19. h \in SUBSET (1..MaxAttempts) /\ h \subseteq Existing(d)'
  BY <1>9, <1>10, <1>11
<1>20. HistoryOK(d)'
  <2>1. held'[d] = h
    BY <1>18, TypedWithMutex DEF DialInv, Typed
  <2> HIDE DEF h
  <2>2. \A i \in 1..Len(rs) : ~ rs[i].answered
    BY <1>13
  <2>3. /\ Cardinality(Existing(d)') = CountIn(rs, "opened")
        /\ \A j \in Existing(d)' : j <= AttemptedIn(rs)
    BY <1>9, <1>10, <1>12
  <2>4. HistoryOf(pc'[d], rounds'[d], h, Existing(d)', Width(d)')
    BY <1>5, <1>16, <1>17, <1>18, <1>19, <2>2, <2>3, HistoryGoesOn
  <2> QED BY <2>1, <2>4 DEF HistoryOK
<1> QED BY <1>1, <1>18, <1>20, HistoryFrame

LEMMA HistoryOfAnswer ==
    ASSUME DialInv, HistoryInv, NEW d \in Dials, NEW k \in 1..MaxAttempts, Answer(d, k)
    PROVE  HistoryInv'
<1> DEFINE r == [Current(d) EXCEPT !.answered = TRUE]
           rs == Amend(d, r)
           n == Len(rounds[d])
<1>1. /\ pc[d] = "probing" /\ k \in held[d] /\ pc' = [pc EXCEPT ![d] = "returned"]
      /\ rounds' = [rounds EXCEPT ![d] = rs] /\ held' = [held EXCEPT ![d] = {k}]
      /\ UNCHANGED <<settings, remaining, left, existed>>
  BY DEF Answer, Move
<1>2. Typed /\ BudgetOK(d)
  BY TypedWithMutex DEF DialInv
<1>3. rounds[d] \in Seq(Round) /\ rounds[d] # <<>> /\ Current(d) \in Round
  <2>1. rounds[d] \in Seq(Round) /\ rounds[d] # <<>>
    BY <1>1, <1>2 DEF Typed, BudgetOK
  <2>2. Len(rounds[d]) \in 1..Len(rounds[d])
    BY <2>1, EmptySeq, LenProperties
  <2> QED BY <2>1, <2>2, ElementOfSeq DEF Current
<1>4. /\ r \in Round /\ r["opened"] = Current(d)["opened"] /\ Current(d)["opened"] \in Nat
      /\ r["unanswered"] = Current(d)["unanswered"] /\ r.answered
      /\ Current(d)["unanswered"] \in Nat
      /\ Attempted(r) = Attempted(Current(d)) /\ Attempted(Current(d)) \in Nat
  BY <1>3, RaisedCounts DEF Round
<1> HIDE DEF r
<1>5. /\ rs \in Seq(Round) /\ rs # <<>> /\ Len(rs) = n
      /\ AttemptedIn(rs) = AttemptedIn(rounds[d]) - Attempted(Current(d)) + Attempted(r)
      /\ rs[n] = r
      /\ \A i \in 1..n : i # n => rs[i] = rounds[d][i]
  BY <1>3, <1>4, AmendedRounds
<1>6. "opened" \in CountFields /\ "unanswered" \in CountFields /\ n \in 1..n /\ Current(d) = rounds[d][n]
  BY <1>3, EmptySeq, LenProperties DEF CountFields, Current
<1>7. /\ CountIn(rs, "opened") = CountIn(rounds[d], "opened") - Current(d)["opened"] + r["opened"]
      /\ CountIn(rs, "unanswered")
             = CountIn(rounds[d], "unanswered") - Current(d)["unanswered"] + r["unanswered"]
  BY <1>3, <1>4, <1>6, CountInAmended
<1>8. /\ CountIn(rounds[d], "opened") \in Nat /\ CountIn(rounds[d], "unanswered") \in Nat
      /\ AttemptedIn(rounds[d]) \in Nat
  BY <1>3, <1>6, CountInIsNat, AttemptedInIsNat
<1> HIDE DEF rs
<1>9. /\ \A i \in 1..n : ~ rounds[d][i].answered
      /\ Cardinality(Existing(d)) = CountIn(rounds[d], "opened")
      /\ \A j \in Existing(d) : j <= AttemptedIn(rounds[d])
      /\ Existing(d) # {} => \E i \in 1..n : rounds[d][i].opened > 0
      /\ CountIn(rounds[d], "opened") = CountIn(rounds[d], "unanswered") + Cardinality(held[d])
      /\ Cardinality(held[d]) <= rounds[d][n].opened
  BY <1>1 DEF HistoryInv, HistoryOK, HistoryOf, Dialling, Over
<1>10. Existing(d)' = Existing(d) /\ Width(d)' = Width(d)
  BY <1>1 DEF Existing, Width, Probe
<1>11. /\ CountIn(rs, "opened") = CountIn(rounds[d], "opened")
       /\ CountIn(rs, "unanswered") = CountIn(rounds[d], "unanswered")
       /\ AttemptedIn(rs) = AttemptedIn(rounds[d])
  BY <1>4, <1>5, <1>7, <1>8
<1>12. /\ \A i \in 1..Len(rs) : rs[i].answered => i = Len(rs)
       /\ \A i \in 1..Len(rs) : rs[i].opened = rounds[d][i].opened
       /\ AnsweredLast(rs)
  BY <1>4, <1>5, <1>6, <1>9 DEF AnsweredLast
<1>13. rounds[d][n].opened <= Width(d) /\ rounds[d][n].opened \in Nat /\ Width(d) \in Nat
  <2>1. Attempted(Current(d)) <= Width(d)
    BY <1>1, <1>2, <1>6 DEF BudgetOK
  <2>2. Width(d) \in Nat
    BY <1>2, SettingsOf DEF Typed, Width, Probe
  <2>3. Current(d).refused \in Nat /\ Current(d).opened \in Nat
    BY <1>3 DEF Round
  <2>4. Current(d).opened + Current(d).refused <= Width(d)
    BY <2>1 DEF Attempted
  <2>5. \A a, b, c \in Nat : a + b <= c => a <= c
    OBVIOUS
  <2> QED BY <1>6, <2>2, <2>3, <2>4, <2>5
<1>14. Cardinality(held[d]) \in Nat /\ Cardinality(held[d]) >= 1
  <2>1. held[d] \in SUBSET (1..MaxAttempts)
    BY <1>2 DEF Typed
  <2> QED BY <1>1, <2>1, AttemptsAreFinite
<1>15. /\ CountIn(rs, "unanswered") + 1 <= CountIn(rs, "opened")
       /\ CountIn(rs, "opened") <= CountIn(rs, "unanswered") + Width(d)
  <2> HIDE DEF n
  <2> QED BY <1>8, <1>9, <1>11, <1>13, <1>14
<1>16. Existing(d) # {} => \E i \in 1..Len(rs) : rs[i].opened > 0
  BY <1>5, <1>9, <1>12
<1>17. pc'[d] = "returned" /\ rounds'[d] = rs /\ OthersRest(d)
  BY <1>1, <1>2 DEF OthersRest, Typed
<1>18. HistoryOK(d)'
  BY <1>9, <1>10, <1>11, <1>12, <1>15, <1>16, <1>17 DEF HistoryOK, HistoryOf, Dialling
<1> QED BY <1>1, <1>17, <1>18, HistoryFrame

LEMMA HistoryOfBegin ==
    ASSUME DialInv, HistoryInv, NEW d \in Dials, NEW with \in Settings, Begin(d, with)
    PROVE  HistoryInv'
<1> DEFINE none == <<>>
           one == Append(none, Fresh)
<1>1. /\ pc[d] \in {"idle", "gave_up", "released"} /\ held' = held
      /\ rounds' = [rounds EXCEPT ![d] = one]
      /\ pc' = [pc EXCEPT ![d] = "locking"]
      /\ existed' = {s \in existed : s[1] # d}
  BY DEF Begin, BeginRound, Move
<1>2. Typed /\ StreamsOK(d)
  BY TypedWithMutex DEF DialInv
<1>3. /\ OthersRest(d) /\ pc'[d] = "locking" /\ rounds'[d] = one /\ held'[d] = {}
  <2>1. held[d] = {}
    BY <1>1, <1>2 DEF StreamsOK, Over
  <2> QED BY <1>1, <1>2, <2>1 DEF Typed, OthersRest, Begin, BeginRound, Counters
<1>4. Existing(d)' = {}
  BY <1>1 DEF Existing
<1>5. none \in Seq(Round) /\ "opened" \in CountFields /\ "unanswered" \in CountFields
  BY DEF CountFields
<1>6. /\ CountIn(one, "opened") = CountIn(none, "opened")
      /\ CountIn(one, "unanswered") = CountIn(none, "unanswered")
  BY <1>5, CountInWithFresh
<1>7. CountIn(one, "opened") = 0 /\ CountIn(one, "unanswered") = 0
  BY <1>6, CountInNone
<1>8. Len(one) = 1 /\ one[1] = Fresh /\ ~ Fresh.answered /\ Fresh.opened = 0
  BY DEF Fresh
<1>9. Cardinality({}) = 0
  BY FS_EmptySet
<1>10. ~ AnsweredLast(one) /\ \A i \in 1..Len(one) : ~ one[i].answered
  BY <1>8 DEF AnsweredLast
<1> HIDE DEF one, none
<1>11. HistoryOf("locking", one, {}, {}, Width(d)')
  <2>1. Cardinality({}) <= one[Len(one)].opened
    BY <1>8, <1>9
  <2>2. CountIn(one, "opened") = CountIn(one, "unanswered") + Cardinality({})
    BY <1>7, <1>9
  <2> QED BY <1>7, <1>9, <1>10, <2>1, <2>2 DEF HistoryOf
<1>12. HistoryOK(d)'
  BY <1>3, <1>4, <1>11 DEF HistoryOK
<1>13. \A e \in Dials : e # d => \A k \in 1..MaxAttempts :
           <<e, k>> \in existed' <=> <<e, k>> \in existed
  BY <1>1
<1> QED BY <1>3, <1>12, <1>13, HistoryFrame

\* A dial aborted while it opened a stream had none that answered.
LEMMA HistoryOfCutShort ==
    ASSUME DialInv, HistoryInv, NEW d \in Dials, CutShort(d)
    PROVE  HistoryInv'
<1>1. Typed /\ HistoryOK(d)
  BY TypedWithMutex DEF DialInv, HistoryInv
<1>2. /\ pc[d] = "opening" /\ pc' = [pc EXCEPT ![d] = "cut_short"]
      /\ held' = [held EXCEPT ![d] = {}] /\ existed' = existed \cup {<<d, NextAttempt(d)>>}
      /\ UNCHANGED <<settings, remaining, left, rounds>>
  BY DEF CutShort, Dropped, Move
<1>3. OthersRest(d) /\ pc'[d] = "cut_short"
  BY <1>1, <1>2 DEF OthersRest, Typed
<1>4. \A i \in 1..Len(rounds[d]) : ~ rounds[d][i].answered
  BY <1>1, <1>2 DEF HistoryOK, HistoryOf
<1>5. ~ AnsweredLast(rounds[d])
  <2>1. rounds[d] # <<>> => Len(rounds[d]) \in 1..Len(rounds[d])
    BY <1>1, EmptySeq, LenProperties DEF Typed
  <2> QED BY <1>4, <2>1 DEF AnsweredLast
<1>6. HistoryOK(d)'
  BY <1>2, <1>3, <1>4, <1>5 DEF HistoryOK, HistoryOf, Dialling
<1>7. \A e \in Dials : e # d => \A k \in 1..MaxAttempts :
          <<e, k>> \in existed' <=> <<e, k>> \in existed
  BY <1>2
<1> QED BY <1>3, <1>6, <1>7, HistoryFrame

\* The steps that leave a dial's rounds alone.
LEMMA HistoryOfTheRest ==
    ASSUME DialInv, HistoryInv, NEW d \in Dials,
           \/ Lock(d) \/ Release(d) \/ Cancel(d)
           \/ \E k \in 1..MaxAttempts, what \in {"own", "other"} : Reply(d, k, what)
    PROVE  HistoryInv'
<1>1. Typed /\ HistoryOK(d)
  BY TypedWithMutex DEF DialInv, HistoryInv
<1>2. /\ UNCHANGED <<settings, rounds, existed>>
      /\ \/ pc[d] = "locking" /\ pc' = [pc EXCEPT ![d] = "opening"] /\ held' = held
         \/ pc[d] = "returned" /\ pc' = [pc EXCEPT ![d] = "released"] /\ held' = [held EXCEPT ![d] = {}]
         \/ /\ pc[d] # "cut_short"
            /\ pc' = [pc EXCEPT ![d] = "cancelled"] /\ held' = [held EXCEPT ![d] = {}]
         \/ pc' = pc /\ held' = held
  BY DEF Lock, Release, Cancel, Dropped, Reply, Move, Dialling
<1>3. OthersRest(d)
  <2>1. UNCHANGED <<remaining, left>>
    BY DEF Lock, Release, Cancel, Dropped, Reply
  <2> QED BY <1>1, <1>2, <2>1 DEF OthersRest, Typed
<1>4. Existing(d)' = Existing(d) /\ Width(d)' = Width(d) /\ rounds'[d] = rounds[d]
  BY <1>2 DEF Existing, Width, Probe
<1>5. \/ pc[d] = "locking" /\ pc'[d] = "opening" /\ held'[d] = held[d]
      \/ pc[d] = "returned" /\ pc'[d] = "released" /\ held'[d] = {}
      \/ pc[d] # "cut_short" /\ pc'[d] = "cancelled" /\ held'[d] = {}
      \/ pc'[d] = pc[d] /\ held'[d] = held[d]
  BY <1>1, <1>2 DEF Typed
<1>6. HistoryOK(d)'
  BY <1>1, <1>4, <1>5 DEF HistoryOK, HistoryOf, Dialling, Over
<1> QED BY <1>2, <1>3, <1>6, HistoryFrame

LEMMA HistoryOfInit == DialInit => HistoryInv
<1> SUFFICES ASSUME DialInit, NEW d \in Dials PROVE HistoryOK(d)
  BY DEF HistoryInv
<1>1. pc[d] = "idle" /\ rounds[d] = <<>> /\ Existing(d) = {}
  BY DEF DialInit, Existing
<1>2. Cardinality({}) = 0 /\ CountIn(<<>>, "opened") = 0
  BY FS_EmptySet, CountInNone
<1>3. ~ AnsweredLast(<<>>) /\ Len(<<>>) = 0
  BY DEF AnsweredLast
<1> QED BY <1>1, <1>2, <1>3 DEF HistoryOK, HistoryOf, Dialling

LEMMA HistoryOfStep ==
    ASSUME DialInv, HistoryInv, NEW d \in Dials,
           DialStep(d) \/ Release(d) \/ Cancel(d) \/ CutShort(d) \/ \E with \in Settings : Begin(d, with)
    PROVE  HistoryInv'
<1>1. CASE Lock(d) \/ Release(d) \/ Cancel(d)
  BY <1>1, HistoryOfTheRest
<1>8. CASE CutShort(d)
  BY <1>8, HistoryOfCutShort
<1>2. CASE Open(d)
  BY <1>2, HistoryOfOpen
<1>3. CASE RefuseOpen(d)
  BY <1>3, HistoryOfRefusal
<1>4. ASSUME NEW k \in 1..MaxAttempts, Answer(d, k) PROVE HistoryInv'
  BY <1>4, HistoryOfAnswer
<1>5. ASSUME NEW k \in 1..MaxAttempts, Discard(d, k) PROVE HistoryInv'
  BY <1>5, HistoryOfDiscard
<1>6. ASSUME NEW k \in 1..MaxAttempts, NEW what \in {"own", "other"}, Reply(d, k, what)
      PROVE  HistoryInv'
  BY <1>6, HistoryOfTheRest
<1>7. ASSUME NEW with \in Settings, Begin(d, with) PROVE HistoryInv'
  BY <1>7, HistoryOfBegin
<1> QED BY <1>1, <1>2, <1>3, <1>4, <1>5, <1>6, <1>7, <1>8 DEF DialStep

LEMMA HistoryOfStutter ==
    ASSUME HistoryInv, UNCHANGED dialVars
    PROVE  HistoryInv'
BY DEF dialVars, HistoryInv, HistoryOK, Existing, Width, Probe

\* What was counted of a dial's rounds agrees with the streams the SDK registered for it and with
\* those it holds, and only its last round was answered (but for the stream an abort cut short, which
\* no round counts).
THEOREM RoundsTellTheStreams == DialSpec => []HistoryInv
<1>1. DialInit => HistoryInv
  BY HistoryOfInit
<1>2. DialInv /\ HistoryInv /\ [DialNext]_dialVars => HistoryInv'
  BY HistoryOfStep, HistoryOfStutter DEF DialNext
<1> QED BY <1>1, <1>2, Invariance, PTL DEF DialSpec

-----------------------------------------------------------------------------
(* The size of a dial's rounds: every round but the last is as wide as the  *)
(* settings say and ended with every stream unanswered, and the last takes  *)
(* what the budget still has.                                               *)

\* What n rounds of a width may claim of a budget.
Claimed(n, width) == n * width

\* Of a dial that is at a place, ran the rounds rs, has rem of its budget unclaimed and l opens of the
\* last round still to run, and holds the streams h.
ShapeOf(place, rs, rem, l, h, budget, width) ==
    /\ rs # <<>>
    /\ Claimed(Len(rs) - 1, width) < budget
    /\ rem = IF Claimed(Len(rs), width) < budget THEN budget - Claimed(Len(rs), width) ELSE 0
    /\ \A i \in 1..Len(rs) - 1 : Attempted(rs[i]) = width /\ rs[i].opened = rs[i].unanswered
    /\ Attempted(rs[Len(rs)]) + l = RoundSize(width, budget - Claimed(Len(rs) - 1, width))
    /\ place \in Dialling \cup {"gave_up"} =>
          rs[Len(rs)].opened = rs[Len(rs)].unanswered + Cardinality(h)
    /\ place \in {"returned"} \cup Over /\ AnsweredLast(rs) =>
          rs[Len(rs)].opened > rs[Len(rs)].unanswered

ShapeOK(d) ==
    pc[d] # "idle" =>
        ShapeOf(pc[d], rounds[d], remaining[d], left[d], held[d], Budget(d), Width(d))

ShapeInv == \A d \in Dials : ShapeOK(d)

LEMMA ClaimsAddUp ==
    ASSUME NEW n \in Nat, NEW width \in Nat
    PROVE  /\ Claimed(n, width) \in Nat
           /\ Claimed(0, width) = 0
           /\ Claimed(n + 1, width) = Claimed(n, width) + width
<1>1. n * width \in Nat /\ 0 * width = 0 /\ (n + 1) * width = n * width + width
  OBVIOUS
<1> QED BY <1>1 DEF Claimed

LEMMA ShapeOfNextRound ==
    ASSUME NEW rs \in Seq(Round), NEW rem \in Nat \ {0}, NEW budget \in Nat, NEW width \in Nat \ {0},
           ShapeOf("locking", rs, rem, 0, {}, budget, width)
    PROVE  ShapeOf("locking", Append(rs, Fresh), rem - RoundSize(width, rem),
                   RoundSize(width, rem), {}, budget, width)
<1> DEFINE n == Len(rs)
           new == Append(rs, Fresh)
           size == RoundSize(width, rem)
<1>1. Fresh \in Round /\ Attempted(Fresh) = 0 /\ Fresh.opened = 0 /\ Fresh.unanswered = 0
  BY DEF Fresh, Round, Attempted
<1>2. n \in Nat \ {0} /\ n \in 1..n /\ n - 1 \in Nat /\ n - 1 + 1 = n
  BY EmptySeq, LenProperties DEF ShapeOf
<1>3. /\ new \in Seq(Round) /\ Len(new) = n + 1 /\ new # <<>> /\ new[n + 1] = Fresh
      /\ \A i \in 1..n : new[i] = rs[i]
  BY <1>1, <1>2, AppendProperties
<1>4. /\ Claimed(n - 1, width) \in Nat /\ Claimed(n, width) \in Nat /\ Claimed(n + 1, width) \in Nat
      /\ Claimed(n, width) = Claimed(n - 1, width) + width
      /\ Claimed(n + 1, width) = Claimed(n, width) + width
  <2>1. n + 1 \in Nat
    BY <1>2
  <2> HIDE DEF n
  <2> QED BY <1>2, <2>1, ClaimsAddUp
<1>5. rem = budget - Claimed(n, width) /\ Claimed(n, width) < budget
  BY DEF ShapeOf
<1>6. size = IF width < rem THEN width ELSE rem
  BY DEF RoundSize
<1>7. rem - size = IF Claimed(n + 1, width) < budget THEN budget - Claimed(n + 1, width) ELSE 0
  <2> HIDE DEF n, size
  <2> QED BY <1>4, <1>5, <1>6
<1>8. Attempted(rs[n]) = width /\ rs[n].opened = rs[n].unanswered
  <2>1. rs[n] \in Round
    BY <1>2, ElementOfSeq
  <2>2. Attempted(rs[n]) + 0 = RoundSize(width, budget - Claimed(n - 1, width))
    BY DEF ShapeOf
  <2>3. Attempted(rs[n]) \in Nat /\ rs[n].opened \in Nat /\ rs[n].unanswered \in Nat
    BY <2>1, AttemptedIsNat DEF Round
  <2>4. rs[n].opened = rs[n].unanswered + 0
    BY FS_EmptySet DEF ShapeOf, Dialling
  <2> HIDE DEF n, new, size
  <2>5. width < budget - Claimed(n - 1, width)
    BY <1>4, <1>5
  <2>6. RoundSize(width, budget - Claimed(n - 1, width)) = width
    BY <2>5 DEF RoundSize
  <2> QED BY <2>2, <2>3, <2>4, <2>6
<1>9. \A i \in 1..n : Attempted(new[i]) = width /\ new[i].opened = new[i].unanswered
  <2>1. \A i \in 1..n - 1 : Attempted(rs[i]) = width /\ rs[i].opened = rs[i].unanswered
    BY DEF ShapeOf
  <2> HIDE DEF n, new
  <2> QED BY <1>2, <1>3, <1>8, <2>1
<1>10. Attempted(new[n + 1]) + size = RoundSize(width, budget - Claimed(n, width))
  <2>1. size \in Nat
    BY <1>6
  <2> HIDE DEF n, new
  <2> QED BY <1>1, <1>3, <1>5, <2>1
<1>11. new[n + 1].opened = new[n + 1].unanswered + Cardinality({})
  <2> HIDE DEF n, new
  <2> QED BY <1>1, <1>3, FS_EmptySet
<1>12. Len(new) - 1 = n
  <2> HIDE DEF n, new
  <2> QED BY <1>2, <1>3
<1> HIDE DEF n, new, size
<1>13. ShapeOf("locking", new, rem - size, size, {}, budget, width)
  BY <1>3, <1>5, <1>7, <1>9, <1>10, <1>11, <1>12 DEF ShapeOf, Over
<1> QED BY <1>13 DEF new, size

LEMMA ShapeGoesOn ==
    ASSUME DialTypeOK, NEW d \in Dials, settings' = settings,
           NEW q, NEW rs \in Seq(Round), NEW h \in SUBSET (1..MaxAttempts), NEW opens \in Nat,
           Proceed(d, q, rs, h, opens),
           ShapeOf("locking", rs, remaining[d], opens, h, Budget(d), Width(d))
    PROVE  ShapeOK(d)'
<1>1. /\ pc \in [Dials -> Places] /\ remaining \in Counters /\ left \in Counters
      /\ rounds \in [Dials -> Seq(Round)] /\ held \in [Dials -> SUBSET (1..MaxAttempts)]
      /\ settings \in [Dials -> Settings]
  BY TypedWithMutex DEF Typed
<1>2. Budget(d)' = Budget(d) /\ Width(d)' = Width(d)
  BY DEF Budget, Width, Probe
<1>3. Budget(d) \in 1..MaxAttempts /\ Width(d) \in 1..MaxAttempts /\ remaining[d] \in Nat
  BY <1>1, SettingsOf DEF Budget, Width, Probe, Counters
<1>4. held'[d] = h
  BY <1>1 DEF Proceed
<1>5. CASE opens = 0 /\ h = {} /\ remaining[d] > 0
  <2> DEFINE size == RoundSize(Width(d), remaining[d])
  <2>0. BeginRound(d, Width(d), remaining[d], q, rs)
    BY <1>5 DEF Proceed
  <2>1. /\ pc'[d] = "locking" /\ rounds'[d] = Append(rs, Fresh)
        /\ remaining'[d] = remaining[d] - size /\ left'[d] = size
    BY <1>1, <2>0 DEF BeginRound, Move, Counters
  <2>2. ShapeOf("locking", Append(rs, Fresh), remaining[d] - size, size, {}, Budget(d), Width(d))
    BY <1>3, <1>5, ShapeOfNextRound
  <2> HIDE DEF size
  <2> QED BY <1>2, <1>4, <1>5, <2>1, <2>2 DEF ShapeOK
<1>6. CASE ~ (opens = 0 /\ h = {} /\ remaining[d] > 0)
  <2>1. /\ pc'[d] \in {"locking", "probing", "gave_up"} /\ rounds'[d] = rs
        /\ remaining'[d] = remaining[d] /\ left'[d] = opens
    BY <1>1, <1>6 DEF Proceed, Move, Counters
  <2> QED BY <1>2, <1>4, <2>1 DEF ShapeOK, ShapeOf, Dialling, Over
<1> QED BY <1>5, <1>6

\* The last round of a dial with another outcome counted, and the opens and streams that follow.
LEMMA ShapeAmended ==
    ASSUME NEW d \in Dials, rounds[d] \in Seq(Round), pc[d] \in Dialling, ShapeOK(d),
           NEW r \in Round, NEW opens \in Nat, NEW h,
           Attempted(r) + opens = Attempted(Current(d)) + left[d],
           r.opened = r.unanswered + Cardinality(h)
    PROVE  ShapeOf("locking", Amend(d, r), remaining[d], opens, h, Budget(d), Width(d))
<1> DEFINE n == Len(rounds[d])
           new == Amend(d, r)
<1>1. ShapeOf(pc[d], rounds[d], remaining[d], left[d], held[d], Budget(d), Width(d))
  BY DEF ShapeOK, Dialling
<1>2. rounds[d] # <<>> /\ n \in Nat
  BY <1>1, LenProperties DEF ShapeOf
<1>3. /\ new # <<>> /\ Len(new) = n /\ new[n] = r
      /\ \A i \in 1..n : i # n => new[i] = rounds[d][i]
  BY <1>2, AmendedRounds
<1> HIDE DEF new
<1>4. \A i \in 1..n - 1 : new[i] = rounds[d][i]
  BY <1>2, <1>3
<1>5. Attempted(new[n]) + opens = Attempted(rounds[d][n]) + left[d]
  BY <1>3 DEF Current
<1> HIDE DEF n
<1>6. ShapeOf("locking", new, remaining[d], opens, h, Budget(d), Width(d))
  BY <1>1, <1>3, <1>4, <1>5 DEF ShapeOf, Over, n
<1> QED BY <1>6 DEF new

LEMMA ShapeFrame ==
    ASSUME ShapeInv, NEW d \in Dials, OthersRest(d), ShapeOK(d)'
    PROVE  ShapeInv'
<1> SUFFICES ASSUME NEW e \in Dials, e # d PROVE ShapeOK(e)'
  BY DEF ShapeInv
<1>1. ShapeOK(e)
  BY DEF ShapeInv
<1>2. UNCHANGED <<pc[e], settings[e], remaining[e], left[e], rounds[e], held[e]>>
  BY DEF OthersRest
<1> QED BY <1>1, <1>2 DEF ShapeOK, Budget, Width, Probe

\* The open round a dial is in, and its counts.
LEMMA CurrentRound ==
    ASSUME DialInv, ShapeInv, NEW d \in Dials, pc[d] \in Dialling
    PROVE  /\ ShapeOK(d) /\ rounds[d] \in Seq(Round) /\ rounds[d] # <<>> /\ Current(d) \in Round
           /\ Current(d).opened \in Nat /\ Current(d).unanswered \in Nat
           /\ Attempted(Current(d)) \in Nat /\ left[d] \in Nat
           /\ held[d] \in SUBSET (1..MaxAttempts)
           /\ IsFiniteSet(held[d]) /\ Cardinality(held[d]) \in Nat
           /\ Current(d).opened = Current(d).unanswered + Cardinality(held[d])
<1>1. Typed /\ ShapeOK(d)
  BY TypedWithMutex DEF DialInv, ShapeInv
<1>2. rounds[d] \in Seq(Round) /\ rounds[d] # <<>>
  BY <1>1 DEF Typed, ShapeOK, ShapeOf, Dialling
<1>3. Current(d) \in Round
  <2>1. Len(rounds[d]) \in 1..Len(rounds[d])
    BY <1>2, EmptySeq, LenProperties
  <2> QED BY <1>2, <2>1, ElementOfSeq DEF Current
<1>4. Current(d).opened = Current(d).unanswered + Cardinality(held[d])
  BY <1>1 DEF ShapeOK, ShapeOf, Current, Dialling
<1>5. held[d] \in SUBSET (1..MaxAttempts) /\ left[d] \in Nat
  BY <1>1 DEF Typed, Counters
<1> QED BY <1>1, <1>2, <1>3, <1>4, <1>5, AttemptedIsNat, AttemptsAreFinite DEF Round

LEMMA ShapeOfOpen ==
    ASSUME DialInv, HistoryInv, ShapeInv, NEW d \in Dials, Open(d)
    PROVE  ShapeInv'
<1> DEFINE k == NextAttempt(d)
           r == [Current(d) EXCEPT !.opened = @ + 1]
           h == held[d] \cup {k}
           opens == left[d] - 1
<1>1. /\ pc[d] = "opening" /\ settings' = settings
      /\ Proceed(d, Unlocked, Amend(d, r), h, opens)
  BY DEF Open
<1>2. DialTypeOK /\ Typed /\ BudgetOK(d) /\ HistoryOK(d)
  BY TypedWithMutex DEF DialInv, HistoryInv
<1>3. /\ ShapeOK(d) /\ rounds[d] \in Seq(Round) /\ rounds[d] # <<>> /\ Current(d) \in Round
      /\ Current(d).opened \in Nat /\ Current(d).unanswered \in Nat
      /\ Attempted(Current(d)) \in Nat /\ left[d] \in Nat
      /\ held[d] \in SUBSET (1..MaxAttempts)
      /\ IsFiniteSet(held[d]) /\ Cardinality(held[d]) \in Nat
      /\ Current(d).opened = Current(d).unanswered + Cardinality(held[d])
  BY <1>1, CurrentRound DEF Dialling
<1>4. k \in 1..MaxAttempts /\ opens \in Nat
  BY <1>1, OpeningAt
<1>5. k \notin held[d]
  <2>1. /\ \A j \in Existing(d) : j <= AttemptedIn(rounds[d])
        /\ held[d] \subseteq Existing(d)
    BY <1>1, <1>2 DEF HistoryOK, HistoryOf, Dialling
  <2>2. AttemptedIn(rounds[d]) + left[d] + remaining[d] = Budget(d)
    BY <1>1, <1>2 DEF BudgetOK
  <2>3. AttemptedIn(rounds[d]) \in Nat /\ remaining[d] \in Nat
    BY <1>2, <1>3, AttemptedInIsNat DEF Typed, Counters
  <2>4. k = AttemptedIn(rounds[d]) + 1
    BY <1>3, <2>2, <2>3 DEF NextAttempt
  <2> HIDE DEF k
  <2> QED BY <2>1, <2>3, <2>4
<1>6. h \in SUBSET (1..MaxAttempts) /\ Cardinality(h) = Cardinality(held[d]) + 1
  BY <1>3, <1>4, <1>5, FS_AddElement
<1>7. r \in Round /\ Attempted(r) = Attempted(Current(d)) + 1
  BY <1>3, RaisedCounts
<1>8. Attempted(r) + opens = Attempted(Current(d)) + left[d]
  <2> HIDE DEF r
  <2> QED BY <1>3, <1>7
<1>9. r.opened = r.unanswered + Cardinality(h)
  <2>1. r.opened = Current(d).opened + 1 /\ r.unanswered = Current(d).unanswered
    BY <1>3 DEF Round
  <2> HIDE DEF r, h
  <2> QED BY <1>3, <1>6, <2>1
<1> HIDE DEF r, h, opens, k
<1>10. ShapeOf("locking", Amend(d, r), remaining[d], opens, h, Budget(d), Width(d))
  BY <1>1, <1>3, <1>4, <1>7, <1>8, <1>9, ShapeAmended DEF Dialling
<1>11. Amend(d, r) \in Seq(Round)
  BY <1>3, <1>7, AmendedRounds
<1>12. ShapeOK(d)'
  BY <1>1, <1>2, <1>4, <1>6, <1>10, <1>11, ShapeGoesOn
<1>13. OthersRest(d)
  BY OpenOutcome DEF WentOn
<1> QED BY <1>12, <1>13, ShapeFrame

LEMMA ShapeOfRefusal ==
    ASSUME DialInv, ShapeInv, NEW d \in Dials, RefuseOpen(d)
    PROVE  ShapeInv'
<1> DEFINE r == RefusedOne(Current(d))
           opens == left[d] - 1
<1>1. /\ pc[d] = "opening" /\ settings' = settings
      /\ Proceed(d, Unlocked, Amend(d, r), held[d], opens)
  BY DEF RefuseOpen
<1>2. DialTypeOK
  BY DEF DialInv
<1>3. /\ ShapeOK(d) /\ rounds[d] \in Seq(Round) /\ rounds[d] # <<>> /\ Current(d) \in Round
      /\ Current(d).opened \in Nat /\ Current(d).unanswered \in Nat
      /\ Attempted(Current(d)) \in Nat /\ left[d] \in Nat
      /\ held[d] \in SUBSET (1..MaxAttempts)
      /\ Current(d).opened = Current(d).unanswered + Cardinality(held[d])
  BY <1>1, CurrentRound DEF Dialling
<1>4. opens \in Nat
  BY <1>1, OpeningAt
<1>5. r \in Round /\ Attempted(r) = Attempted(Current(d)) + 1
  BY <1>3, RaisedCounts
<1>6. r.opened = r.unanswered + Cardinality(held[d])
  <2>1. r.opened = Current(d).opened /\ r.unanswered = Current(d).unanswered
    BY <1>3 DEF Round, RefusedOne
  <2> QED BY <1>3, <2>1
<1>7. Attempted(r) + opens = Attempted(Current(d)) + left[d]
  <2> HIDE DEF r
  <2> QED BY <1>3, <1>5
<1> HIDE DEF r, opens
<1>8. ShapeOf("locking", Amend(d, r), remaining[d], opens, held[d], Budget(d), Width(d))
  BY <1>1, <1>3, <1>4, <1>5, <1>6, <1>7, ShapeAmended DEF Dialling
<1>9. Amend(d, r) \in Seq(Round)
  BY <1>3, <1>5, AmendedRounds
<1>10. ShapeOK(d)'
  BY <1>1, <1>2, <1>3, <1>4, <1>8, <1>9, ShapeGoesOn
<1>11. OthersRest(d)
  BY RefuseOpenOutcome DEF WentOn
<1> QED BY <1>10, <1>11, ShapeFrame

LEMMA ShapeOfDiscard ==
    ASSUME DialInv, ShapeInv, NEW d \in Dials, NEW k \in 1..MaxAttempts, Discard(d, k)
    PROVE  ShapeInv'
<1> DEFINE r == [Current(d) EXCEPT !.unanswered = @ + 1]
           h == held[d] \ {k}
<1>1. /\ pc[d] = "probing" /\ k \in held[d] /\ settings' = settings
      /\ Proceed(d, queue, Amend(d, r), h, 0)
  BY DEF Discard
<1>2. DialTypeOK /\ BudgetOK(d)
  BY DEF DialInv
<1>3. /\ ShapeOK(d) /\ rounds[d] \in Seq(Round) /\ rounds[d] # <<>> /\ Current(d) \in Round
      /\ Current(d).opened \in Nat /\ Current(d).unanswered \in Nat
      /\ Attempted(Current(d)) \in Nat
      /\ held[d] \in SUBSET (1..MaxAttempts)
      /\ IsFiniteSet(held[d]) /\ Cardinality(held[d]) \in Nat
      /\ Current(d).opened = Current(d).unanswered + Cardinality(held[d])
  BY <1>1, CurrentRound DEF Dialling
<1>4. h \in SUBSET (1..MaxAttempts) /\ Cardinality(h) = Cardinality(held[d]) - 1
  BY <1>1, <1>3, FS_RemoveElement
<1>5. r \in Round /\ Attempted(r) = Attempted(Current(d))
  BY <1>3, RaisedCounts
<1>6. r.opened = r.unanswered + Cardinality(h)
  <2>1. r.opened = Current(d).opened /\ r.unanswered = Current(d).unanswered + 1
    BY <1>3 DEF Round
  <2> HIDE DEF r, h
  <2> QED BY <1>3, <1>4, <2>1
<1>7. Attempted(r) + 0 = Attempted(Current(d)) + left[d]
  <2>1. left[d] = 0
    BY <1>1, <1>2 DEF BudgetOK
  <2> HIDE DEF r
  <2> QED BY <1>5, <2>1
<1> HIDE DEF r, h
<1>8. ShapeOf("locking", Amend(d, r), remaining[d], 0, h, Budget(d), Width(d))
  BY <1>1, <1>3, <1>5, <1>6, <1>7, ShapeAmended DEF Dialling
<1>9. Amend(d, r) \in Seq(Round)
  BY <1>3, <1>5, AmendedRounds
<1>10. ShapeOK(d)'
  BY <1>1, <1>2, <1>4, <1>8, <1>9, ShapeGoesOn
<1>11. OthersRest(d)
  BY DiscardOutcome DEF WentOn
<1> QED BY <1>10, <1>11, ShapeFrame

LEMMA ShapeOfAnswer ==
    ASSUME DialInv, ShapeInv, NEW d \in Dials, NEW k \in 1..MaxAttempts, Answer(d, k)
    PROVE  ShapeInv'
<1> DEFINE r == [Current(d) EXCEPT !.answered = TRUE]
           rs == Amend(d, r)
           n == Len(rounds[d])
<1>1. /\ pc[d] = "probing" /\ k \in held[d] /\ pc' = [pc EXCEPT ![d] = "returned"]
      /\ rounds' = [rounds EXCEPT ![d] = rs] /\ held' = [held EXCEPT ![d] = {k}]
      /\ UNCHANGED <<settings, remaining, left>>
  BY DEF Answer, Move
<1>2. Typed
  BY TypedWithMutex DEF DialInv
<1>3. /\ ShapeOK(d) /\ rounds[d] \in Seq(Round) /\ rounds[d] # <<>> /\ Current(d) \in Round
      /\ Current(d).opened \in Nat /\ Current(d).unanswered \in Nat
      /\ held[d] \in SUBSET (1..MaxAttempts)
      /\ Cardinality(held[d]) \in Nat
      /\ Current(d).opened = Current(d).unanswered + Cardinality(held[d])
  BY <1>1, CurrentRound DEF Dialling
<1>4. Cardinality(held[d]) >= 1
  BY <1>1, <1>3, AttemptsAreFinite
<1>5. r \in Round /\ Attempted(r) = Attempted(Current(d))
  BY <1>3, RaisedCounts
<1>6. r.opened = Current(d).opened /\ r.unanswered = Current(d).unanswered
  BY <1>3 DEF Round
<1> HIDE DEF r
<1>7. /\ rs # <<>> /\ Len(rs) = n /\ rs[n] = r
      /\ \A i \in 1..n : i # n => rs[i] = rounds[d][i]
  BY <1>3, <1>5, AmendedRounds
<1> HIDE DEF rs
<1>8. n \in Nat /\ \A i \in 1..n - 1 : rs[i] = rounds[d][i]
  BY <1>3, <1>7, LenProperties
<1>9. rs[n].opened > rs[n].unanswered
  <2> HIDE DEF n
  <2> QED BY <1>3, <1>4, <1>6, <1>7
<1>10. Attempted(rs[n]) = Attempted(rounds[d][n])
  BY <1>5, <1>7 DEF Current
<1>11. /\ pc'[d] = "returned" /\ rounds'[d] = rs /\ held'[d] = {k}
       /\ Budget(d)' = Budget(d) /\ Width(d)' = Width(d)
       /\ remaining'[d] = remaining[d] /\ left'[d] = left[d]
  BY <1>1, <1>2 DEF Typed, Budget, Width, Probe
<1>12. ShapeOf(pc[d], rounds[d], remaining[d], left[d], held[d], Budget(d), Width(d))
  BY <1>1, <1>3 DEF ShapeOK
<1> HIDE DEF n
<1>13. ShapeOf("returned", rs, remaining[d], left[d], {k}, Budget(d), Width(d))
  BY <1>7, <1>8, <1>9, <1>10, <1>12 DEF ShapeOf, Dialling, Over, n
<1>14. ShapeOK(d)'
  BY <1>11, <1>13 DEF ShapeOK
<1>15. OthersRest(d)
  BY <1>1, <1>2 DEF OthersRest, Typed
<1> QED BY <1>14, <1>15, ShapeFrame

LEMMA ShapeOfBegin ==
    ASSUME DialInv, ShapeInv, NEW d \in Dials, NEW with \in Settings, Begin(d, with)
    PROVE  ShapeInv'
<1> DEFINE width == IF with.probe THEN with.concurrency ELSE 1
           budget == BudgetOf(with)
           size == RoundSize(width, budget)
           one == Append(<<>>, Fresh)
<1>1. /\ settings' = [settings EXCEPT ![d] = with]
      /\ pc' = [pc EXCEPT ![d] = "locking"]
      /\ remaining' = [remaining EXCEPT ![d] = budget - size]
      /\ left' = [left EXCEPT ![d] = size]
      /\ rounds' = [rounds EXCEPT ![d] = one]
      /\ held' = held /\ held[d] = {}
  BY DEF Begin, BeginRound, Move, DialInv, StreamsOK, Over
<1>2. Typed
  BY TypedWithMutex DEF DialInv
<1>3. /\ pc'[d] = "locking" /\ settings'[d] = with /\ remaining'[d] = budget - size
      /\ left'[d] = size /\ rounds'[d] = one /\ held'[d] = {} /\ OthersRest(d)
  BY <1>1, <1>2 DEF Typed, Counters, OthersRest
<1>4. Width(d)' = width /\ Budget(d)' = budget
  BY <1>3 DEF Width, Budget, Probe
<1>5. width \in Nat \ {0} /\ budget \in Nat \ {0}
  BY SettingsOf
<1>6. /\ one # <<>> /\ Len(one) = 1 /\ one[1] = Fresh
      /\ Attempted(Fresh) = 0 /\ Fresh.opened = 0 /\ Fresh.unanswered = 0
  BY DEF Fresh, Attempted
<1>7. Claimed(0, width) = 0 /\ Claimed(1, width) = width
  <2>1. Claimed(0 + 1, width) = Claimed(0, width) + width /\ Claimed(0, width) = 0
    BY <1>5, ClaimsAddUp
  <2> QED BY <1>5, <2>1
<1>8. size = (IF width < budget THEN width ELSE budget) /\ size = RoundSize(width, budget)
  BY DEF RoundSize
<1>9. Cardinality({}) = 0
  BY FS_EmptySet
<1> HIDE DEF width, budget, size, one
<1>10. ShapeOf("locking", one, budget - size, size, {}, budget, width)
  <2>1. budget - size = IF Claimed(1, width) < budget THEN budget - Claimed(1, width) ELSE 0
    BY <1>5, <1>7, <1>8
  <2>2. Attempted(Fresh) + size = RoundSize(width, budget - Claimed(0, width))
    <3>1. budget - Claimed(0, width) = budget /\ size \in Nat
      BY <1>5, <1>7, <1>8
    <3> QED BY <1>6, <1>8, <3>1
  <2>3. Claimed(0, width) < budget
    BY <1>5, <1>7
  <2> QED BY <1>6, <1>9, <2>1, <2>2, <2>3 DEF ShapeOf, Over
<1>11. ShapeOK(d)'
  BY <1>3, <1>4, <1>10 DEF ShapeOK
<1> QED BY <1>3, <1>11, ShapeFrame

\* The steps that leave a dial's rounds alone.
LEMMA ShapeOfTheRest ==
    ASSUME DialInv, HistoryInv, ShapeInv, NEW d \in Dials,
           \/ Lock(d) \/ Release(d) \/ Cancel(d) \/ CutShort(d)
           \/ \E k \in 1..MaxAttempts, what \in {"own", "other"} : Reply(d, k, what)
    PROVE  ShapeInv'
<1>1. Typed /\ ShapeOK(d) /\ HistoryOK(d)
  BY TypedWithMutex DEF DialInv, ShapeInv, HistoryInv
<1>2. /\ UNCHANGED <<settings, rounds, remaining, left>>
      /\ \/ pc[d] = "locking" /\ pc' = [pc EXCEPT ![d] = "opening"] /\ held' = held
         \/ pc[d] = "returned" /\ pc' = [pc EXCEPT ![d] = "released"] /\ held' = [held EXCEPT ![d] = {}]
         \/ /\ pc[d] \in Dialling \cup {"returned"}
            /\ \E to \in {"cancelled", "cut_short"} : pc' = [pc EXCEPT ![d] = to]
            /\ held' = [held EXCEPT ![d] = {}]
         \/ pc' = pc /\ held' = held
  BY DEF Lock, Release, Cancel, CutShort, Dropped, Dialling, Reply, Move
<1>3. OthersRest(d)
  BY <1>1, <1>2 DEF OthersRest, Typed
<1>4. /\ Budget(d)' = Budget(d) /\ Width(d)' = Width(d) /\ rounds'[d] = rounds[d]
      /\ remaining'[d] = remaining[d] /\ left'[d] = left[d]
  BY <1>2 DEF Budget, Width, Probe
<1>5. \/ pc[d] = "locking" /\ pc'[d] = "opening" /\ held'[d] = held[d]
      \/ pc[d] = "returned" /\ pc'[d] = "released"
      \/ pc[d] \in Dialling \cup {"returned"} /\ pc'[d] \in {"cancelled", "cut_short"}
      \/ pc'[d] = pc[d] /\ held'[d] = held[d]
  BY <1>1, <1>2 DEF Typed
<1>6. pc[d] \in Dialling => ~ AnsweredLast(rounds[d])
  <2>1. rounds[d] # <<>> => Len(rounds[d]) \in 1..Len(rounds[d])
    BY <1>1, EmptySeq, LenProperties DEF Typed
  <2> QED BY <1>1, <2>1 DEF HistoryOK, HistoryOf, AnsweredLast, Dialling, Over
<1>7. ShapeOK(d)'
  BY <1>1, <1>4, <1>5, <1>6 DEF ShapeOK, ShapeOf, Dialling, Over
<1> QED BY <1>3, <1>7, ShapeFrame

LEMMA ShapeOfStep ==
    ASSUME DialInv, HistoryInv, ShapeInv, NEW d \in Dials,
           DialStep(d) \/ Release(d) \/ Cancel(d) \/ CutShort(d) \/ \E with \in Settings : Begin(d, with)
    PROVE  ShapeInv'
<1>1. CASE Lock(d) \/ Release(d) \/ Cancel(d) \/ CutShort(d)
  BY <1>1, ShapeOfTheRest
<1>2. CASE Open(d)
  BY <1>2, ShapeOfOpen
<1>3. CASE RefuseOpen(d)
  BY <1>3, ShapeOfRefusal
<1>4. ASSUME NEW k \in 1..MaxAttempts, Answer(d, k) PROVE ShapeInv'
  BY <1>4, ShapeOfAnswer
<1>5. ASSUME NEW k \in 1..MaxAttempts, Discard(d, k) PROVE ShapeInv'
  BY <1>5, ShapeOfDiscard
<1>6. ASSUME NEW k \in 1..MaxAttempts, NEW what \in {"own", "other"}, Reply(d, k, what)
      PROVE  ShapeInv'
  BY <1>6, ShapeOfTheRest
<1>7. ASSUME NEW with \in Settings, Begin(d, with) PROVE ShapeInv'
  BY <1>7, ShapeOfBegin
<1> QED BY <1>1, <1>2, <1>3, <1>4, <1>5, <1>6, <1>7 DEF DialStep

LEMMA ShapeOfStutter ==
    ASSUME ShapeInv, UNCHANGED dialVars
    PROVE  ShapeInv'
BY DEF dialVars, ShapeInv, ShapeOK, Budget, Width, Probe

\* Every round of a dial but the last is as wide as was asked for and ended with all it opened
\* unanswered, and the last is as wide as the budget allows (run_round's size in dial.rs): the n-th
\* round is the n-th retry, whatever was refused before it.
THEOREM RoundsFillTheBudget == DialSpec => []ShapeInv
<1>1. DialInit => ShapeInv
  BY DEF DialInit, ShapeInv, ShapeOK
<1>2. DialInv /\ HistoryInv /\ ShapeInv /\ [DialNext]_dialVars => ShapeInv'
  BY ShapeOfStep, ShapeOfStutter DEF DialNext
<1> QED BY <1>1, <1>2, Invariance, RoundsTellTheStreams, PTL DEF DialSpec

-----------------------------------------------------------------------------
(* Modules whose steps contain those of a dial. *)

\* What a dial does to itself, it does to no other.
LEMMA DialStepStays ==
    ASSUME DialInv, NEW d \in Dials, DialStep(d)
    PROVE  /\ pc[d] \in Dialling /\ pc'[d] \in Dialling \cup Resolved
           /\ settings' = settings /\ OthersRest(d)
           /\ \A s : s[1] # d => (s \in existed' <=> s \in existed)
<1>0. Typed
  BY TypedWithMutex DEF DialInv
<1>1. CASE Lock(d)
  BY <1>0, <1>1 DEF Lock, Move, OthersRest, Typed, Dialling
<1>2. CASE Open(d)
  <2>1. OthersRest(d) /\ pc'[d] \in {"locking", "probing", "gave_up"}
    BY <1>2, OpenOutcome DEF WentOn
  <2>2. pc[d] = "opening" /\ settings' = settings /\ existed' = existed \cup {<<d, NextAttempt(d)>>}
    BY <1>2 DEF Open
  <2> QED BY <2>1, <2>2 DEF Dialling, Resolved
<1>3. CASE RefuseOpen(d)
  <2>1. OthersRest(d) /\ pc'[d] \in {"locking", "probing", "gave_up"}
    BY <1>3, RefuseOpenOutcome DEF WentOn
  <2>2. pc[d] = "opening" /\ settings' = settings /\ existed' = existed
    BY <1>3 DEF RefuseOpen
  <2> QED BY <2>1, <2>2 DEF Dialling, Resolved
<1>4. CASE \E k \in 1..MaxAttempts : Answer(d, k)
  BY <1>0, <1>4 DEF Answer, Move, OthersRest, Typed, Dialling, Resolved
<1>5. ASSUME NEW k \in 1..MaxAttempts, Discard(d, k)
      PROVE  /\ pc[d] \in Dialling /\ pc'[d] \in Dialling \cup Resolved
             /\ settings' = settings /\ OthersRest(d) /\ existed' = existed
  <2>1. OthersRest(d) /\ pc'[d] \in {"locking", "probing", "gave_up"}
    BY <1>5, DiscardOutcome DEF WentOn
  <2>2. pc[d] = "probing" /\ settings' = settings /\ existed' = existed
    BY <1>5 DEF Discard
  <2> QED BY <2>1, <2>2 DEF Dialling, Resolved
<1>6. CASE \E k \in 1..MaxAttempts, what \in {"own", "other"} : Reply(d, k, what)
  BY <1>6 DEF Reply, OthersRest, Dialling
<1> QED BY <1>1, <1>2, <1>3, <1>4, <1>5, <1>6 DEF DialStep

=============================================================================
