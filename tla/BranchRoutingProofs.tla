------------------------ MODULE BranchRoutingProofs ------------------------
(***************************************************************************)
(* A push becomes the right jobs, and they read its branch, for every      *)
(* branch pattern and however the names are put together.                  *)
(*                                                                         *)
(* A task's branch is the pattern with the names put in; the greedy match  *)
(* takes them out again (Greedy), because a match that takes more for some *)
(* placeholder finds no place for a separator behind it (NoMore).  Names   *)
(* are put together by recursion over the pattern, so what they are is     *)
(* shown by induction over its elements (Counting).                        *)
(***************************************************************************)
EXTENDS BranchRouting, SequenceTheorems, WellFoundedInduction, TLAPS

----------------------------------------------------------------------------
\* Induction, and functions defined by it.

\* A set of naturals has a least element.
LEMMA Least ==
  ASSUME NEW T \in SUBSET Nat, T # {}
  PROVE  \E m \in T : \A n \in T : m <= n
<1>1. PICK m \in T : \A n \in T : <<n, m>> \notin OpToRel(<, Nat)
  BY WFMin, NatLessThanWellFounded, Zenon
<1>2. \A n \in T : ~(n < m)
  BY <1>1, Zenon DEF OpToRel
<1> QED
  BY <1>2

\* A set that holds 0, and with each number below k the next, holds all up to k.
LEMMA Counting ==
  ASSUME NEW k \in Nat, NEW S, 0 \in S,
         \A i \in 0..(k - 1) : i \in S => i + 1 \in S
  PROVE  0..k \subseteq S
<1> DEFINE T == (0..k) \ S
<1> SUFFICES ASSUME T # {} PROVE FALSE
  OBVIOUS
<1>1. PICK m \in T : \A n \in T : m <= n
  <2>1. T \in SUBSET Nat
    OBVIOUS
  <2> HIDE DEF T
  <2> QED
    BY <2>1, Least
<1>2. m # 0 /\ m \in 0..k /\ m \notin S
  OBVIOUS
<1>3. m - 1 \in 0..(k - 1) /\ m - 1 \notin T
  BY <1>1, <1>2
<1> QED
  BY <1>2, <1>3

\* The sequences joined so far, after each of them.
Joined(g, ss) ==
  /\ DOMAIN g = 0..Len(ss)
  /\ g[0] = <<>>
  /\ \A i \in 1..Len(ss) : g[i] = g[i - 1] \o ss[i]

LEMMA JoinedExists ==
  ASSUME NEW ss, Len(ss) \in Nat
  PROVE  \E g : Joined(g, ss)
<1> DEFINE Upto(g, k) == /\ DOMAIN g = 0..k
                         /\ g[0] = <<>>
                         /\ \A i \in 1..k : g[i] = g[i - 1] \o ss[i]
           S == {k \in Nat : \E g : Upto(g, k)}
           n == Len(ss)
<1>1. 0 \in S
  <2>1. Upto([i \in 0..0 |-> <<>>], 0)
    OBVIOUS
  <2> QED
    BY <2>1
<1>2. ASSUME NEW k \in 0..(n - 1), k \in S PROVE k + 1 \in S
  <2>1. PICK g : Upto(g, k)
    BY <1>2
  <2> DEFINE next == g[k] \o ss[k + 1]
             h == [i \in 0..(k + 1) |-> IF i = k + 1 THEN next ELSE g[i]]
  <2> HIDE DEF next
  <2>2. k \in Nat /\ k + 1 \in Nat
    OBVIOUS
  <2>3. DOMAIN h = 0..(k + 1) /\ h[0] = <<>>
    BY <2>1, <2>2
  <2>4. \A i \in 0..k : h[i] = g[i]
    BY <2>2
  <2>5. h[k + 1] = next
    BY <2>2
  <2> HIDE DEF h
  <2>6. \A i \in 1..(k + 1) : h[i] = h[i - 1] \o ss[i]
    <3> SUFFICES ASSUME NEW i \in 1..(k + 1) PROVE h[i] = h[i - 1] \o ss[i]
      OBVIOUS
    <3>1. CASE i = k + 1
      <4>1. i - 1 = k /\ k \in 0..k
        BY <2>2, <3>1
      <4>2. h[i - 1] = g[k]
        BY <2>4, <4>1
      <4> QED
        BY <2>5, <3>1, <4>2 DEF next
    <3>2. CASE i # k + 1
      <4>1. i \in 1..k /\ i \in 0..k /\ i - 1 \in 0..k
        BY <2>2, <3>2
      <4> QED
        BY <2>1, <2>4, <4>1
    <3> QED
      BY <3>1, <3>2
  <2>7. Upto(h, k + 1)
    BY <2>3, <2>6
  <2> QED
    BY <2>2, <2>7
<1>3. n \in S
  <2> HIDE DEF S, n
  <2>1. n \in Nat
    BY DEF n
  <2>2. 0..n \subseteq S
    BY <1>1, <1>2, <2>1, Counting
  <2> QED
    BY <2>1, <2>2
<1> QED
  BY <1>3 DEF Joined

\* What FlattenSeq yields is the sequences joined.
LEMMA Flattened ==
  ASSUME NEW ss, Len(ss) \in Nat, Len(ss) = 0 => ss = <<>>,
         NEW g, Joined(g, ss),
         Len(ss) > 0 => g[1] = ss[1]
  PROVE  FlattenSeq(ss) = g[Len(ss)]
<1> DEFINE n == Len(ss)
<1>1. CASE n = 0
  BY <1>1 DEF FlattenSeq, Joined
<1>2. CASE n # 0
  <2> DEFINE P(f) == f = [i \in 1..Len(ss) |-> IF i = 1 THEN ss[i]
                                               ELSE f[i - 1] \o ss[i]]
             f0 == [i \in 1..n |-> g[i]]
  <2>1. FlattenSeq(ss) = (CHOOSE f : P(f))[n]
    BY <1>2 DEF FlattenSeq
  <2>2. P(f0)
    <3>1. \A i \in 1..n : f0[i] = IF i = 1 THEN ss[i] ELSE f0[i - 1] \o ss[i]
      BY <1>2 DEF Joined
    <3> QED
      BY <3>1
  <2> DEFINE f1 == CHOOSE f : P(f)
  <2>3. P(f1)
    <3> HIDE DEF P, f0
    <3> QED
      BY <2>2
  <2> HIDE DEF f1, f0
  <2> DEFINE h == [i \in 0..n |-> IF i = 0 THEN <<>> ELSE f1[i]]
  <2>4. \A i \in 1..n : f1[i] = IF i = 1 THEN ss[i] ELSE f1[i - 1] \o ss[i]
    BY <2>3
  <2>5. f1[1] = g[1]
    BY <1>2, <2>4
  <2> DEFINE S == {i \in Nat : i + 1 \in 1..n => f1[i + 1] = g[i + 1]}
  <2>6. 0 \in S
    BY <2>5
  <2>7. ASSUME NEW i \in 0..((n - 1) - 1), i \in S PROVE i + 1 \in S
    <3>1. /\ i + 1 \in 1..n /\ i + 2 \in 1..n /\ i + 2 # 1 /\ (i + 2) - 1 = i + 1
          /\ i + 1 \in Nat /\ (i + 1) + 1 = i + 2
      BY <1>2
    <3>2. f1[i + 2] = f1[i + 1] \o ss[i + 2]
      BY <2>4, <3>1
    <3>3. g[i + 2] = g[i + 1] \o ss[i + 2]
      BY <3>1 DEF Joined
    <3> QED
      BY <2>7, <3>1, <3>2, <3>3
  <2>8. 0..(n - 1) \subseteq S
    <3> HIDE DEF S
    <3>1. n - 1 \in Nat
      BY <1>2
    <3> QED
      BY <2>6, <2>7, <3>1, Counting
  <2>9. f1[n] = g[n]
    <3>1. n - 1 \in S
      <4> HIDE DEF S
      <4>1. n - 1 \in 0..(n - 1)
        BY <1>2
      <4> QED
        BY <2>8, <4>1
    <3> QED
      BY <1>2, <3>1
  <2> QED
    BY <2>1, <2>9 DEF f1
<1> QED
  BY <1>1, <1>2

\* Sequences of words, joined: what each step of joining yields.
LEMMA JoinedWords ==
  ASSUME NEW ss \in Seq(Seq(Words)), NEW g, Joined(g, ss)
  PROVE  /\ \A i \in 0..Len(ss) : g[i] \in Seq(Words)
         /\ FlattenSeq(ss) = g[Len(ss)]
<1> DEFINE n == Len(ss)
           S == {i \in Nat : i \in 0..n => g[i] \in Seq(Words)}
<1>1. n \in Nat /\ \A i \in 1..n : ss[i] \in Seq(Words)
  BY ElementOfSeq
<1>2. 0 \in S
  <2>1. <<>> \in Seq(Words)
    OBVIOUS
  <2> QED
    BY <2>1 DEF Joined
<1>3. ASSUME NEW i \in 0..(n - 1), i \in S PROVE i + 1 \in S
  <2>1. i + 1 \in 1..n /\ i \in 0..n /\ (i + 1) - 1 = i /\ i + 1 \in Nat
    BY <1>1
  <2>2. g[i + 1] = g[i] \o ss[i + 1] /\ g[i] \in Seq(Words) /\ ss[i + 1] \in Seq(Words)
    BY <1>1, <1>3, <2>1 DEF Joined
  <2>3. g[i + 1] \in Seq(Words)
    BY <2>2, ConcatProperties
  <2> QED
    BY <2>1, <2>3
<1>4. \A i \in 0..n : g[i] \in Seq(Words)
  <2> HIDE DEF S
  <2>1. 0..n \subseteq S
    BY <1>1, <1>2, <1>3, Counting
  <2> QED
    BY <1>1, <2>1 DEF S
<1>5. n > 0 => g[1] = ss[1]
  <2> SUFFICES ASSUME n > 0 PROVE g[1] = ss[1]
    OBVIOUS
  <2>1. 1 \in 1..n /\ ss[1] \in Seq(Words)
    BY <1>1
  <2>2. g[1] = <<>> \o ss[1]
    BY <2>1 DEF Joined
  <2> QED
    BY <2>1, <2>2, ConcatEmptySeq
<1>6. n = 0 => ss = <<>>
  BY EmptySeq
<1>7. FlattenSeq(ss) = g[n]
  BY <1>1, <1>5, <1>6, Flattened
<1> QED
  BY <1>4, <1>7

----------------------------------------------------------------------------
\* DeriveBranch.

\* What an element of s is replaced by.
Instead(s, x, v, i) == IF s[i] = x THEN v ELSE <<s[i]>>

\* g[i] is what the first i elements of s become.
Replacing(g, s, x, v) ==
  /\ g[0] = <<>>
  /\ \A i \in 0..Len(s) : g[i] \in Seq(Words)
  /\ \A i \in 1..Len(s) : g[i] = g[i - 1] \o Instead(s, x, v, i)
  /\ Replace(s, x, v) = g[Len(s)]

LEMMA ReplaceJoined ==
  ASSUME NEW s \in Seq(Words), NEW x, NEW v \in Seq(Words)
  PROVE  \E g : Replacing(g, s, x, v)
<1> DEFINE ss == [i \in 1..Len(s) |-> Instead(s, x, v, i)]
<1>1. Len(s) \in Nat /\ \A i \in 1..Len(s) : s[i] \in Words
  BY ElementOfSeq
<1>2. \A i \in 1..Len(s) : Instead(s, x, v, i) \in Seq(Words)
  BY <1>1 DEF Instead
<1>3. Replace(s, x, v) = FlattenSeq(ss)
  BY DEF Replace, Instead
<1> HIDE DEF Instead
<1>4. ss \in Seq(Seq(Words)) /\ Len(ss) = Len(s)
  BY <1>1, <1>2, IsASeq
<1>5. \A i \in 1..Len(s) : ss[i] = Instead(s, x, v, i)
  OBVIOUS
<1> HIDE DEF ss
<1>6. PICK g : Joined(g, ss)
  BY <1>1, <1>4, JoinedExists
<1>7. /\ \A i \in 0..Len(ss) : g[i] \in Seq(Words)
      /\ FlattenSeq(ss) = g[Len(ss)]
  BY <1>4, <1>6, JoinedWords
<1> QED
  BY <1>3, <1>4, <1>5, <1>6, <1>7 DEF Joined, Replacing

\* A word is replaced or stays.
LEMMA ReplaceWord ==
  ASSUME NEW e \in Words, NEW x, NEW v \in Seq(Words)
  PROVE  Replace(<<e>>, x, v) = IF e = x THEN v ELSE <<e>>
<1> DEFINE s == <<e>>
<1>1. s \in Seq(Words) /\ Len(s) = 1 /\ s[1] = e
  OBVIOUS
<1> HIDE DEF s
<1>2. PICK g : Replacing(g, s, x, v)
  <2>1. s \in Seq(Words)
    BY <1>1
  <2> QED
    BY <2>1, ReplaceJoined, Zenon
<1>3. Replace(s, x, v) = <<>> \o Instead(s, x, v, 1)
  <2>1. 1 \in 1..Len(s) /\ 1 - 1 = 0
    BY <1>1
  <2>2. g[1] = g[0] \o Instead(s, x, v, 1)
    BY <1>2, <2>1 DEF Replacing
  <2> QED
    BY <1>1, <1>2, <2>2 DEF Replacing
<1>4. Instead(s, x, v, 1) = (IF e = x THEN v ELSE <<e>>)
  BY <1>1 DEF Instead
<1>5. (IF e = x THEN v ELSE <<e>>) \in Seq(Words)
  OBVIOUS
<1> QED
  BY <1>3, <1>4, <1>5, ConcatEmptySeq DEF s

\* Where x does not occur nothing is replaced.
LEMMA ReplaceNone ==
  ASSUME NEW s \in Seq(Words), NEW x, NEW v \in Seq(Words),
         \A i \in 1..Len(s) : s[i] # x
  PROVE  Replace(s, x, v) = s
<1> DEFINE n == Len(s)
<1>1. n \in Nat /\ \A i \in 1..n : s[i] \in Words
  BY ElementOfSeq
<1>2. PICK g : Replacing(g, s, x, v)
  BY ReplaceJoined
<1>3. /\ g[0] = <<>>
      /\ \A i \in 0..n : g[i] \in Seq(Words)
      /\ \A i \in 1..n : g[i] = g[i - 1] \o Instead(s, x, v, i)
      /\ Replace(s, x, v) = g[n]
  BY <1>2 DEF Replacing
<1> DEFINE Same(i) == Len(g[i]) = i /\ \A k \in 1..i : g[i][k] = s[k]
           S == {i \in Nat : i \in 0..n => Same(i)}
<1>4. 0 \in S
  BY <1>3
<1>5. ASSUME NEW i \in 0..(n - 1), i \in S PROVE i + 1 \in S
  <2>1. /\ i + 1 \in 1..n /\ i + 1 \in 0..n /\ i \in 0..n
        /\ (i + 1) - 1 = i /\ i + 1 \in Nat /\ i \in Nat
    BY <1>1
  <2> DEFINE word == <<s[i + 1]>>
  <2>2. word \in Seq(Words) /\ Len(word) = 1 /\ word[1] = s[i + 1]
    BY <1>1, <2>1
  <2>3. Instead(s, x, v, i + 1) = word
    BY <2>1 DEF Instead
  <2> HIDE DEF word
  <2>4. g[i + 1] = g[i] \o word /\ g[i] \in Seq(Words) /\ Same(i)
    BY <1>3, <1>5, <2>1, <2>3
  <2> DEFINE a == g[i]
  <2>5. a \in Seq(Words) /\ Len(a) = i
    BY <2>4
  <2> HIDE DEF a
  <2>6. /\ Len(a \o word) = Len(a) + Len(word)
        /\ \A k \in 1..(Len(a) + Len(word)) :
             (a \o word)[k] = IF k <= Len(a) THEN a[k] ELSE word[k - Len(a)]
    BY <2>2, <2>5, ConcatProperties
  <2>7. /\ Len(g[i + 1]) = i + 1
        /\ \A k \in 1..(i + 1) :
             g[i + 1][k] = IF k <= i THEN g[i][k] ELSE word[k - i]
    BY <2>1, <2>2, <2>4, <2>5, <2>6 DEF a
  <2>8. \A k \in 1..(i + 1) : g[i + 1][k] = s[k]
    <3> SUFFICES ASSUME NEW k \in 1..(i + 1) PROVE g[i + 1][k] = s[k]
      OBVIOUS
    <3>1. CASE k <= i
      BY <2>1, <2>4, <2>7, <3>1
    <3>2. CASE ~(k <= i)
      <4>1. k = i + 1 /\ k - i = 1
        BY <2>1, <3>2
      <4> QED
        BY <2>2, <2>7, <3>2, <4>1
    <3> QED
      BY <3>1, <3>2
  <2> QED
    BY <2>1, <2>7, <2>8
<1>6. Same(n)
  <2> HIDE DEF S
  <2>1. 0..n \subseteq S
    BY <1>1, <1>4, <1>5, Counting
  <2> QED
    BY <1>1, <2>1 DEF S
<1>7. g[n] \in Seq(Words)
  BY <1>1, <1>3
<1>8. g[n] = s
  BY <1>6, <1>7, SeqEqual
<1> QED
  BY <1>3, <1>8

LEMMA Concatenated ==
  \A a, b \in Seq(Words) :
    /\ a \o b \in Seq(Words) /\ Len(a \o b) = Len(a) + Len(b)
    /\ \A k \in 1..(Len(a) + Len(b)) :
         (a \o b)[k] = IF k <= Len(a) THEN a[k] ELSE b[k - Len(a)]
BY ConcatProperties

LEMMA Associative ==
  \A a, b, c \in Seq(Words) : (a \o b) \o c = a \o (b \o c)
BY ConcatAssociative

\* What is replaced in s followed by u.
LEMMA ReplaceConcat ==
  ASSUME NEW s \in Seq(Words), NEW u \in Seq(Words), NEW x, NEW v \in Seq(Words)
  PROVE  Replace(s \o u, x, v) = Replace(s, x, v) \o Replace(u, x, v)
<1> DEFINE m == Len(s)
           n == Len(u)
           su == s \o u
<1>1. m \in Nat /\ n \in Nat
  OBVIOUS
<1>2. /\ su \in Seq(Words) /\ Len(su) = m + n
      /\ \A i \in 1..(m + n) : su[i] = IF i <= m THEN s[i] ELSE u[i - m]
  BY ConcatProperties
<1> HIDE DEF su
<1>3. PICK g : Replacing(g, s, x, v)
  BY ReplaceJoined
<1>4. /\ g[0] = <<>>
      /\ \A i \in 0..m : g[i] \in Seq(Words)
      /\ \A i \in 1..m : g[i] = g[i - 1] \o Instead(s, x, v, i)
      /\ Replace(s, x, v) = g[m]
  BY <1>3 DEF Replacing
<1>5. PICK k : Replacing(k, u, x, v)
  BY ReplaceJoined
<1>6. /\ k[0] = <<>>
      /\ \A i \in 0..n : k[i] \in Seq(Words)
      /\ \A i \in 1..n : k[i] = k[i - 1] \o Instead(u, x, v, i)
      /\ Replace(u, x, v) = k[n]
  BY <1>5 DEF Replacing
<1>7. PICK h : Replacing(h, su, x, v)
  BY <1>2, ReplaceJoined
<1>8. /\ h[0] = <<>>
      /\ \A i \in 0..Len(su) : h[i] \in Seq(Words)
      /\ \A i \in 1..Len(su) : h[i] = h[i - 1] \o Instead(su, x, v, i)
      /\ Replace(su, x, v) = h[Len(su)]
  BY <1>7 DEF Replacing
<1>9. \A i \in 1..m : Instead(su, x, v, i) = Instead(s, x, v, i)
  BY <1>1, <1>2 DEF Instead
<1>10. \A i \in 1..n : Instead(su, x, v, m + i) = Instead(u, x, v, i)
  <2> SUFFICES ASSUME NEW i \in 1..n
               PROVE  Instead(su, x, v, m + i) = Instead(u, x, v, i)
    OBVIOUS
  <2>1. m + i \in 1..(m + n) /\ ~(m + i <= m) /\ (m + i) - m = i
    BY <1>1
  <2> QED
    BY <1>2, <2>1 DEF Instead
<1> DEFINE S == {i \in Nat : i \in 0..m => h[i] = g[i]}
<1>11. 0 \in S
  BY <1>4, <1>8
<1>12. ASSUME NEW i \in 0..(m - 1), i \in S PROVE i + 1 \in S
  <2>1. /\ i + 1 \in 1..m /\ i + 1 \in 1..Len(su) /\ i \in 0..m
        /\ (i + 1) - 1 = i /\ i + 1 \in Nat
    BY <1>1, <1>2
  <2>2. h[i + 1] = h[i] \o Instead(su, x, v, i + 1)
    BY <1>8, <2>1
  <2>3. g[i + 1] = g[i] \o Instead(s, x, v, i + 1)
    BY <1>4, <2>1
  <2> QED
    BY <1>9, <1>12, <2>1, <2>2, <2>3
<1>13. h[m] = g[m]
  <2> HIDE DEF S
  <2>1. 0..m \subseteq S
    BY <1>1, <1>11, <1>12, Counting
  <2> QED
    BY <1>1, <2>1 DEF S
<1> DEFINE T == {i \in Nat : i \in 0..n => h[m + i] = g[m] \o k[i]}
<1>14. g[m] \in Seq(Words)
  BY <1>1, <1>4
<1>15. 0 \in T
  <2>1. g[m] \o <<>> = g[m]
    BY <1>14, ConcatEmptySeq
  <2>2. m + 0 = m
    BY <1>1
  <2>3. h[m + 0] = g[m] \o k[0]
    BY <1>6, <1>13, <2>1, <2>2
  <2> QED
    BY <1>1, <2>3
<1>16. ASSUME NEW i \in 0..(n - 1), i \in T PROVE i + 1 \in T
  <2>1. /\ i + 1 \in 1..n /\ m + (i + 1) \in 1..Len(su) /\ i \in 0..n
        /\ (i + 1) - 1 = i /\ i + 1 \in Nat /\ (m + (i + 1)) - 1 = m + i
    BY <1>1, <1>2
  <2> DEFINE e == Instead(u, x, v, i + 1)
  <2>2. h[m + (i + 1)] = h[m + i] \o e
    BY <1>8, <1>10, <2>1
  <2>3. k[i + 1] = k[i] \o e
    BY <1>6, <2>1
  <2>4. h[m + i] = g[m] \o k[i]
    BY <1>16, <2>1
  <2>5. e \in Seq(Words) /\ k[i] \in Seq(Words)
    <3>1. u[i + 1] \in Words
      BY <2>1, ElementOfSeq
    <3> QED
      BY <1>6, <2>1, <3>1 DEF Instead
  <2> HIDE DEF e
  <2>6. (g[m] \o k[i]) \o e = g[m] \o (k[i] \o e)
    <3>1. g[m] \in Seq(Words) /\ k[i] \in Seq(Words) /\ e \in Seq(Words)
      BY <1>14, <2>5
    <3>2. \A b, c \in Seq(Words) : (g[m] \o b) \o c = g[m] \o (b \o c)
      BY <3>1, Associative
    <3>3. \A c \in Seq(Words) : (g[m] \o k[i]) \o c = g[m] \o (k[i] \o c)
      BY <3>1, <3>2, Zenon
    <3> QED
      BY <3>1, <3>3, Zenon
  <2> QED
    BY <2>1, <2>2, <2>3, <2>4, <2>6
<1>17. h[m + n] = g[m] \o k[n]
  <2> HIDE DEF T
  <2>1. 0..n \subseteq T
    BY <1>1, <1>15, <1>16, Counting
  <2>2. n \in 0..n /\ n \in T
    BY <1>1, <2>1
  <2> QED
    BY <2>2 DEF T
<1> QED
  BY <1>2, <1>4, <1>6, <1>8, <1>17 DEF su

LEMMA ReplacedApart ==
  \A x : \A v, s, u \in Seq(Words) :
    Replace(s \o u, x, v) = Replace(s, x, v) \o Replace(u, x, v)
BY ReplaceConcat

\* What stands in a branch's name for an element of its pattern.
Part(p, f, t, i) == CASE p[i] = FeatureId -> f
                      [] p[i] = WorkId -> t
                      [] OTHER -> <<p[i]>>

LEMMA PartIs ==
  ASSUME NEW p \in Seq(Words), NEW f \in Seq(Words), NEW t \in Seq(Words),
         NEW i \in 1..Len(p)
  PROVE  /\ p[i] \in Words
         /\ Part(p, f, t, i) \in Seq(Words)
         /\ p[i] = FeatureId => Part(p, f, t, i) = f
         /\ p[i] = WorkId => Part(p, f, t, i) = t
         /\ p[i] \notin {FeatureId, WorkId} => Part(p, f, t, i) = <<p[i]>>
<1>1. FeatureId # WorkId
  BY DEF FeatureId, WorkId
<1>2. p[i] \in Words
  BY ElementOfSeq
<1>3. CASE p[i] = FeatureId
  BY <1>1, <1>2, <1>3 DEF Part
<1>4. CASE p[i] = WorkId
  BY <1>1, <1>2, <1>4 DEF Part
<1>5. CASE p[i] \notin {FeatureId, WorkId}
  <2>1. Part(p, f, t, i) = <<p[i]>>
    BY <1>5 DEF Part
  <2> QED
    BY <1>2, <1>5, <2>1
<1> QED
  BY <1>3, <1>4, <1>5

\* g[i] is the name as far as the pattern's first i elements give it.
Naming(g, p, f, t) ==
  /\ g[0] = <<>>
  /\ \A i \in 0..Len(p) : g[i] \in Seq(Words)
  /\ \A i \in 1..Len(p) : g[i] = g[i - 1] \o Part(p, f, t, i)
  /\ TaskBranch(p, f, t) = g[Len(p)]

LEMMA BranchJoined ==
  ASSUME NEW p \in Seq(Words), NEW f \in Seq(Words), NEW t \in Seq(Words)
  PROVE  \E g : Naming(g, p, f, t)
<1> DEFINE ss == [i \in 1..Len(p) |-> Part(p, f, t, i)]
<1>1. \A i \in 1..Len(p) : Part(p, f, t, i) \in Seq(Words)
  BY PartIs
<1>2. Len(p) \in Nat /\ \A i \in 1..Len(p) : Part(p, f, t, i) \in Seq(Words)
  BY <1>1
<1>3. TaskBranch(p, f, t) = FlattenSeq(ss)
  BY DEF TaskBranch, Part
<1>4. ss \in Seq(Seq(Words)) /\ Len(ss) = Len(p)
  BY <1>2, IsASeq
<1>5. \A i \in 1..Len(p) : ss[i] = Part(p, f, t, i)
  OBVIOUS
<1> HIDE DEF ss
<1>6. PICK g : Joined(g, ss)
  BY <1>2, <1>4, JoinedExists
<1>7. /\ \A i \in 0..Len(ss) : g[i] \in Seq(Words)
      /\ FlattenSeq(ss) = g[Len(ss)]
  BY <1>4, <1>6, JoinedWords
<1> QED
  BY <1>3, <1>4, <1>5, <1>6, <1>7 DEF Joined, Naming

\* The branch a job derives is the one the workflow names, however often and in
\* whatever order the pattern has its placeholders.
LEMMA DerivesBranch ==
  ASSUME NEW p \in Seq(Words),
         NEW f \in Seq(Words), NEW t \in Seq(Words),
         \A i \in 1..Len(f) : f[i] # WorkId
  PROVE  DeriveBranch(p, f, t) = TaskBranch(p, f, t)
<1> DEFINE n == Len(p)
           H(s) == Replace(s, WorkId, t)
<1>1. n \in Nat
  OBVIOUS
<1>2. PICK g : Replacing(g, p, FeatureId, f)
  BY ReplaceJoined
<1>3. /\ g[0] = <<>>
      /\ \A i \in 0..n : g[i] \in Seq(Words)
      /\ \A i \in 1..n : g[i] = g[i - 1] \o Instead(p, FeatureId, f, i)
      /\ Replace(p, FeatureId, f) = g[n]
  BY <1>2 DEF Replacing
<1>4. PICK h : Naming(h, p, f, t)
  BY BranchJoined
<1>5. /\ h[0] = <<>>
      /\ \A i \in 0..n : h[i] \in Seq(Words)
      /\ \A i \in 1..n : h[i] = h[i - 1] \o Part(p, f, t, i)
      /\ TaskBranch(p, f, t) = h[n]
  BY <1>4 DEF Naming
<1>6. \A i \in 1..n : /\ Instead(p, FeatureId, f, i) \in Seq(Words)
                      /\ H(Instead(p, FeatureId, f, i)) = Part(p, f, t, i)
  <2> SUFFICES ASSUME NEW i \in 1..n
               PROVE  /\ Instead(p, FeatureId, f, i) \in Seq(Words)
                      /\ H(Instead(p, FeatureId, f, i)) = Part(p, f, t, i)
    OBVIOUS
  <2>1. /\ p[i] \in Words
        /\ p[i] = FeatureId => Part(p, f, t, i) = f
        /\ p[i] = WorkId => Part(p, f, t, i) = t
        /\ p[i] \notin {FeatureId, WorkId} => Part(p, f, t, i) = <<p[i]>>
    BY PartIs
  <2> HIDE DEF H
  <2>2. CASE p[i] = FeatureId
    <3>1. H(f) = f
      BY ReplaceNone DEF H
    <3> QED
      BY <2>1, <2>2, <3>1 DEF Instead
  <2>3. CASE p[i] # FeatureId
    <3>1. Instead(p, FeatureId, f, i) = <<p[i]>> /\ <<p[i]>> \in Seq(Words)
      BY <2>1, <2>3 DEF Instead
    <3>2. H(<<p[i]>>) = IF p[i] = WorkId THEN t ELSE <<p[i]>>
      BY <2>1, ReplaceWord DEF H
    <3> QED
      BY <2>1, <2>3, <3>1, <3>2
  <2> QED
    BY <2>2, <2>3
<1> DEFINE S == {i \in Nat : i \in 0..n => H(g[i]) = h[i]}
<1>7. 0 \in S
  <2>1. <<>> \in Seq(Words) /\ Len(<<>>) = 0
    OBVIOUS
  <2>2. \A i \in 1..Len(<<>>) : <<>>[i] # WorkId
    BY <2>1
  <2>3. H(<<>>) = <<>>
    BY <2>1, <2>2, ReplaceNone
  <2> QED
    BY <1>3, <1>5, <2>3
<1>8. ASSUME NEW i \in 0..(n - 1), i \in S PROVE i + 1 \in S
  <2>1. i + 1 \in 1..n /\ i \in 0..n /\ (i + 1) - 1 = i /\ i + 1 \in Nat
    BY <1>1
  <2> DEFINE e == Instead(p, FeatureId, f, i + 1)
  <2>2. g[i + 1] = g[i] \o e /\ g[i] \in Seq(Words) /\ e \in Seq(Words)
    BY <1>3, <1>6, <2>1
  <2>3. H(e) = Part(p, f, t, i + 1)
    BY <1>6, <2>1
  <2>4. h[i + 1] = h[i] \o Part(p, f, t, i + 1)
    BY <1>5, <2>1
  <2> HIDE DEF e
  <2>5. \A a, b \in Seq(Words) : H(a \o b) = H(a) \o H(b)
    <3>1. \A a, b \in Seq(Words) :
            Replace(a \o b, WorkId, t) = Replace(a, WorkId, t) \o Replace(b, WorkId, t)
      BY ReplacedApart, Zenon
    <3> QED
      BY <3>1, Zenon DEF H
  <2>6. H(g[i] \o e) = H(g[i]) \o H(e)
    BY <2>2, <2>5
  <2>7. H(g[i]) = h[i]
    BY <1>8, <2>1
  <2> HIDE DEF H
  <2> QED
    BY <2>1, <2>2, <2>3, <2>4, <2>6, <2>7 DEF S
<1>9. H(g[n]) = h[n]
  <2> HIDE DEF S, H
  <2>1. 0..n \subseteq S
    BY <1>1, <1>7, <1>8, Counting
  <2> QED
    BY <1>1, <2>1 DEF S
<1> QED
  BY <1>3, <1>5, <1>9 DEF DeriveBranch

----------------------------------------------------------------------------
\* Where the elements of a pattern start in a name.

Width(p, w, k) == IF k \in Holes(p) THEN w[k] ELSE 1

\* The recursive definition of Starts has a solution, so it is one.
LEMMA StartsEquation ==
  ASSUME NEW p \in Seq(Words), NEW w
  PROVE  Starts(p, w) = [k \in 1..(Len(p) + 1) |->
                           IF k = 1 THEN 1
                           ELSE Starts(p, w)[k - 1] + Width(p, w, k - 1)]
<1> DEFINE Solves(f, k) ==
             f = [i \in 1..(k + 1) |-> IF i = 1 THEN 1
                                       ELSE f[i - 1] + Width(p, w, i - 1)]
           S == {k \in Nat : \E f : Solves(f, k)}
           n == Len(p)
<1>1. n \in Nat
  OBVIOUS
<1>2. 0 \in S
  <2> DEFINE f == [i \in 1..(0 + 1) |-> 1]
  <2>1. Solves(f, 0)
    OBVIOUS
  <2> QED
    BY <2>1
<1>3. ASSUME NEW k \in 0..(n - 1), k \in S PROVE k + 1 \in S
  <2>1. PICK f : Solves(f, k)
    BY <1>3
  <2> DEFINE next == f[k + 1] + Width(p, w, k + 1)
             g == [i \in 1..(k + 2) |-> IF i = k + 2 THEN next ELSE f[i]]
  <2>2. k \in Nat /\ k + 1 \in Nat /\ (k + 1) + 1 = k + 2 /\ (k + 2) - 1 = k + 1
    BY <1>1
  <2>3. \A i \in 1..(k + 1) : f[i] = IF i = 1 THEN 1
                                     ELSE f[i - 1] + Width(p, w, i - 1)
    BY <2>1
  <2>4. \A i \in 1..(k + 2) : g[i] = IF i = 1 THEN 1
                                     ELSE g[i - 1] + Width(p, w, i - 1)
    <3> SUFFICES ASSUME NEW i \in 1..(k + 2)
                 PROVE  g[i] = IF i = 1 THEN 1
                               ELSE g[i - 1] + Width(p, w, i - 1)
      OBVIOUS
    <3>1. CASE i = k + 2
      <4>1. i # 1 /\ i - 1 = k + 1 /\ i - 1 \in 1..(k + 2) /\ i - 1 # k + 2
        BY <2>2, <3>1
      <4>2. g[i] = next /\ g[i - 1] = f[k + 1]
        BY <3>1, <4>1
      <4> QED
        BY <4>1, <4>2
    <3>2. CASE i # k + 2
      <4>1. i \in 1..(k + 1)
        BY <2>2, <3>2
      <4>2. i # 1 => i - 1 \in 1..(k + 2) /\ i - 1 # k + 2
        BY <2>2, <3>2
      <4>3. g[i] = f[i] /\ (i # 1 => g[i - 1] = f[i - 1])
        BY <3>2, <4>2
      <4> QED
        BY <2>3, <4>1, <4>3
    <3> QED
      BY <3>1, <3>2
  <2> HIDE DEF next
  <2>5. Solves(g, k + 1)
    BY <2>2, <2>4
  <2> QED
    BY <2>2, <2>5
<1>4. n \in S
  <2> HIDE DEF S, n
  <2>1. 0..n \subseteq S
    BY <1>1, <1>2, <1>3, Counting
  <2> QED
    BY <1>1, <2>1
<1>5. PICK f : Solves(f, n)
  BY <1>4
<1> DEFINE P(g) == g = [k \in 1..(Len(p) + 1) |->
                          IF k = 1 THEN 1
                          ELSE g[k - 1] + (IF k - 1 \in Holes(p) THEN w[k - 1] ELSE 1)]
<1>6. P(f)
  BY <1>5 DEF Width
<1>7. Starts(p, w) = CHOOSE g : P(g)
  BY DEF Starts
<1> HIDE DEF P
<1>8. P(CHOOSE g : P(g))
  BY <1>6
<1>9. P(Starts(p, w))
  BY <1>7, <1>8
<1> QED
  BY <1>9 DEF P, Width

\* Each element starts where the one before it ends.
LEMMA StartsFollow ==
  ASSUME NEW p \in Seq(Words), NEW w \in [Holes(p) -> Nat]
  PROVE  /\ Start(p, w, 1) = 1
         /\ \A k \in 1..Len(p) : /\ Start(p, w, k) \in Nat
                                 /\ Width(p, w, k) \in Nat
                                 /\ Start(p, w, k + 1) = Start(p, w, k) + Width(p, w, k)
         /\ Start(p, w, Len(p) + 1) \in Nat
<1> DEFINE n == Len(p)
           at == Starts(p, w)
           S == {i \in Nat : i \in 0..n => at[i + 1] \in Nat}
<1>1. n \in Nat
  OBVIOUS
<1>2. \A k \in 1..(n + 1) : at[k] = IF k = 1 THEN 1 ELSE at[k - 1] + Width(p, w, k - 1)
  BY StartsEquation
<1>3. \A k \in 1..n : Width(p, w, k) \in Nat
  BY DEF Width
<1> HIDE DEF at
<1>4. 0 \in S
  BY <1>1, <1>2
<1>5. at[1] = 1 /\ \A k \in 1..n : at[k + 1] = at[k] + Width(p, w, k)
  <2>1. 1 \in 1..(n + 1)
    BY <1>1
  <2>2. at[1] = 1
    BY <1>2, <2>1
  <2>3. ASSUME NEW k \in 1..n PROVE at[k + 1] = at[k] + Width(p, w, k)
    <3>1. k + 1 \in 1..(n + 1) /\ k + 1 # 1 /\ (k + 1) - 1 = k
      BY <1>1
    <3> QED
      BY <1>2, <3>1
  <2> QED
    BY <2>2, <2>3
<1>6. ASSUME NEW i \in 0..(n - 1), i \in S PROVE i + 1 \in S
  <2>1. i + 1 \in 1..n /\ i \in 0..n /\ i + 1 \in Nat
    BY <1>1
  <2> QED
    BY <1>3, <1>5, <1>6, <2>1
<1>7. 0..n \subseteq S
  <2> HIDE DEF S
  <2> QED
    BY <1>1, <1>4, <1>6, Counting
<1>8. \A k \in 1..(n + 1) : at[k] \in Nat
  <2> SUFFICES ASSUME NEW k \in 1..(n + 1) PROVE at[k] \in Nat
    OBVIOUS
  <2>1. k - 1 \in 0..n /\ (k - 1) + 1 = k
    BY <1>1
  <2> QED
    BY <1>7, <2>1
<1> QED
  BY <1>1, <1>3, <1>5, <1>8 DEF Start, at

\* Where every placeholder takes a word, later elements start later.
LEMMA StartsGrow ==
  ASSUME NEW p \in Seq(Words), NEW w \in [Holes(p) -> Nat], \A h \in Holes(p) : w[h] >= 1
  PROVE  \A k, l \in 1..(Len(p) + 1) : k < l => Start(p, w, k) < Start(p, w, l)
<1> DEFINE n == Len(p)
           at(k) == Start(p, w, k)
<1>1. n \in Nat
  OBVIOUS
<1>2. \A k \in 1..n : /\ at(k) \in Nat /\ Width(p, w, k) \in Nat
                      /\ at(k + 1) = at(k) + Width(p, w, k)
  BY StartsFollow
<1>3. \A k \in 1..n : Width(p, w, k) >= 1
  BY DEF Width
<1> HIDE DEF at, n
<1>4. \A k \in 1..n : at(k) \in Nat /\ at(k + 1) \in Nat /\ at(k) < at(k + 1)
  BY <1>2, <1>3
<1>5. ASSUME NEW k \in 1..(n + 1) PROVE \A l \in 1..(n + 1) : k < l => at(k) < at(l)
  <2> DEFINE S == {m \in Nat : m \in 0..n => (k < m + 1 => at(k) < at(m + 1))}
  <2>1. 0 \in S
    BY <1>1
  <2>2. ASSUME NEW m \in 0..(n - 1), m \in S PROVE m + 1 \in S
    <3>1. m + 1 \in 1..n /\ m \in 0..n /\ m + 1 \in Nat
      BY <1>1
    <3>2. at(m + 1) \in Nat /\ at((m + 1) + 1) \in Nat /\ at(m + 1) < at((m + 1) + 1)
      BY <1>4, <3>1
    <3>3. CASE k = m + 1
      BY <3>1, <3>2, <3>3
    <3>4. CASE k < m + 1
      <4>1. k \in 1..n
        BY <1>1, <3>1, <3>4
      <4>2. at(k) \in Nat /\ at(k) < at(m + 1)
        BY <1>4, <2>2, <3>1, <3>4, <4>1
      <4> QED
        BY <3>1, <3>2, <4>2
    <3>5. CASE ~(k <= m + 1)
      BY <1>1, <3>1, <3>5
    <3> QED
      BY <1>1, <3>1, <3>3, <3>4, <3>5
  <2>3. 0..n \subseteq S
    <3> HIDE DEF S
    <3> QED
      BY <1>1, <2>1, <2>2, Counting
  <2> SUFFICES ASSUME NEW l \in 1..(n + 1), k < l PROVE at(k) < at(l)
    OBVIOUS
  <2>4. l - 1 \in 0..n /\ (l - 1) + 1 = l
    BY <1>1
  <2> QED
    BY <2>3, <2>4
<1> QED
  BY <1>5 DEF at, n

\* What each placeholder stands for takes its own words.
Spelling(p, f, t) == [k \in Holes(p) |-> Len(Part(p, f, t, k))]

LEMMA SpellingType ==
  ASSUME NEW p \in Seq(Words), NEW f \in Seq(Words), NEW t \in Seq(Words)
  PROVE  /\ Spelling(p, f, t) \in [Holes(p) -> Nat]
         /\ \A k \in 1..Len(p) :
              /\ Part(p, f, t, k) \in Seq(Words)
              /\ Len(Part(p, f, t, k)) \in Nat
              /\ Width(p, Spelling(p, f, t), k) = Len(Part(p, f, t, k))
<1>1. \A k \in 1..Len(p) :
        /\ Part(p, f, t, k) \in Seq(Words)
        /\ p[k] \notin {FeatureId, WorkId} => Part(p, f, t, k) = <<p[k]>>
  BY PartIs
<1>2. \A k \in 1..Len(p) : Len(Part(p, f, t, k)) \in Nat
  BY <1>1
<1>3. ASSUME NEW k \in 1..Len(p)
      PROVE  Width(p, Spelling(p, f, t), k) = Len(Part(p, f, t, k))
  <2>1. CASE k \in Holes(p)
    BY <2>1 DEF Width, Spelling
  <2>2. CASE k \notin Holes(p)
    <3>1. Part(p, f, t, k) = <<p[k]>>
      BY <1>1, <2>2 DEF Holes
    <3> QED
      BY <2>2, <3>1 DEF Width
  <2> QED
    BY <2>1, <2>2
<1>4. \A k \in Holes(p) : k \in 1..Len(p)
  BY DEF Holes
<1> QED
  BY <1>1, <1>2, <1>3, <1>4 DEF Spelling

\* Element k of the pattern is found in the name where it starts.
LEMMA Spelled ==
  ASSUME NEW p \in Seq(Words), NEW f \in Seq(Words), NEW t \in Seq(Words)
  PROVE  LET b == TaskBranch(p, f, t)
             w == Spelling(p, f, t)
         IN  /\ b \in Seq(Words)
             /\ Start(p, w, Len(p) + 1) = Len(b) + 1
             /\ \A k \in 1..Len(p) : \A q \in 1..Len(Part(p, f, t, k)) :
                  /\ Start(p, w, k) + q - 1 \in 1..Len(b)
                  /\ b[Start(p, w, k) + q - 1] = Part(p, f, t, k)[q]
<1> DEFINE n == Len(p)
           w == Spelling(p, f, t)
           at(k) == Start(p, w, k)
           part(k) == Part(p, f, t, k)
<1>1. PICK g : Naming(g, p, f, t)
  BY BranchJoined
<1>2. /\ g[0] = <<>>
      /\ \A i \in 0..n : g[i] \in Seq(Words)
      /\ \A i \in 1..n : g[i] = g[i - 1] \o part(i)
      /\ TaskBranch(p, f, t) = g[n]
  BY <1>1 DEF Naming
<1>3. n \in Nat
  OBVIOUS
<1>4. \A k \in 1..n : part(k) \in Seq(Words) /\ Len(part(k)) \in Nat
  BY SpellingType
<1>5. at(1) = 1 /\ \A k \in 1..n : at(k) \in Nat /\ at(k + 1) = at(k) + Len(part(k))
  BY SpellingType, StartsFollow
<1> HIDE DEF w, at, part
<1> DEFINE Found(i, k) == \A q \in 1..Len(part(k)) :
                            /\ at(k) + q - 1 \in 1..Len(g[i])
                            /\ g[i][at(k) + q - 1] = part(k)[q]
           Good(i) == /\ at(i + 1) = Len(g[i]) + 1
                      /\ \A k \in 1..i : Found(i, k)
           S == {i \in Nat : i \in 0..n => Good(i)}
<1>6. 0 \in S
  BY <1>2, <1>5
<1>7. ASSUME NEW i \in 0..(n - 1), i \in S PROVE i + 1 \in S
  <2>1. /\ i + 1 \in 1..n /\ i \in 0..n /\ i + 1 \in 0..n
        /\ (i + 1) - 1 = i /\ i + 1 \in Nat /\ i \in Nat
    BY <1>3
  <2> DEFINE x == g[i]
             y == part(i + 1)
  <2>2. /\ x \in Seq(Words) /\ y \in Seq(Words) /\ g[i + 1] = x \o y
        /\ Len(x) \in Nat /\ Len(y) \in Nat
    <3>1. g[i + 1] = g[(i + 1) - 1] \o part(i + 1)
      BY <1>2, <2>1
    <3>2. g[i] \in Seq(Words) /\ part(i + 1) \in Seq(Words)
      BY <1>2, <1>4, <2>1
    <3>3. Len(g[i]) \in Nat
      BY <3>2
    <3> QED
      BY <1>4, <2>1, <3>1, <3>2, <3>3
  <2>3. Good(i)
    BY <1>7, <2>1
  <2>4. at(i + 2) = at(i + 1) + Len(y)
    <3>1. (i + 1) + 1 = i + 2
      BY <2>1
    <3>2. at((i + 1) + 1) = at(i + 1) + Len(part(i + 1))
      BY <1>5, <2>1
    <3> QED
      BY <3>1, <3>2
  <2>5. at(i + 1) = Len(x) + 1 /\ \A k \in 1..i : Found(i, k)
    BY <2>3
  <2> HIDE DEF x, y
  <2>6. /\ Len(x \o y) = Len(x) + Len(y)
        /\ \A m \in 1..(Len(x) + Len(y)) :
             (x \o y)[m] = IF m <= Len(x) THEN x[m] ELSE y[m - Len(x)]
    BY <2>2, ConcatProperties
  <2>7. at((i + 1) + 1) = Len(g[i + 1]) + 1
    <3>1. (i + 1) + 1 = i + 2
      BY <2>1
    <3> QED
      BY <2>2, <2>4, <2>5, <2>6, <3>1
  <2>8. ASSUME NEW k \in 1..(i + 1) PROVE Found(i + 1, k)
    <3> SUFFICES ASSUME NEW q \in 1..Len(part(k))
                 PROVE  /\ at(k) + q - 1 \in 1..Len(g[i + 1])
                        /\ g[i + 1][at(k) + q - 1] = part(k)[q]
      OBVIOUS
    <3> DEFINE m == at(k) + q - 1
    <3>1. CASE k = i + 1
      <4>1. q \in 1..Len(y) /\ part(k) = y
        BY <3>1 DEF y
      <4>2. m = Len(x) + q
        BY <2>2, <2>5, <3>1, <4>1
      <4>3. m \in 1..(Len(x) + Len(y)) /\ ~(m <= Len(x)) /\ m - Len(x) = q
        BY <2>2, <4>1, <4>2
      <4> HIDE DEF m
      <4>4. m \in 1..Len(g[i + 1]) /\ g[i + 1][m] = part(k)[q]
        BY <2>2, <2>6, <4>1, <4>3
      <4> QED
        BY <4>4 DEF m
    <3>2. CASE k # i + 1
      <4>1. k \in 1..i
        BY <2>1, <3>2
      <4>2. m \in 1..Len(x) /\ x[m] = part(k)[q]
        BY <2>5, <4>1 DEF x
      <4> HIDE DEF m
      <4>3. m \in 1..(Len(x) + Len(y)) /\ m <= Len(x)
        BY <2>2, <4>2
      <4>4. m \in 1..Len(g[i + 1]) /\ g[i + 1][m] = part(k)[q]
        BY <2>2, <2>6, <4>2, <4>3
      <4> QED
        BY <4>4 DEF m
    <3> QED
      BY <3>1, <3>2
  <2> QED
    BY <2>1, <2>7, <2>8
<1>8. Good(n)
  <2> HIDE DEF S
  <2>1. 0..n \subseteq S
    BY <1>3, <1>6, <1>7, Counting
  <2> QED
    BY <1>3, <2>1 DEF S
<1>9. /\ g[n] \in Seq(Words)
      /\ at(n + 1) = Len(g[n]) + 1
      /\ \A k \in 1..n : \A q \in 1..Len(part(k)) :
           /\ at(k) + q - 1 \in 1..Len(g[n])
           /\ g[n][at(k) + q - 1] = part(k)[q]
  BY <1>2, <1>3, <1>8
<1> HIDE DEF n
<1> QED
  BY <1>2, <1>9 DEF w, at, part, n

\* What a placeholder captures, if it captures what it stands for.
LEMMA Captured ==
  ASSUME NEW p \in Seq(Words), NEW f \in Seq(Words), NEW t \in Seq(Words),
         NEW k \in 1..Len(p), Part(p, f, t, k) # <<>>
  PROVE  Capture(p, TaskBranch(p, f, t), Spelling(p, f, t), k) = Part(p, f, t, k)
<1> DEFINE b == TaskBranch(p, f, t)
           w == Spelling(p, f, t)
           from == Start(p, w, k)
           to == Start(p, w, k + 1) - 1
           part == Part(p, f, t, k)
           c == SubSeq(b, from, to)
<1>1. part \in Seq(Words) /\ Len(part) \in Nat /\ Len(part) # 0
  BY SpellingType, EmptySeq
<1>2. from \in Nat /\ to = from + Len(part) - 1
  <2>1. Len(part) = Width(p, w, k)
    BY SpellingType
  <2>2. w \in [Holes(p) -> Nat]
    BY SpellingType
  <2> HIDE DEF w, part
  <2>3. Start(p, w, k) \in Nat /\ Start(p, w, k + 1) = Start(p, w, k) + Width(p, w, k)
    BY <2>2, StartsFollow
  <2> QED
    BY <1>1, <2>1, <2>3
<1>3. /\ b \in Seq(Words)
      /\ \A q \in 1..Len(part) : from + q - 1 \in 1..Len(b) /\ b[from + q - 1] = part[q]
  BY Spelled
<1> HIDE DEF b, w, from, to, part
<1>4. from \in 1..(Len(b) + 1) /\ to \in (from - 1)..Len(b)
  <2>1. from + 1 - 1 \in 1..Len(b) /\ from + Len(part) - 1 \in 1..Len(b)
    BY <1>1, <1>3
  <2>2. Len(b) \in Nat
    BY <1>3
  <2> QED
    BY <1>1, <1>2, <2>1, <2>2
<1>5. \A m \in from..to : b[m] \in Words
  BY <1>2, <1>3, <1>4, ElementOfSeq
<1>6. /\ c \in Seq(Words)
      /\ Len(c) = Len(part)
      /\ \A q \in 1..Len(part) : c[q] = b[from + q - 1]
  <2>1. to - from + 1 = Len(part)
    BY <1>1, <1>2
  <2> QED
    BY <1>1, <1>2, <1>3, <1>4, <1>5, <2>1, SubSeqProperties
<1> HIDE DEF c
<1>7. \A q \in 1..Len(part) : c[q] = part[q]
  BY <1>3, <1>6
<1>8. c = part
  BY <1>1, <1>6, <1>7, SeqEqual
<1> QED
  BY <1>8 DEF Capture, b, w, from, to, part, c

\* A branch that the pattern names matches it, whatever the pattern.
LEMMA NameMatches ==
  ASSUME NEW p \in Seq(Words), NEW f \in Seq(Words), NEW t \in Seq(Words),
         f # <<>>, \A k \in 1..Len(p) : p[k] = WorkId => t # <<>> /\ ~Contains(t, "/")
  PROVE  Spelling(p, f, t) \in Matches(p, TaskBranch(p, f, t))
<1> DEFINE b == TaskBranch(p, f, t)
           w == Spelling(p, f, t)
           part(k) == Part(p, f, t, k)
<1>1. \A k \in 1..Len(p) :
        /\ part(k) \in Seq(Words) /\ Len(part(k)) \in Nat
        /\ p[k] = FeatureId => part(k) = f
        /\ p[k] = WorkId => part(k) = t
        /\ p[k] \notin {FeatureId, WorkId} => part(k) = <<p[k]>>
  BY PartIs
<1>2. /\ b \in Seq(Words)
      /\ Start(p, w, Len(p) + 1) = Len(b) + 1
      /\ \A k \in 1..Len(p) : \A q \in 1..Len(part(k)) :
           /\ Start(p, w, k) + q - 1 \in 1..Len(b)
           /\ b[Start(p, w, k) + q - 1] = part(k)[q]
  BY Spelled
<1>3. /\ w \in [Holes(p) -> Nat]
      /\ \A k \in 1..Len(p) : /\ Width(p, w, k) = Len(part(k))
                              /\ Start(p, w, k) \in Nat
                              /\ Start(p, w, k + 1) = Start(p, w, k) + Len(part(k))
  <2>1. w \in [Holes(p) -> Nat] /\ \A k \in 1..Len(p) : Width(p, w, k) = Len(part(k))
    BY SpellingType
  <2> HIDE DEF w, part
  <2>2. \A k \in 1..Len(p) : /\ Start(p, w, k) \in Nat
                             /\ Start(p, w, k + 1) = Start(p, w, k) + Width(p, w, k)
    BY <2>1, StartsFollow
  <2> QED
    BY <2>1, <2>2
<1>4. \A k \in Holes(p) : /\ k \in 1..Len(p) /\ part(k) # <<>>
                          /\ p[k] = WorkId => part(k) = t
  BY <1>1 DEF Holes
<1>5. \A k \in 1..Len(p) \ Holes(p) : part(k) = <<p[k]>>
  BY <1>1 DEF Holes
<1>6. \A k \in Holes(p) : Capture(p, b, w, k) = part(k)
  BY <1>4, Captured
<1> HIDE DEF b, w, part
<1>7. \A k \in Holes(p) : w[k] \in 1..Len(b)
  <2> SUFFICES ASSUME NEW k \in Holes(p) PROVE w[k] \in 1..Len(b)
    OBVIOUS
  <2>1. w[k] = Len(part(k)) /\ Len(part(k)) \in Nat /\ Len(part(k)) # 0
    BY <1>1, <1>3, <1>4, EmptySeq DEF Width
  <2>2. Start(p, w, k) + 1 - 1 \in 1..Len(b)
    BY <1>2, <1>4, <2>1
  <2>3. Start(p, w, k) + Len(part(k)) - 1 \in 1..Len(b)
    BY <1>2, <1>4, <2>1
  <2>4. Start(p, w, k) \in Nat /\ Len(b) \in Nat
    BY <1>2, <1>3, <1>4
  <2> QED
    BY <2>1, <2>2, <2>3, <2>4
<1>8. \A k \in 1..Len(p) \ Holes(p) : b[Start(p, w, k)] = p[k]
  <2> SUFFICES ASSUME NEW k \in 1..Len(p) \ Holes(p) PROVE b[Start(p, w, k)] = p[k]
    OBVIOUS
  <2>1. Len(part(k)) = 1 /\ part(k)[1] = p[k]
    BY <1>5
  <2>2. b[Start(p, w, k) + 1 - 1] = p[k]
    BY <1>2, <2>1
  <2>3. Start(p, w, k) + 1 - 1 = Start(p, w, k)
    BY <1>3
  <2> QED
    BY <2>2, <2>3
<1>9. \A k \in Holes(p) : p[k] = WorkId => ~Contains(Capture(p, b, w, k), "/")
  BY <1>4, <1>6
<1>10. w \in [Holes(p) -> 1..Len(b)]
  BY <1>3, <1>7
<1>11. w \in Matches(p, b)
  BY <1>2, <1>8, <1>9, <1>10 DEF Matches
<1> QED
  BY <1>11 DEF b, w

----------------------------------------------------------------------------
\* Of all matches of such a branch the greedy one gives each group its own.

\* No name holds the separator behind a group that comes before it.
Apart(p, f) == \A i, j \in Holes(p) : i < j /\ p[j] = FeatureId => ~Contains(f, p[i + 1])

Separated(p) == \A i \in Holes(p) : i + 1 \in 1..Len(p) => p[i + 1] \in Separators

\* A task is a word, and no separator.
OneWord(p, t) ==
  \A k \in Holes(p) : p[k] = WorkId =>
    Len(t) = 1 /\ t[1] # "/" /\ \A x \in Separators : ~Contains(t, x)

LEMMA TaskWord ==
  ASSUME NEW p \in Seq(Words), NEW t \in Seq(Words), OneWord(p, t)
  PROVE  \A k \in 1..Len(p) : p[k] = WorkId => t # <<>> /\ ~Contains(t, "/")
<1> SUFFICES ASSUME NEW k \in 1..Len(p), p[k] = WorkId
             PROVE  t # <<>> /\ ~Contains(t, "/")
  OBVIOUS
<1>1. Len(t) = 1 /\ t[1] # "/"
  BY DEF OneWord, Holes
<1>2. t # <<>>
  <2>1. t # <<>> \/ Len(t) = 0
    BY EmptySeq
  <2> QED
    BY <1>1, <2>1
<1>3. ~Contains(t, "/")
  <2>1. \A m \in 1..Len(t) : m = 1
    BY <1>1
  <2> QED
    BY <1>1, <2>1 DEF Contains
<1> QED
  BY <1>2, <1>3

\* A separator that is in none of the names is in the branch where it is in the
\* pattern, and nowhere else.
LEMMA OnlyLiterals ==
  ASSUME NEW p \in Seq(Words), NEW f \in Seq(Words), NEW t \in Seq(Words),
         NEW x, ~Contains(f, x), \A h \in Holes(p) : p[h] = WorkId => ~Contains(t, x),
         NEW k \in 1..Len(TaskBranch(p, f, t)), TaskBranch(p, f, t)[k] = x
  PROVE  \E l \in 1..Len(p) : p[l] = x /\ Start(p, Spelling(p, f, t), l) = k
<1> DEFINE n == Len(p)
           b == TaskBranch(p, f, t)
           w == Spelling(p, f, t)
           at(l) == Start(p, w, l)
           part(l) == Part(p, f, t, l)
           T == {l \in 1..n : k < at(l + 1)}
<1>1. n \in Nat
  OBVIOUS
<1>2. /\ b \in Seq(Words) /\ at(n + 1) = Len(b) + 1
      /\ \A l \in 1..n : \A q \in 1..Len(part(l)) : b[at(l) + q - 1] = part(l)[q]
  BY Spelled
<1>3. /\ at(1) = 1 /\ at(n + 1) \in Nat
      /\ \A l \in 1..n : at(l) \in Nat /\ Len(part(l)) \in Nat
                         /\ at(l + 1) = at(l) + Len(part(l))
  BY SpellingType, StartsFollow
<1>4. k \in 1..Len(b) /\ b[k] = x /\ Len(b) \in Nat
  BY <1>2
<1>5. \A l \in 1..n : /\ p[l] = FeatureId => part(l) = f
                      /\ p[l] = WorkId => part(l) = t
                      /\ p[l] \notin {FeatureId, WorkId} => part(l) = <<p[l]>>
  BY PartIs
<1> HIDE DEF b, w, at, part, n
<1>6. n \in T
  <2>1. n # 0
    BY <1>1, <1>2, <1>3, <1>4
  <2> QED
    BY <1>1, <1>2, <1>4, <2>1
<1>7. PICK l \in T : \A m \in T : l <= m
  <2>1. T \subseteq 1..n
    OBVIOUS
  <2> HIDE DEF T
  <2>2. T \in SUBSET Nat /\ T # {}
    BY <1>1, <1>6, <2>1
  <2> QED
    BY <2>2, Least
<1>8. l \in 1..n /\ k < at(l + 1) /\ at(l) \in Nat
  BY <1>3
<1>9. at(l) <= k
  <2>1. CASE l = 1
    BY <1>3, <1>4, <2>1
  <2>2. CASE l # 1
    <3>1. l - 1 \in 1..n /\ (l - 1) + 1 = l /\ l - 1 < l
      BY <1>1, <1>8, <2>2
    <3>2. l - 1 \notin T
      BY <1>1, <1>7, <1>8, <3>1
    <3>3. ~(k < at(l))
      BY <3>1, <3>2
    <3> QED
      BY <1>4, <1>8, <3>3
  <2> QED
    BY <2>1, <2>2
<1> HIDE DEF T
<1> DEFINE q == k - at(l) + 1
<1>10. q \in 1..Len(part(l)) /\ at(l) + q - 1 = k
  <2>1. /\ at(l + 1) = at(l) + Len(part(l)) /\ Len(part(l)) \in Nat
        /\ k \in Nat /\ k < at(l + 1) /\ at(l) \in Nat
    BY <1>3, <1>4, <1>8
  <2> QED
    BY <1>9, <2>1
<1> HIDE DEF q
<1>11. part(l)[q] = x
  BY <1>2, <1>4, <1>8, <1>10
<1>12. p[l] # FeatureId
  BY <1>5, <1>8, <1>10, <1>11 DEF Contains
<1>13. p[l] # WorkId
  <2> SUFFICES ASSUME p[l] = WorkId PROVE FALSE
    OBVIOUS
  <2>1. l \in Holes(p) /\ part(l) = t
    BY <1>5, <1>8 DEF Holes, n
  <2> QED
    BY <1>10, <1>11, <2>1 DEF Contains
<1>14. part(l) = <<p[l]>>
  BY <1>5, <1>8, <1>12, <1>13
<1>15. q = 1 /\ p[l] = x
  BY <1>10, <1>11, <1>14
<1>16. at(l) = k
  BY <1>8, <1>10, <1>15
<1> QED
  BY <1>8, <1>15, <1>16 DEF at, w, n

\* Two matches that agree before element i have it start at the same word.
LEMMA StartsAgree ==
  ASSUME NEW p \in Seq(Words), NEW v \in [Holes(p) -> Nat], NEW w \in [Holes(p) -> Nat],
         NEW i \in 1..Len(p), \A h \in Holes(p) : h < i => v[h] = w[h]
  PROVE  Start(p, v, i) = Start(p, w, i)
<1> DEFINE n == Len(p)
           S == {m \in Nat : m < i => Start(p, v, m + 1) = Start(p, w, m + 1)}
<1>1. n \in Nat /\ i \in 1..n
  OBVIOUS
<1>2. /\ Start(p, v, 1) = Start(p, w, 1)
      /\ \A k \in 1..n : /\ Start(p, v, k + 1) = Start(p, v, k) + Width(p, v, k)
                         /\ Start(p, w, k + 1) = Start(p, w, k) + Width(p, w, k)
  BY StartsFollow
<1>3. \A k \in 1..n : k < i => Width(p, v, k) = Width(p, w, k)
  BY DEF Width
<1> HIDE DEF n
<1>4. 0 \in S
  BY <1>2
<1>5. ASSUME NEW m \in 0..(n - 1), m \in S PROVE m + 1 \in S
  <2>1. m + 1 \in 1..n /\ m + 1 \in Nat
    BY <1>1
  <2>2. ASSUME m + 1 < i
        PROVE  Start(p, v, (m + 1) + 1) = Start(p, w, (m + 1) + 1)
    <3>1. Start(p, v, m + 1) = Start(p, w, m + 1)
      BY <1>1, <1>5, <2>1, <2>2
    <3> QED
      BY <1>2, <1>3, <2>1, <2>2, <3>1
  <2> QED
    BY <2>1, <2>2
<1>6. 0..n \subseteq S
  <2> HIDE DEF S
  <2> QED
    BY <1>1, <1>4, <1>5, Counting
<1>7. i - 1 \in 0..n /\ i - 1 < i /\ (i - 1) + 1 = i
  BY <1>1
<1> QED
  BY <1>6, <1>7

\* The greatest of some numbers up to n.
LEMMA Greatest ==
  ASSUME NEW n \in Nat, NEW T \in SUBSET (0..n), T # {}
  PROVE  \E m \in T : \A k \in T : k <= m
<1> DEFINE U == {n - k : k \in T}
<1>1. U \in SUBSET Nat /\ U # {}
  <2>1. \A k \in T : k \in 0..n
    OBVIOUS
  <2>2. \A k \in 0..n : n - k \in Nat
    OBVIOUS
  <2>3. PICK k \in T : TRUE
    OBVIOUS
  <2>4. n - k \in U
    OBVIOUS
  <2> QED
    BY <2>1, <2>2, <2>4
<1>2. PICK d \in U : \A e \in U : d <= e
  <2> HIDE DEF U
  <2> QED
    BY <1>1, Least
<1>3. PICK m \in T : d = n - m
  OBVIOUS
<1>4. ASSUME NEW k \in T PROVE k <= m
  <2>1. n - k \in U /\ k \in 0..n /\ m \in 0..n
    OBVIOUS
  <2>2. n - m <= n - k
    BY <1>2, <1>3, <2>1
  <2> QED
    BY <2>1, <2>2
<1> QED
  BY <1>4

\* A match that agrees with the name before group i gives this group no more. If
\* the feature comes later, more would take in the separator behind the group;
\* then some literal, the last that starts late, has no place to be found. If
\* only tasks come later, each of them has its one word already.
LEMMA NoMore ==
  ASSUME NEW p \in Seq(Words), NEW f \in Seq(Words), f # <<>>,
         NEW t \in Seq(Words), OneWord(p, t), Separated(p), Apart(p, f),
         NEW v \in Matches(p, TaskBranch(p, f, t)), NEW i \in Holes(p),
         \A h \in Holes(p) : h < i => v[h] = Spelling(p, f, t)[h]
  PROVE  v[i] <= Spelling(p, f, t)[i]
<1> DEFINE n == Len(p)
           b == TaskBranch(p, f, t)
           w == Spelling(p, f, t)
           vat(k) == Start(p, v, k)
           wat(k) == Start(p, w, k)
<1>1. n \in Nat /\ i \in 1..n /\ \A h \in Holes(p) : h \in 1..n
  BY DEF Holes
<1>2. w \in Matches(p, b)
  <2>1. \A k \in 1..Len(p) : p[k] = WorkId => t # <<>> /\ ~Contains(t, "/")
    BY TaskWord
  <2> HIDE DEF w, b
  <2> QED
    BY <2>1, NameMatches DEF w, b
<1>3. b \in Seq(Words) /\ Len(b) \in Nat
  <2>1. b \in Seq(Words)
    BY Spelled
  <2> QED
    BY <2>1
<1> HIDE DEF b, w
<1>4. ASSUME NEW y \in {v, w}
      PROVE  /\ y \in [Holes(p) -> Nat] /\ \A h \in Holes(p) : y[h] >= 1
             /\ Start(p, y, n + 1) = Len(b) + 1
             /\ \A k \in 1..n \ Holes(p) : b[Start(p, y, k)] = p[k]
  <2>1. /\ y \in [Holes(p) -> 1..Len(b)]
        /\ Start(p, y, n + 1) = Len(b) + 1
        /\ \A k \in 1..n \ Holes(p) : b[Start(p, y, k)] = p[k]
    BY <1>2 DEF Matches, b
  <2> QED
    BY <1>3, <2>1
<1>5. ASSUME NEW y \in {v, w}
      PROVE  /\ \A k \in 1..n : /\ Start(p, y, k) \in Nat
                                /\ Start(p, y, k + 1) = Start(p, y, k) + Width(p, y, k)
             /\ Start(p, y, 1) = 1 /\ Start(p, y, n + 1) \in Nat
             /\ \A k, l \in 1..(n + 1) : k < l => Start(p, y, k) < Start(p, y, l)
  BY <1>4, StartsFollow, StartsGrow
<1>6. vat(i) = wat(i)
  BY <1>1, <1>4, StartsAgree DEF w
<1> SUFFICES ASSUME ~(v[i] <= w[i]) PROVE FALSE
  BY DEF w
<1>7. v[i] \in Nat /\ w[i] \in Nat /\ v[i] > w[i]
  BY <1>4
<1>8. i + 1 \in 1..(n + 1) /\ vat(i + 1) > wat(i + 1)
  <2>1. vat(i + 1) = vat(i) + v[i] /\ wat(i + 1) = wat(i) + w[i] /\ wat(i) \in Nat
    BY <1>1, <1>5 DEF Width
  <2> QED
    BY <1>1, <1>6, <1>7, <2>1
<1>9. CASE \A j \in Holes(p) : i < j => p[j] # FeatureId
  <2>1. \A k \in 1..n : i < k => Width(p, w, k) <= Width(p, v, k) /\ Width(p, w, k) \in Nat
                                 /\ Width(p, v, k) \in Nat
    <3> SUFFICES ASSUME NEW k \in 1..n, i < k
                 PROVE  Width(p, w, k) <= Width(p, v, k) /\ Width(p, w, k) \in Nat
                        /\ Width(p, v, k) \in Nat
      OBVIOUS
    <3>1. CASE k \notin Holes(p)
      BY <3>1 DEF Width
    <3>2. CASE k \in Holes(p)
      <4>1. p[k] = WorkId
        BY <1>9, <3>2 DEF Holes
      <4>2. Part(p, f, t, k) = t /\ Len(t) = 1
        BY <3>2, <4>1, PartIs DEF OneWord, n
      <4>3. w[k] = 1
        BY <3>2, <4>2 DEF w, Spelling
      <4>4. v[k] \in Nat /\ v[k] >= 1
        BY <1>4, <3>2
      <4> QED
        BY <3>2, <4>3, <4>4 DEF Width
    <3> QED
      BY <3>1, <3>2
  <2> DEFINE S == {m \in Nat : m \in i..n => vat(m + 1) > wat(m + 1)}
  <2>2. 0 \in S
    BY <1>1
  <2>3. ASSUME NEW m \in 0..(n - 1), m \in S PROVE m + 1 \in S
    <3>1. m + 1 \in 1..n /\ m + 1 \in Nat
      BY <1>1
    <3>2. ASSUME m + 1 \in i..n PROVE vat((m + 1) + 1) > wat((m + 1) + 1)
      <4>1. CASE m + 1 = i
        BY <1>8, <4>1
      <4>2. CASE m + 1 # i
        <5>1. i < m + 1 /\ m \in i..n
          BY <1>1, <3>1, <3>2, <4>2
        <5>2. vat(m + 1) > wat(m + 1) /\ vat(m + 1) \in Nat /\ wat(m + 1) \in Nat
          BY <1>5, <2>3, <3>1, <5>1
        <5>3. /\ vat((m + 1) + 1) = vat(m + 1) + Width(p, v, m + 1)
              /\ wat((m + 1) + 1) = wat(m + 1) + Width(p, w, m + 1)
          BY <1>5, <3>1
        <5>4. /\ Width(p, w, m + 1) <= Width(p, v, m + 1)
              /\ Width(p, w, m + 1) \in Nat /\ Width(p, v, m + 1) \in Nat
          BY <2>1, <3>1, <5>1
        <5> HIDE DEF vat, wat
        <5> QED
          BY <5>2, <5>3, <5>4
      <4> QED
        BY <4>1, <4>2
    <3> QED
      BY <3>1, <3>2
  <2>4. 0..n \subseteq S
    <3> HIDE DEF S
    <3> QED
      BY <1>1, <2>2, <2>3, Counting
  <2>5. n \in 0..n /\ n \in i..n
    BY <1>1
  <2>6. vat(n + 1) > wat(n + 1)
    BY <2>4, <2>5
  <2> QED
    BY <1>3, <1>4, <2>6
<1>10. CASE \E j \in Holes(p) : i < j /\ p[j] = FeatureId
  <2> DEFINE x == p[i + 1]
             T == {l \in 1..n : p[l] = x /\ vat(l) > wat(l)}
  <2>1. i + 1 \in 1..n /\ x \in Separators /\ ~Contains(f, x)
    <3>1. PICK j \in Holes(p) : i < j /\ p[j] = FeatureId
      BY <1>10
    <3>2. i + 1 \in 1..n
      BY <1>1, <3>1
    <3> QED
      BY <3>1, <3>2 DEF Separated, Apart, n
  <2>2. x \notin {FeatureId, WorkId}
    BY <2>1, WordsAssumption
  <2>3. i + 1 \in T
    BY <1>8, <2>1
  <2> HIDE DEF x
  <2>4. PICK l \in T : \A k \in T : k <= l
    <3>1. T \subseteq 0..n
      BY <1>1
    <3> HIDE DEF T
    <3> QED
      BY <1>1, <2>3, <3>1, Greatest
  <2>5. l \in 1..n /\ p[l] = x /\ vat(l) > wat(l) /\ l \notin Holes(p)
    BY <2>2, <2>4 DEF Holes
  <2>6. vat(l) \in 1..Len(b) /\ b[vat(l)] = x
    <3>1. vat(l) \in Nat /\ b[vat(l)] = x
      <4>1. v \in {v, w} /\ l \in 1..n \ Holes(p)
        BY <2>5
      <4>2. b[vat(l)] = p[l]
        BY <1>4, <4>1
      <4>3. vat(l) \in Nat
        BY <1>5, <2>5
      <4> QED
        BY <2>5, <4>2, <4>3
    <3>2. 1 <= vat(l)
      <4>1. vat(1) = 1
        BY <1>5
      <4>2. CASE l # 1
        <5>1. 1 \in 1..(n + 1) /\ l \in 1..(n + 1) /\ 1 < l
          BY <1>1, <2>5, <4>2
        <5>2. vat(1) < vat(l)
          BY <1>5, <5>1
        <5> QED
          BY <3>1, <4>1, <5>2
      <4> QED
        BY <4>1, <4>2
    <3>3. vat(l) < Len(b) + 1
      <4>1. l \in 1..(n + 1) /\ n + 1 \in 1..(n + 1) /\ l < n + 1
        BY <1>1, <2>5
      <4> QED
        BY <1>4, <1>5, <4>1
    <3> QED
      BY <1>3, <3>1, <3>2, <3>3
  <2>7. PICK k \in 1..n : p[k] = x /\ wat(k) = vat(l)
    <3>1. \A h \in Holes(p) : p[h] = WorkId => ~Contains(t, x)
      BY <2>1 DEF OneWord
    <3> HIDE DEF vat
    <3> QED
      BY <2>1, <2>6, <3>1, OnlyLiterals DEF b, w, n
  <2>8. l < k
    <3>1. k \in 1..(n + 1) /\ l \in 1..(n + 1)
      BY <1>1, <2>5
    <3>2. wat(k) \in Nat /\ wat(l) \in Nat /\ vat(l) \in Nat
      BY <1>5, <2>5
    <3>3. k < l => wat(k) < wat(l)
      BY <1>5, <3>1
    <3>4. k # l /\ ~(k < l)
      BY <2>5, <2>7, <3>2, <3>3
    <3> QED
      BY <2>5, <3>4
  <2>9. vat(k) > wat(k)
    <3>1. k \in 1..(n + 1) /\ l \in 1..(n + 1)
      BY <1>1, <2>5
    <3>2. vat(l) < vat(k) /\ vat(k) \in Nat /\ vat(l) \in Nat
      BY <1>5, <2>5, <2>8, <3>1
    <3> QED
      BY <2>7, <3>2
  <2>10. k \in T
    BY <2>7, <2>9
  <2> QED
    BY <1>1, <2>4, <2>5, <2>8, <2>10
<1> QED
  BY <1>9, <1>10

\* So the greedy match is the one that the name was put together by.
LEMMA Greedy ==
  ASSUME NEW p \in Seq(Words), NEW f \in Seq(Words), f # <<>>,
         NEW t \in Seq(Words), OneWord(p, t), Separated(p), Apart(p, f)
  PROVE  /\ Spelling(p, f, t) \in Matches(p, TaskBranch(p, f, t))
         /\ GreedyMatch(p, TaskBranch(p, f, t)) = Spelling(p, f, t)
<1> DEFINE b == TaskBranch(p, f, t)
           w == Spelling(p, f, t)
           M == Matches(p, b)
           More(x, v) == \E h \in Holes(p) :
                           x[h] > v[h] /\ \A k \in Holes(p) : k < h => x[k] = v[k]
           Best(x) == \A v \in M : v = x \/ More(x, v)
<1>1. w \in M
  <2>1. \A k \in 1..Len(p) : p[k] = WorkId => t # <<>> /\ ~Contains(t, "/")
    BY TaskWord
  <2> QED
    BY <2>1, NameMatches
<1>2. b \in Seq(Words) /\ Len(b) \in Nat
  <2>1. b \in Seq(Words)
    BY Spelled
  <2> QED
    BY <2>1
<1>3. \A v \in M : \A h \in Holes(p) :
        (\A k \in Holes(p) : k < h => v[k] = w[k]) => v[h] <= w[h]
  BY NoMore
<1>4. \A v \in M : v \in [Holes(p) -> 1..Len(b)]
  BY DEF Matches
<1>5. Holes(p) \in SUBSET Nat
  BY DEF Holes
<1>6. GreedyMatch(p, b) = CHOOSE x \in M : Best(x)
  BY DEF GreedyMatch
<1> HIDE DEF b, w, M
<1>7. \A v \in M : \A h \in Holes(p) : v[h] \in Nat
  BY <1>2, <1>4
<1>8. ASSUME NEW v \in M, v # w PROVE More(w, v)
  <2> DEFINE D == {h \in Holes(p) : v[h] # w[h]}
  <2>1. D # {}
    BY <1>1, <1>4, <1>8
  <2>2. PICK h \in D : \A k \in D : h <= k
    <3>1. D \in SUBSET Nat
      BY <1>5
    <3> HIDE DEF D
    <3> QED
      BY <2>1, <3>1, Least
  <2>3. \A k \in Holes(p) : k < h => v[k] = w[k]
    <3> SUFFICES ASSUME NEW k \in Holes(p), k < h, k \in D PROVE FALSE
      OBVIOUS
    <3> QED
      BY <1>5, <2>2
  <2>4. v[h] <= w[h] /\ v[h] # w[h] /\ v[h] \in Nat /\ w[h] \in Nat
    BY <1>1, <1>3, <1>7, <2>3
  <2>5. w[h] > v[h]
    BY <2>4
  <2> QED
    BY <2>3, <2>5
<1>9. Best(w)
  BY <1>8
<1>10. ASSUME NEW x \in M, Best(x) PROVE x = w
  <2> SUFFICES ASSUME x # w PROVE FALSE
    OBVIOUS
  <2>1. PICK h \in Holes(p) : x[h] > w[h] /\ \A k \in Holes(p) : k < h => x[k] = w[k]
    BY <1>1, <1>10
  <2>2. x[h] <= w[h] /\ x[h] \in Nat /\ w[h] \in Nat
    BY <1>1, <1>3, <1>7, <2>1
  <2> QED
    BY <2>1, <2>2
<1> HIDE DEF Best
<1>11. (CHOOSE x \in M : Best(x)) = w
  BY <1>1, <1>9, <1>10
<1> QED
  BY <1>1, <1>6, <1>11 DEF b, w, M

\* There is a greedy match when there is a match at all: for longer and longer
\* beginnings of the pattern, one that no other beats there.
LEMMA GreedyExists ==
  ASSUME NEW p \in Seq(Words), NEW b \in Seq(Words), Matches(p, b) # {}
  PROVE  GreedyMatch(p, b) \in Matches(p, b)
<1> DEFINE n == Len(p)
           H == Holes(p)
           M == Matches(p, b)
           More(x, v) == \E h \in H : x[h] > v[h] /\ \A j \in H : j < h => x[j] = v[j]
           Agree(x, v, k) == \A h \in H : h <= k => x[h] = v[h]
           Upto(x, k) == \A v \in M : Agree(x, v, k) \/ More(x, v)
           S == {k \in Nat : \E x \in M : Upto(x, k)}
           Best(x) == \A v \in M : v = x \/ More(x, v)
<1>1. n \in Nat /\ \A h \in H : h \in 1..n
  BY DEF Holes
<1>2. Len(b) \in Nat
  OBVIOUS
<1>3. \A v \in M : v \in [H -> 1..Len(b)]
  BY DEF Matches
<1>4. GreedyMatch(p, b) = CHOOSE x \in M : Best(x)
  BY DEF GreedyMatch
<1>5. M # {}
  OBVIOUS
<1> HIDE DEF n, H, M
<1>6. 0 \in S
  <2>1. PICK x \in M : TRUE
    BY <1>5
  <2>2. Upto(x, 0)
    BY <1>1
  <2> QED
    BY <2>2
<1>7. ASSUME NEW k \in 0..(n - 1), k \in S PROVE k + 1 \in S
  <2>1. PICK x \in M : Upto(x, k)
    BY <1>7
  <2>2. k \in Nat /\ k + 1 \in Nat /\ \A h \in H : h \in Nat /\ (h <= k + 1 => h <= k \/ h = k + 1)
    BY <1>1
  <2>3. CASE k + 1 \notin H
    <3>1. \A v \in M : Agree(x, v, k) => Agree(x, v, k + 1)
      BY <2>2, <2>3
    <3> HIDE DEF Agree, More
    <3>2. Upto(x, k + 1)
      BY <2>1, <3>1
    <3> QED
      BY <2>2, <3>2
  <2>4. CASE k + 1 \in H
    <3> DEFINE N == {v \in M : Agree(x, v, k)}
               T == {v[k + 1] : v \in N}
    <3>1. T \subseteq 0..Len(b) /\ T # {}
      <4>1. x \in N
        OBVIOUS
      <4>2. \A v \in N : v[k + 1] \in 0..Len(b)
        BY <1>2, <1>3, <2>4
      <4> HIDE DEF N
      <4> QED
        BY <4>1, <4>2
    <3>2. PICK m \in T : \A d \in T : d <= m
      <4> HIDE DEF T
      <4> QED
        BY <1>2, <3>1, Greatest
    <3>3. PICK y \in N : m = y[k + 1]
      OBVIOUS
    <3>4. y \in M /\ \A h \in H : h <= k => y[h] = x[h]
      BY <3>3
    <3>5. ASSUME NEW v \in M PROVE Agree(y, v, k + 1) \/ More(y, v)
      <4>1. CASE Agree(x, v, k)
        <5>1. v[k + 1] <= y[k + 1]
          <6>1. v[k + 1] \in T
            BY <4>1
          <6> QED
            BY <3>2, <3>3, <6>1
        <5>2. \A h \in H : h <= k => y[h] = v[h]
          BY <3>4, <4>1
        <5>3. CASE v[k + 1] = y[k + 1]
          <6>1. Agree(y, v, k + 1)
            BY <2>2, <5>2, <5>3
          <6> QED
            BY <6>1
        <5>4. CASE v[k + 1] # y[k + 1]
          <6>1. v[k + 1] \in Nat /\ y[k + 1] \in Nat
            BY <1>2, <1>3, <2>4, <3>4
          <6>2. y[k + 1] > v[k + 1]
            BY <5>1, <5>4, <6>1
          <6>3. \A h \in H : h < k + 1 => y[h] = v[h]
            BY <2>2, <5>2
          <6>4. More(y, v)
            BY <2>4, <6>2, <6>3
          <6> QED
            BY <6>4
        <5> QED
          BY <5>3, <5>4
      <4>2. CASE ~Agree(x, v, k)
        <5>1. More(x, v)
          <6> HIDE DEF Agree, More
          <6> QED
            BY <2>1, <4>2
        <5>2. PICK h \in H : x[h] > v[h] /\ \A j \in H : j < h => x[j] = v[j]
          BY <5>1
        <5>3. PICK d \in H : d <= k /\ x[d] # v[d]
          BY <4>2
        <5>4. ~(d < h)
          BY <5>2, <5>3
        <5>5. h <= k
          BY <2>2, <5>3, <5>4
        <5>6. y[h] > v[h]
          BY <3>4, <5>2, <5>5
        <5>7. \A j \in H : j < h => y[j] = v[j]
          BY <2>2, <3>4, <5>2, <5>5
        <5>8. More(y, v)
          BY <5>6, <5>7
        <5> QED
          BY <5>8
      <4> QED
        BY <4>1, <4>2
    <3> HIDE DEF Agree, More
    <3>6. Upto(y, k + 1)
      BY <3>5
    <3> QED
      BY <2>2, <3>4, <3>6
  <2> QED
    BY <2>3, <2>4
<1>8. PICK x \in M : Upto(x, n)
  <2> HIDE DEF S
  <2>1. 0..n \subseteq S
    BY <1>1, <1>6, <1>7, Counting
  <2>2. n \in S
    BY <1>1, <2>1
  <2> QED
    BY <2>2 DEF S
<1>9. Best(x)
  <2> SUFFICES ASSUME NEW v \in M, ~More(x, v) PROVE v = x
    OBVIOUS
  <2>1. Agree(x, v, n)
    <3> HIDE DEF Agree, More
    <3> QED
      BY <1>8
  <2>2. \A h \in H : x[h] = v[h]
    BY <1>1, <2>1
  <2>3. x \in [H -> 1..Len(b)] /\ v \in [H -> 1..Len(b)]
    BY <1>3
  <2> QED
    BY <2>2, <2>3
<1> HIDE DEF Best
<1>10. (CHOOSE y \in M : Best(y)) \in M
  BY <1>9
<1> QED
  BY <1>4, <1>10 DEF M

\* The greatest of some numbers.
LEMMA MaxIs ==
  ASSUME NEW K \in SUBSET Nat, NEW m \in K, \A k \in K : k <= m
  PROVE  Max(K) = m
<1> DEFINE Great(x) == \A y \in K : x >= y
<1>1. \A x \in K : Great(x) => x = m
  <2> SUFFICES ASSUME NEW x \in K, x >= m PROVE x = m
    OBVIOUS
  <2> QED
    OBVIOUS
<1>2. Great(m)
  OBVIOUS
<1>3. Max(K) = CHOOSE x \in K : Great(x)
  BY DEF Max
<1> HIDE DEF Great
<1> QED
  BY <1>1, <1>2, <1>3

LEMMA MaxAmong ==
  ASSUME NEW n \in Nat, NEW K \in SUBSET (0..n), K # {}
  PROVE  Max(K) \in K /\ \A k \in K : k <= Max(K)
<1>1. PICK m \in K : \A k \in K : k <= m
  BY Greatest
<1>2. K \in SUBSET Nat
  OBVIOUS
<1>3. Max(K) = m
  BY <1>1, <1>2, MaxIs
<1> QED
  BY <1>1, <1>3

\* The value of a placeholder that the pattern has.
LEMMA Values ==
  ASSUME NEW p \in Seq(Words), NEW f \in Seq(Words), NEW t \in Seq(Words),
         GreedyMatch(p, TaskBranch(p, f, t)) = Spelling(p, f, t),
         NEW k \in Holes(p)
  PROVE  LET b == TaskBranch(p, f, t)
         IN  /\ p[k] = FeatureId /\ f # <<>> => Value(p, b, FeatureId) = f
             /\ p[k] = WorkId /\ t # <<>> => Value(p, b, WorkId) = t
<1> DEFINE b == TaskBranch(p, f, t)
           w == Spelling(p, f, t)
           named(name) == IF name = FeatureId THEN f ELSE t
           at(name) == {h \in Holes(p) : p[h] = name}
<1>1. \A h \in 1..Len(p) : p[h] \in {FeatureId, WorkId} => Part(p, f, t, h) = named(p[h])
  <2>1. FeatureId # WorkId
    BY DEF FeatureId, WorkId
  <2> QED
    BY <2>1, PartIs
<1>2. Holes(p) \in SUBSET (0..Len(p)) /\ Len(p) \in Nat
      /\ \A h \in Holes(p) : h \in 1..Len(p) /\ p[h] \in {FeatureId, WorkId}
  BY DEF Holes
<1>3. \A h \in Holes(p) : named(p[h]) # <<>> => Capture(p, b, w, h) = named(p[h])
  <2> SUFFICES ASSUME NEW h \in Holes(p), named(p[h]) # <<>>
               PROVE  Capture(p, b, w, h) = named(p[h])
    OBVIOUS
  <2>1. h \in 1..Len(p) /\ Part(p, f, t, h) = named(p[h])
    BY <1>1, <1>2
  <2> HIDE DEF named
  <2> QED
    BY <2>1, Captured
<1> HIDE DEF b, w, named
<1>4. ASSUME NEW name, p[k] = name, named(name) # <<>>
      PROVE  Value(p, b, name) = named(name)
  <2> DEFINE K == at(name)
             m == Max(K)
  <2>1. K \in SUBSET (0..Len(p)) /\ k \in K
    BY <1>2, <1>4
  <2>2. m \in K
    <3> HIDE DEF K
    <3> QED
      BY <1>2, <2>1, MaxAmong
  <2>3. m \in Holes(p) /\ p[m] = name
    BY <2>2
  <2>4. Value(p, b, name) = Capture(p, b, w, m)
    BY <2>1 DEF Value, b, w
  <2> HIDE DEF m
  <2> QED
    BY <1>3, <1>4, <2>3, <2>4
<1>5. p[k] = FeatureId /\ f # <<>> => Value(p, b, FeatureId) = f
  BY <1>4 DEF named
<1>6. p[k] = WorkId /\ t # <<>> => Value(p, b, WorkId) = t
  <2>1. FeatureId # WorkId
    BY DEF FeatureId, WorkId
  <2> QED
    BY <1>4, <2>1 DEF named
<1> QED
  BY <1>5, <1>6 DEF b

\* A task's branch is parsed into the feature and the task it is named for.
LEMMA ParsesTask ==
  ASSUME NEW p \in Seq(Words), Separated(p),
         NEW i \in Holes(p), p[i] = FeatureId, NEW j \in Holes(p), p[j] = WorkId,
         NEW f \in Seq(Words), f # <<>>, ~IsSuffix(InitSuffix, f), Apart(p, f),
         NEW id \in WorkIds
  PROVE  ParseTask(p, TaskBranch(p, f, <<id>>))
           = [kind |-> "task", feature |-> f, task |-> <<id>>]
<1> DEFINE t == <<id>>
           b == TaskBranch(p, f, t)
<1>1. id \in Words /\ id # "/" /\ id \notin Separators
  BY WordsAssumption
<1>2. t \in Seq(Words) /\ t # <<>> /\ Len(t) = 1 /\ t[1] = id
  BY <1>1
<1>3. t \in {<<x>> : x \in WorkIds}
  OBVIOUS
<1> HIDE DEF t
<1>4. OneWord(p, t)
  BY <1>1, <1>2 DEF OneWord, Contains
<1>5. Spelling(p, f, t) \in Matches(p, b) /\ GreedyMatch(p, b) = Spelling(p, f, t)
  BY <1>2, <1>4, Greedy
<1>6. Value(p, b, FeatureId) = f
  BY <1>2, <1>5, Values
<1>7. Value(p, b, WorkId) = t
  BY <1>2, <1>5, Values
<1>8. Holes(p) # {} /\ Matches(p, b) # {}
  BY <1>5
<1> HIDE DEF b
<1>9. NormalizeFeatureID(f) = f
  BY DEF NormalizeFeatureID
<1>10. ParseTask(p, b) = [kind |-> "task", feature |-> f, task |-> t]
  BY <1>3, <1>6, <1>7, <1>8, <1>9 DEF ParseTask
<1> QED
  BY <1>10 DEF b, t

\* A branch that a feature's pattern names is parsed into that feature.
LEMMA ParsesFeature ==
  ASSUME NEW q \in Seq(Words), Separated(q),
         NEW i \in Holes(q), \A h \in Holes(q) : q[h] = FeatureId,
         NEW g \in Seq(Words), g # <<>>, NormalizeFeatureID(g) # <<>>, Apart(q, g)
  PROVE  ParseFeature(q, TaskBranch(q, g, <<>>))
           = [kind |-> "feature", feature |-> NormalizeFeatureID(g)]
<1> DEFINE t == <<>>
           b == TaskBranch(q, g, t)
<1>1. t \in Seq(Words)
  OBVIOUS
<1> HIDE DEF t
<1>2. \A h \in Holes(q) : q[h] # WorkId
  BY DEF FeatureId, WorkId
<1>3. OneWord(q, t)
  BY <1>2 DEF OneWord
<1>4. Spelling(q, g, t) \in Matches(q, b) /\ GreedyMatch(q, b) = Spelling(q, g, t)
  BY <1>1, <1>3, Greedy
<1>5. Value(q, b, FeatureId) = g
  BY <1>1, <1>4, Values
<1>6. Holes(q) # {} /\ Matches(q, b) # {}
  BY <1>4
<1> HIDE DEF b
<1>7. ParseFeature(q, b) = [kind |-> "feature", feature |-> NormalizeFeatureID(g)]
  BY <1>5, <1>6 DEF ParseFeature
<1> QED
  BY <1>7 DEF b, t

----------------------------------------------------------------------------
\* Which feature branches read as a task's.

\* A match gives each element a word, and a name whose groups have one word has
\* as many as the pattern.
LEMMA StartsAtLeast ==
  ASSUME NEW p \in Seq(Words), NEW w \in [Holes(p) -> Nat], \A h \in Holes(p) : w[h] >= 1
  PROVE  Start(p, w, Len(p) + 1) >= Len(p) + 1
<1> DEFINE n == Len(p)
           at(k) == Start(p, w, k)
           S == {k \in Nat : at(k + 1) \in Nat /\ at(k + 1) >= k + 1}
<1>1. n \in Nat
  OBVIOUS
<1>2. at(1) = 1
      /\ \A k \in 1..n : /\ at(k) \in Nat /\ Width(p, w, k) \in Nat
                         /\ at(k + 1) = at(k) + Width(p, w, k)
  BY StartsFollow
<1>3. \A k \in 1..n : Width(p, w, k) >= 1
  BY DEF Width
<1> HIDE DEF at, n
<1>4. 0 \in S
  BY <1>2
<1>5. ASSUME NEW k \in 0..(n - 1), k \in S PROVE k + 1 \in S
  <2>1. k + 1 \in 1..n /\ k + 1 \in Nat
    BY <1>1
  <2>2. at((k + 1) + 1) = at(k + 1) + Width(p, w, k + 1)
        /\ Width(p, w, k + 1) \in Nat /\ Width(p, w, k + 1) >= 1
    BY <1>2, <1>3, <2>1
  <2>3. at(k + 1) \in Nat /\ at(k + 1) >= k + 1
    BY <1>5
  <2> QED
    BY <2>1, <2>2, <2>3
<1> HIDE DEF S
<1>6. 0..n \subseteq S
  BY <1>1, <1>4, <1>5, Counting
<1>7. n \in S
  BY <1>1, <1>6
<1> QED
  BY <1>7 DEF S, at, n

LEMMA StartsOfWords ==
  ASSUME NEW p \in Seq(Words), NEW w \in [Holes(p) -> Nat], \A h \in Holes(p) : w[h] = 1
  PROVE  Start(p, w, Len(p) + 1) = Len(p) + 1
<1> DEFINE n == Len(p)
           at(k) == Start(p, w, k)
           S == {k \in Nat : at(k + 1) = k + 1}
<1>1. n \in Nat
  OBVIOUS
<1>2. at(1) = 1 /\ \A k \in 1..n : at(k + 1) = at(k) + Width(p, w, k)
  BY StartsFollow
<1>3. \A k \in 1..n : Width(p, w, k) = 1
  BY DEF Width
<1> HIDE DEF at, n
<1>4. 0 \in S
  BY <1>2
<1>5. ASSUME NEW k \in 0..(n - 1), k \in S PROVE k + 1 \in S
  <2>1. k + 1 \in 1..n /\ k + 1 \in Nat
    BY <1>1
  <2>2. at((k + 1) + 1) = at(k + 1) + 1 /\ at(k + 1) = k + 1
    BY <1>2, <1>3, <1>5, <2>1
  <2> QED
    BY <2>1, <2>2
<1> HIDE DEF S
<1>6. 0..n \subseteq S
  BY <1>1, <1>4, <1>5, Counting
<1>7. n \in S
  BY <1>1, <1>6
<1> QED
  BY <1>7 DEF S, at, n

\* What is parsed into a task with a pattern that ends in the task: it ends in
\* that task, behind the separator that the pattern has in front of one.
LEMMA EndsInTask ==
  ASSUME NEW p \in Seq(Words), Len(p) >= 2, p[Len(p)] = WorkId,
         p[Len(p) - 1] \in Separators,
         NEW b \in Seq(Words), ParseTask(p, b) # Ignored
  PROVE  /\ Len(b) >= Len(p)
         /\ b[Len(b)] \in WorkIds /\ b[Len(b) - 1] = p[Len(p) - 1]
<1> DEFINE n == Len(p)
           v == GreedyMatch(p, b)
           m == Len(b)
<1>1. n \in Nat /\ m \in Nat
  OBVIOUS
<1>2. Matches(p, b) # {} /\ Value(p, b, WorkId) \in {<<y>> : y \in WorkIds}
  BY Zenon DEF ParseTask
<1>3. v \in Matches(p, b)
  BY <1>2, GreedyExists
<1>4. /\ v \in [Holes(p) -> 1..m]
      /\ Start(p, v, n + 1) = m + 1
      /\ \A k \in 1..n \ Holes(p) : b[Start(p, v, k)] = p[k]
  BY <1>3 DEF Matches
<1>5. n \in Holes(p) /\ n - 1 \in 1..n \ Holes(p) /\ n \in 1..n
  <2>1. p[n - 1] \notin {FeatureId, WorkId}
    BY WordsAssumption
  <2> QED
    BY <1>1, <2>1 DEF Holes
<1>6. Value(p, b, WorkId) = Capture(p, b, v, n)
  <2> DEFINE K == {h \in Holes(p) : p[h] = WorkId}
  <2>1. K \in SUBSET Nat /\ n \in K /\ \A k \in K : k <= n
    BY <1>1, <1>5 DEF Holes
  <2> HIDE DEF K
  <2>2. Max(K) = n
    BY <2>1, MaxIs
  <2> QED
    BY <2>1, <2>2 DEF Value, K
<1>7. PICK id \in WorkIds : Capture(p, b, v, n) = <<id>>
  BY <1>2, <1>6
<1> HIDE DEF v
<1>8. v \in [Holes(p) -> Nat] /\ \A h \in Holes(p) : v[h] >= 1
  BY <1>1, <1>4
<1>9. m >= n
  <2>1. Start(p, v, n + 1) >= n + 1
    BY <1>8, StartsAtLeast
  <2> QED
    BY <1>1, <1>4, <2>1
<1> DEFINE from == Start(p, v, n)
<1>10. /\ from \in Nat /\ m + 1 = from + v[n] /\ v[n] \in Nat /\ v[n] >= 1
       /\ from = Start(p, v, n - 1) + 1
  <2>1. \A k \in 1..n : /\ Start(p, v, k) \in Nat
                        /\ Start(p, v, k + 1) = Start(p, v, k) + Width(p, v, k)
    BY <1>8, StartsFollow
  <2>2. Width(p, v, n) = v[n] /\ Width(p, v, n - 1) = 1
    BY <1>5 DEF Width
  <2>3. Start(p, v, (n - 1) + 1) = Start(p, v, n - 1) + Width(p, v, n - 1)
    BY <1>5, <2>1
  <2>4. (n - 1) + 1 = n
    BY <1>1
  <2> QED
    BY <1>4, <1>5, <1>8, <2>1, <2>2, <2>3, <2>4
<1>11. from >= 1
  <2>1. Start(p, v, n - 1) \in Nat
    BY <1>5, <1>8, StartsFollow
  <2> QED
    BY <1>10, <2>1
<1> HIDE DEF m, n
<1>12. SubSeq(b, from, m) = <<id>>
  <2>1. (m + 1) - 1 = m
    BY <1>1
  <2> QED
    BY <1>4, <1>7, <2>1 DEF Capture
<1>13. Start(p, v, n - 1) = from - 1
  <2>1. Start(p, v, n - 1) \in Nat
    BY <1>5, <1>8, StartsFollow DEF n
  <2> QED
    BY <1>10, <2>1
<1> HIDE DEF from
<1>14. v[n] = 1 /\ b[from] = id
  <2> DEFINE y == v[n]
  <2>1. y \in Nat /\ y >= 1 /\ from \in Nat /\ m \in Nat /\ m + 1 = from + y
    BY <1>1, <1>10
  <2> HIDE DEF y
  <2>2. from <= m /\ m - from + 1 = y /\ from + 1 - 1 = from /\ from \in Int /\ m \in Int
    BY <2>1
  <2>3. \A k \in from..m : b[k] \in Words
    <3>1. \A k \in from..m : k \in 1..m
      BY <1>11, <2>1
    <3> QED
      BY <3>1, ElementOfSeq DEF m
  <2>4. /\ Len(SubSeq(b, from, m)) = y
        /\ \A r \in 1..y : SubSeq(b, from, m)[r] = b[from + r - 1]
    BY <2>2, <2>3, SubSeqProperties
  <2>5. y = 1
    BY <1>12, <2>4
  <2>6. b[from + 1 - 1] = <<id>>[1]
    BY <1>12, <2>4, <2>5
  <2> QED
    BY <2>2, <2>5, <2>6 DEF y
<1>15. from = m
  BY <1>1, <1>10, <1>14
<1>16. b[m - 1] = p[n - 1]
  BY <1>4, <1>5, <1>13, <1>15
<1> QED
  BY <1>9, <1>14, <1>15, <1>16 DEF m, n

\* A name with a last word but one, x, and a last word, y.
LEMMA EndsInTwo ==
  ASSUME NEW s \in Seq(Words), Len(s) >= 2,
         NEW x, NEW y, s[Len(s) - 1] = x, s[Len(s)] = y
  PROVE  IsSuffix(<<x, y>>, s)
<1> DEFINE n == Len(s)
           e == <<x, y>>
           r == Reverse(s)
           q == Reverse(e)
<1>1. n \in Nat /\ \A k \in 1..n : s[k] \in Words
  BY ElementOfSeq
<1>2. n - 1 \in 1..n /\ n \in 1..n
  BY <1>1
<1>3. x \in Words /\ y \in Words
  BY <1>1, <1>2
<1>4. e \in Seq(Words) /\ Len(e) = 2 /\ e[1] = x /\ e[2] = y
  BY <1>3
<1> HIDE DEF e
<1>5. q = [k \in 1..2 |-> e[(2 - k) + 1]] /\ r = [k \in 1..n |-> s[(n - k) + 1]]
  BY <1>4 DEF Reverse
<1>6. q[1] = y /\ q[2] = x
  BY <1>4, <1>5
<1>7. r[1] = y /\ r[2] = x
  <2>1. 1 \in 1..n /\ 2 \in 1..n /\ (n - 1) + 1 = n /\ (n - 2) + 1 = n - 1
    BY <1>1
  <2> QED
    BY <1>5, <2>1
<1>8. Len(q) = 2 /\ Len(r) = n
  BY <1>1, <1>5
<1> HIDE DEF q, r, n
<1>9. SubSeq(q, 1, 2) = SubSeq(r, 1, 2)
  <2>1. \A k \in 1..2 : q[k] \in Words /\ r[k] \in Words /\ q[k] = r[k]
    BY <1>3, <1>6, <1>7
  <2>2. /\ SubSeq(q, 1, 2) \in Seq(Words) /\ Len(SubSeq(q, 1, 2)) = 2
        /\ \A k \in 1..2 : SubSeq(q, 1, 2)[k] = q[1 + k - 1]
    <3>1. 2 - 1 + 1 = 2 /\ 1 \in Int /\ 2 \in Int
      OBVIOUS
    <3> QED
      BY <2>1, <3>1, SubSeqProperties
  <2>3. /\ SubSeq(r, 1, 2) \in Seq(Words) /\ Len(SubSeq(r, 1, 2)) = 2
        /\ \A k \in 1..2 : SubSeq(r, 1, 2)[k] = r[1 + k - 1]
    <3>1. 2 - 1 + 1 = 2 /\ 1 \in Int /\ 2 \in Int
      OBVIOUS
    <3> QED
      BY <2>1, <3>1, SubSeqProperties
  <2>4. \A k \in 1..2 : SubSeq(q, 1, 2)[k] = SubSeq(r, 1, 2)[k]
    BY <2>1, <2>2, <2>3
  <2> QED
    BY <2>2, <2>3, <2>4, SeqEqual
<1>10. IsPrefix(q, r)
  BY <1>8, <1>9 DEF IsPrefix, n
<1> QED
  BY <1>10 DEF IsSuffix, q, r, e

\* The suffix of an init branch is cut off.
LEMMA NormalizesInit ==
  ASSUME NEW f \in Seq(Words)
  PROVE  LET g == f \o InitSuffix
         IN  /\ g \in Seq(Words) /\ g # <<>>
             /\ Len(g) = Len(f) + 2 /\ g[Len(g)] = "init"
             /\ NormalizeFeatureID(g) = f
<1> DEFINE g == f \o InitSuffix
           e == InitSuffix
           n == Len(f)
<1>1. e \in Seq(Words) /\ Len(e) = 2 /\ e[1] = "-" /\ e[2] = "init"
  <2>1. "-" \in Words /\ "init" \in Words
    BY WordsAssumption
  <2>2. <<"-", "init">> \in Seq(Words)
    BY <2>1
  <2> QED
    BY <2>2 DEF InitSuffix
<1>2. n \in Nat /\ \A k \in 1..n : f[k] \in Words
  BY ElementOfSeq
<1> HIDE DEF e
<1>3. /\ f \o e \in Seq(Words) /\ Len(f \o e) = n + 2
      /\ \A k \in 1..(n + 2) : (f \o e)[k] = IF k <= n THEN f[k] ELSE e[k - n]
  <2>1. e \in Seq(Words) /\ Len(e) = 2
    BY <1>1
  <2>2. /\ f \o e \in Seq(Words) /\ Len(f \o e) = Len(f) + Len(e)
        /\ \A k \in 1..(Len(f) + Len(e)) :
             (f \o e)[k] = IF k <= Len(f) THEN f[k] ELSE e[k - Len(f)]
    BY <2>1, Concatenated
  <2> QED
    BY <2>1, <2>2
<1>4. /\ g \in Seq(Words) /\ Len(g) = n + 2
      /\ \A k \in 1..n : g[k] = f[k]
      /\ g[n + 1] = "-" /\ g[n + 2] = "init"
  <2>1. n + 1 \in 1..(n + 2) /\ n + 2 \in 1..(n + 2) /\ (n + 1) - n = 1 /\ (n + 2) - n = 2
        /\ ~(n + 1 <= n) /\ ~(n + 2 <= n)
    BY <1>2
  <2>2. \A k \in 1..n : k \in 1..(n + 2) /\ k <= n
    BY <1>2
  <2>3. f \o e = g
    BY DEF e
  <2> HIDE DEF g
  <2> QED
    BY <1>1, <1>3, <2>1, <2>2, <2>3
<1> HIDE DEF g
<1>5. IsSuffix(InitSuffix, g)
  <2>1. Len(g) - 1 = n + 1 /\ Len(g) >= 2
    BY <1>2, <1>4
  <2> QED
    BY <1>4, <2>1, EndsInTwo DEF InitSuffix
<1>6. SubSeq(g, 1, Len(g) - 2) = f
  <2>1. Len(g) - 2 = n /\ n - 1 + 1 = n /\ (IF 1 <= n THEN n - 1 + 1 ELSE 0) = n
    BY <1>2, <1>4
  <2>2. \A k \in 1..n : g[k] \in Words
    BY <1>2, <1>4
  <2>3. /\ SubSeq(g, 1, n) \in Seq(Words) /\ Len(SubSeq(g, 1, n)) = n
        /\ \A k \in 1..n : SubSeq(g, 1, n)[k] = g[1 + k - 1]
    BY <1>2, <2>1, <2>2, SubSeqProperties
  <2>4. \A k \in 1..n : SubSeq(g, 1, n)[k] = f[k]
    BY <1>2, <1>4, <2>3
  <2>5. SubSeq(g, 1, n) = f
    BY <2>3, <2>4, SeqEqual
  <2> QED
    BY <2>1, <2>5
<1>7. NormalizeFeatureID(g) = f
  BY <1>5, <1>6 DEF NormalizeFeatureID
<1> QED
  BY <1>2, <1>4, <1>7, EmptySeq DEF g

\* A feature's branch reads as a task's only if the feature's name does.
LEMMA NoTaskInName ==
  ASSUME NEW p \in Seq(Words), Len(p) >= 2, p[Len(p)] = WorkId,
         p[Len(p) - 1] \in Separators,
         NEW q \in Seq(Words), Len(q) >= 1, Len(q) < Len(p),
         \A h \in Holes(q) : q[h] = FeatureId,
         q[Len(q)] = FeatureId \/ q[Len(q)] \notin WorkIds,
         NEW g \in Seq(Words), g # <<>>,
         \A id \in WorkIds : g[Len(g)] = id => ~IsSuffix(<<p[Len(p) - 1], id>>, g)
  PROVE  ParseTask(p, TaskBranch(q, g, <<>>)) = Ignored
<1> DEFINE t == <<>>
           b == TaskBranch(q, g, t)
           w == Spelling(q, g, t)
           x == p[Len(p) - 1]
           m == Len(q)
           at == Start(q, w, m)
<1> SUFFICES ASSUME ParseTask(p, b) # Ignored PROVE FALSE
  OBVIOUS
<1>1. t \in Seq(Words)
  OBVIOUS
<1> HIDE DEF t
<1>2. /\ b \in Seq(Words) /\ Start(q, w, m + 1) = Len(b) + 1
      /\ \A r \in 1..Len(Part(q, g, t, m)) : b[at + r - 1] = Part(q, g, t, m)[r]
  <2>1. /\ b \in Seq(Words) /\ Start(q, w, Len(q) + 1) = Len(b) + 1
        /\ \A k \in 1..Len(q) : \A r \in 1..Len(Part(q, g, t, k)) :
             b[Start(q, w, k) + r - 1] = Part(q, g, t, k)[r]
    BY <1>1, Spelled
  <2>2. m \in 1..Len(q) /\ m = Len(q)
    OBVIOUS
  <2> HIDE DEF b, w, m
  <2> QED
    BY <2>1, <2>2
<1>3. /\ Len(b) >= Len(p) /\ b[Len(b)] \in WorkIds /\ b[Len(b) - 1] = x
  <2>1. b \in Seq(Words)
    BY <1>2
  <2> HIDE DEF b
  <2> QED
    BY <2>1, EndsInTask
<1>4. /\ m \in Nat /\ m \in 1..m /\ Len(p) \in Nat /\ Len(g) \in Nat /\ Len(g) >= 1
      /\ m < Len(p)
  <2>1. Len(g) \in Nat \ {0}
    BY EmptySeq
  <2> QED
    BY <2>1
<1>5. w \in [Holes(q) -> Nat] /\ Width(q, w, m) = Len(Part(q, g, t, m))
  BY <1>1, <1>4, SpellingType
<1>6. at \in Nat /\ Start(q, w, m + 1) = at + Width(q, w, m)
  <2> HIDE DEF w
  <2> QED
    BY <1>4, <1>5, StartsFollow
<1>7. Len(b) \in Nat /\ Len(b) + 1 = at + Len(Part(q, g, t, m))
  BY <1>2, <1>5, <1>6
<1>8. \A k \in 1..Len(q) :
            /\ q[k] = FeatureId => Part(q, g, t, k) = g
            /\ q[k] \notin {FeatureId, WorkId} => Part(q, g, t, k) = <<q[k]>>
  BY <1>1, PartIs
<1>9. CASE q[m] # FeatureId
  <2>1. q[m] \notin {FeatureId, WorkId}
    <3>1. FeatureId # WorkId
      BY DEF FeatureId, WorkId
    <3> QED
      BY <1>4, <1>9, <3>1 DEF Holes
  <2>2. Part(q, g, t, m) = <<q[m]>>
    BY <1>4, <1>8, <2>1
  <2>3. Len(Part(q, g, t, m)) = 1 /\ Part(q, g, t, m)[1] = q[m]
    BY <2>2
  <2> HIDE DEF b, w, at
  <2>4. b[at + 1 - 1] = q[m] /\ at = Len(b)
    BY <1>2, <1>6, <1>7, <2>3
  <2>5. b[Len(b)] = q[m]
    BY <1>6, <2>4
  <2> QED
    BY <1>3, <1>9, <2>5
<1>10. CASE q[m] = FeatureId
  <2>1. Part(q, g, t, m) = g
    BY <1>4, <1>10, <1>8
  <2>2. b[at + Len(g) - 1] = g[Len(g)] /\ at + Len(g) - 1 = Len(b)
    BY <1>2, <1>4, <1>6, <1>7, <2>1
  <2>3. g[Len(g)] \in WorkIds
    BY <1>3, <2>2
  <2>4. CASE Len(g) >= 2
    <3>1. Len(g) - 1 \in 1..Len(g) /\ at + (Len(g) - 1) - 1 = Len(b) - 1
      <4> DEFINE c == Len(g)
                 d == Len(b)
      <4>1. c \in Nat /\ c >= 2 /\ at \in Nat /\ at + c - 1 = d
        BY <1>4, <1>6, <2>2, <2>4
      <4> HIDE DEF at, c, d
      <4>2. c - 1 \in 1..c /\ at + (c - 1) - 1 = d - 1
        BY <4>1
      <4> QED
        BY <4>2 DEF c, d
    <3>2. b[at + (Len(g) - 1) - 1] = g[Len(g) - 1]
      BY <1>2, <2>1, <3>1
    <3>3. g[Len(g) - 1] = x
      BY <1>3, <3>1, <3>2
    <3> HIDE DEF x
    <3>4. IsSuffix(<<x, g[Len(g)]>>, g)
      BY <2>4, <3>3, EndsInTwo
    <3> QED
      BY <2>3, <3>4 DEF x
  <2>5. CASE Len(g) = 1
    <3>1. \A h \in Holes(q) : w[h] = 1
      <4>1. \A h \in Holes(q) : h \in 1..Len(q) /\ q[h] = FeatureId
        BY DEF Holes
      <4>2. \A h \in Holes(q) : Part(q, g, t, h) = g
        BY <1>8, <4>1
      <4> QED
        BY <2>5, <4>2 DEF Spelling
    <3> HIDE DEF w
    <3>2. Start(q, w, m + 1) = m + 1
      BY <1>5, <3>1, StartsOfWords
    <3>3. Len(b) + 1 = m + 1
      BY <1>2, <3>2
    <3> QED
      BY <1>3, <1>4, <1>7, <3>3
  <2>6. Len(g) >= 2 \/ Len(g) = 1
    <3> DEFINE c == Len(g)
    <3>1. c \in Nat /\ c >= 1
      BY <1>4
    <3> HIDE DEF c
    <3>2. c >= 2 \/ c = 1
      BY <3>1
    <3> QED
      BY <3>2 DEF c
  <2> QED
    BY <2>4, <2>5, <2>6
<1> QED
  BY <1>9, <1>10

----------------------------------------------------------------------------
\* The feature's part of a pattern.

LEMMA BeginningIs ==
  ASSUME NEW s \in Seq(Words), NEW m \in 0..Len(s)
  PROVE  /\ SubSeq(s, 1, m) \in Seq(Words) /\ Len(SubSeq(s, 1, m)) = m
         /\ \A k \in 1..m : SubSeq(s, 1, m)[k] = s[k]
         /\ \A l \in 0..m : SubSeq(SubSeq(s, 1, m), 1, l) = SubSeq(s, 1, l)
<1> DEFINE c(l) == SubSeq(s, 1, l)
<1>1. m \in Nat /\ Len(s) \in Nat
  OBVIOUS
<1>2. ASSUME NEW r \in Seq(Words), NEW l \in 0..Len(r)
      PROVE  /\ SubSeq(r, 1, l) \in Seq(Words) /\ Len(SubSeq(r, 1, l)) = l
             /\ \A k \in 1..l : SubSeq(r, 1, l)[k] = r[k]
  <2>1. Len(r) \in Nat /\ l \in Nat
    OBVIOUS
  <2>2. \A k \in 1..l : r[k] \in Words
    <3>1. \A k \in 1..l : k \in 1..Len(r)
      BY <2>1
    <3> QED
      BY <3>1, ElementOfSeq
  <2>3. l - 1 + 1 = l /\ (IF 1 <= l THEN l - 1 + 1 ELSE 0) = l
    BY <2>1
  <2>4. /\ SubSeq(r, 1, l) \in Seq(Words) /\ Len(SubSeq(r, 1, l)) = l
        /\ \A k \in 1..l : SubSeq(r, 1, l)[k] = r[1 + k - 1]
    BY <2>1, <2>2, <2>3, SubSeqProperties
  <2>5. \A k \in 1..l : 1 + k - 1 = k
    BY <2>1
  <2> QED
    BY <2>4, <2>5
<1>3. c(m) \in Seq(Words) /\ Len(c(m)) = m /\ \A k \in 1..m : c(m)[k] = s[k]
  BY <1>2
<1>4. ASSUME NEW l \in 0..m PROVE SubSeq(c(m), 1, l) = c(l)
  <2>1. l \in 0..Len(s) /\ l \in 0..Len(c(m)) /\ \A k \in 1..l : k \in 1..m
    BY <1>1, <1>3
  <2>2. c(l) \in Seq(Words) /\ Len(c(l)) = l /\ \A k \in 1..l : c(l)[k] = s[k]
    BY <1>2, <2>1
  <2> DEFINE d == c(m)
  <2>3. d \in Seq(Words) /\ \A k \in 1..m : d[k] = s[k]
    BY <1>3
  <2>4. l \in 0..Len(d)
    BY <2>1
  <2> HIDE DEF c, d
  <2>5. /\ SubSeq(d, 1, l) \in Seq(Words) /\ Len(SubSeq(d, 1, l)) = l
        /\ \A k \in 1..l : SubSeq(d, 1, l)[k] = d[k]
    BY <1>2, <2>3, <2>4
  <2>6. SubSeq(d, 1, l) = c(l)
    BY <2>1, <2>2, <2>3, <2>5, SeqEqual
  <2> QED
    BY <2>6 DEF d
<1> QED
  BY <1>3, <1>4

\* It is the beginning of the pattern up to some element, with the feature in it
\* and no task.
LEMMA FeaturePatternIs ==
  ASSUME NEW p \in Seq(Words), FeaturePattern(p) # <<>>
  PROVE  \E m \in 1..(Len(p) - 1) :
           /\ FeaturePattern(p) = SubSeq(p, 1, m)
           /\ \A k \in 1..m : p[k] # WorkId
           /\ \E k \in 1..m : p[k] = FeatureId
<1> DEFINE n == Len(p)
           I == {k \in 1..n : p[k] = WorkId}
           first == SelectInSeq(p, LAMBDA x : x = WorkId)
           c(l) == SubSeq(p, 1, l)
           prefix == Trimmed(Before(p, first))
           slash == SelectLastInSeq(prefix, LAMBDA x : x = "/")
           tail == SubSeq(prefix, slash + 1, Len(prefix))
           feature == IF slash > 0 /\ ~Contains(tail, FeatureId)
                      THEN Before(prefix, slash) ELSE prefix
<1>1. n \in Nat
  OBVIOUS
<1>2. Contains(p, WorkId) /\ Contains(feature, FeatureId) /\ FeaturePattern(p) = feature
  BY Zenon DEF FeaturePattern
<1>3. I # {} /\ I \in SUBSET Nat
  BY <1>1, <1>2 DEF Contains
<1>4. first = Min(I)
  BY <1>3 DEF SelectInSeq
<1>5. first \in 1..n /\ \A k \in 1..n : k < first => p[k] # WorkId
  <2> HIDE DEF I, first
  <2>1. PICK d \in I : \A e \in I : d <= e
    BY <1>3, Least
  <2>2. Min(I) \in I /\ \A e \in I : Min(I) <= e
    BY <2>1 DEF Min
  <2>3. first \in I /\ \A e \in I : first <= e
    BY <1>4, <2>2
  <2>4. \A k \in 1..n : k < first => k \notin I
    BY <1>3, <2>3
  <2> QED
    BY <2>3, <2>4 DEF I
<1> HIDE DEF I, first, n
<1>6. ASSUME NEW l \in 0..n
      PROVE  /\ c(l) \in Seq(Words) /\ Len(c(l)) = l /\ \A k \in 1..l : c(l)[k] = p[k]
             /\ \A k \in 0..l : SubSeq(c(l), 1, k) = c(k)
  BY BeginningIs DEF n
<1> HIDE DEF c
<1>7. ASSUME NEW l \in 0..n, NEW k \in 1..(l + 1)
      PROVE  k - 1 \in 0..l /\ Before(c(l), k) = c(k - 1)
  BY <1>1, <1>6 DEF Before
<1>8. PICK l \in 0..(first - 1) : prefix = c(l)
  <2> DEFINE e == first - 1
             K == {0} \cup {k \in 1..Len(c(e)) : c(e)[k] \notin Separators}
  <2>1. e \in 0..n /\ e \in Nat
    BY <1>1, <1>5
  <2>2. Before(p, first) = c(e)
    BY DEF Before, c
  <2>3. Len(c(e)) = e
    BY <1>6, <2>1
  <2>4. K \in SUBSET (0..e) /\ K # {}
    BY <2>1, <2>3
  <2>5. Max(K) \in K
    <3> HIDE DEF K, e
    <3> QED
      BY <2>1, <2>4, MaxAmong
  <2>6. Trimmed(c(e)) = Before(c(e), 1 + Max(K))
    BY DEF Trimmed
  <2> DEFINE l == Max(K)
  <2>7. l \in 0..e
    BY <2>4, <2>5
  <2> HIDE DEF l, K, e
  <2>8. 1 + l \in 1..(e + 1) /\ (1 + l) - 1 = l
    BY <2>1, <2>7
  <2>9. Before(c(e), 1 + l) = c(l)
    BY <1>7, <2>1, <2>8
  <2> QED
    BY <2>2, <2>6, <2>7, <2>9 DEF l, e
<1>9. l \in 0..n /\ l \in Nat /\ l < first /\ Len(c(l)) = l
  BY <1>1, <1>5, <1>6
<1>10. slash \in 0..l
  <2> DEFINE J == {k \in 1..Len(prefix) : prefix[k] = "/"}
  <2>1. slash = IF J # {} THEN Max(J) ELSE 0
    BY DEF SelectLastInSeq
  <2>2. J \in SUBSET (0..l)
    BY <1>8, <1>9
  <2> HIDE DEF J, slash
  <2>3. J # {} => Max(J) \in 0..l
    BY <1>9, <2>2, MaxAmong
  <2> QED
    BY <1>9, <2>1, <2>3
<1>11. \E m \in 0..l : feature = c(m)
  <2> HIDE DEF slash, prefix, tail
  <2>1. CASE slash > 0 /\ ~Contains(tail, FeatureId)
    <3>1. feature = Before(c(l), slash)
      BY <1>8, <2>1
    <3>2. slash \in 1..(l + 1)
      BY <1>9, <1>10, <2>1
    <3> QED
      BY <1>7, <1>9, <3>1, <3>2
  <2>2. CASE ~(slash > 0 /\ ~Contains(tail, FeatureId))
    <3>1. feature = c(l) /\ l \in 0..l
      BY <1>8, <1>9, <2>2
    <3> QED
      BY <3>1
  <2> QED
    BY <2>1, <2>2
<1> HIDE DEF feature
<1>12. PICK m \in 0..l : feature = c(m)
  BY <1>11
<1>13. m \in 0..n /\ m < first /\ m \in Nat
  BY <1>1, <1>5, <1>9
<1>14. PICK k \in 1..m : p[k] = FeatureId
  <2>1. Len(c(m)) = m /\ \A k \in 1..m : c(m)[k] = p[k]
    BY <1>6, <1>13
  <2> QED
    BY <1>2, <1>12, <2>1 DEF Contains
<1>15. m \in 1..(n - 1) /\ \A d \in 1..m : p[d] # WorkId
  BY <1>1, <1>5, <1>13, <1>14
<1> QED
  BY <1>2, <1>12, <1>14, <1>15 DEF c, n

----------------------------------------------------------------------------
\* What every step keeps: while the pattern has not changed, the branch, the
\* jobs and what they fetched are what this pattern makes of the push.

Refs(js) == {[feature |-> job.feature, ref |-> RefOf(job)] : job \in js}

RoutingInv ==
  /\ pattern \in Patterns \cup {None}
  /\ push # None => push \in Pushes
  /\ push # None /\ stable =>
       /\ CanBePushed(push, PatternInUse(pattern))
       /\ branch = BranchOf(push, PatternInUse(pattern))
  /\ jobs # None =>
       /\ push # None
       /\ stable => jobs = JobsFor(ClassifyBranch(branch, PatternInUse(pattern)))
  /\ fetched # None => jobs # None /\ (stable => fetched = Refs(jobs))

LEMMA PushKeeps ==
  ASSUME RoutingInv, NEW u \in Pushes, Push(u)
  PROVE  RoutingInv'
BY DEF RoutingInv, Push

LEMMA ChangeKeeps ==
  ASSUME RoutingInv, NEW p \in Patterns \cup {None}, ChangePattern(p)
  PROVE  RoutingInv'
BY DEF RoutingInv, ChangePattern

LEMMA WebhookKeeps ==
  ASSUME RoutingInv, Webhook
  PROVE  RoutingInv'
BY DEF RoutingInv, Webhook, JobsFor

LEMMA DrainKeeps ==
  ASSUME RoutingInv, Drain
  PROVE  RoutingInv'
BY DEF RoutingInv, Drain, JobsFor, Refs, RefOf

\* It holds throughout.
THEOREM RoutingInvHolds == Spec => []RoutingInv
<1>1. Init => RoutingInv
  BY DEF Init, RoutingInv
<1>2. RoutingInv /\ [Next]_vars => RoutingInv'
  <2> SUFFICES ASSUME RoutingInv, [Next]_vars PROVE RoutingInv'
    OBVIOUS
  <2>1. ASSUME NEW u \in Pushes, Push(u) PROVE RoutingInv'
    BY <2>1, PushKeeps
  <2>2. ASSUME NEW p \in Patterns \cup {None}, ChangePattern(p) PROVE RoutingInv'
    BY <2>2, ChangeKeeps
  <2>3. CASE Webhook
    BY <2>3, WebhookKeeps
  <2>4. CASE Drain
    BY <2>4, DrainKeeps
  <2>5. CASE UNCHANGED vars
    BY <2>5 DEF vars, RoutingInv, JobsFor, Refs, RefOf
  <2> QED
    BY <2>1, <2>2, <2>3, <2>4, <2>5 DEF Next
<1> QED
  BY <1>1, <1>2, PTL DEF Spec

----------------------------------------------------------------------------
\* What is pushed.

LEMMA PatternType ==
  ASSUME RoutingInv
  PROVE  /\ PatternInUse(pattern) \in Patterns \cup {DefaultPattern}
         /\ PatternInUse(pattern) \in Seq(Words)
<1>1. DefaultPattern \in Seq(Words)
  <2> DEFINE a == "feature"
             b == "/"
             c == "-"
  <2>1. a \in Words /\ b \in Words /\ c \in Words
        /\ FeatureId \in Words /\ WorkId \in Words
    BY WordsAssumption
  <2> HIDE DEF a, b, c
  <2>2. <<a, b, FeatureId, c, WorkId>> \in Seq(Words)
    BY <2>1
  <2> QED
    BY <2>2 DEF DefaultPattern, a, b, c
<1>2. pattern \in Patterns \cup {None}
  BY DEF RoutingInv
<1> QED
  BY <1>1, <1>2, WordsAssumption DEF PatternInUse

LEMMA PushKinds ==
  ASSUME NEW u \in Pushes
  PROVE  \/ u.kind = "base"
         \/ u.kind \in {"feature", "init"} /\ u.feature \in FeatureIds
         \/ u.kind = "task" /\ u.feature \in FeatureIds /\ u.task \in Tasks
         \/ u.kind = "other"
BY DEF Pushes

LEMMA NameType ==
  ASSUME NEW f \in FeatureIds
  PROVE  f \in Seq(Words) /\ f # <<>> /\ \A i \in 1..Len(f) : f[i] # WorkId
BY WordsAssumption DEF Contains

LEMMA TaskType ==
  ASSUME NEW t \in Tasks
  PROVE  /\ \E id \in WorkIds : t = <<id>> /\ id \in Words /\ id # "/" /\ id # "init"
         /\ t \in Seq(Words)
<1>1. PICK id \in WorkIds : t = <<id>>
  BY DEF Tasks
<1>2. id \in Words /\ id # "/" /\ id # "init"
  BY WordsAssumption
<1>3. <<id>> \in Seq(Words)
  BY <1>2
<1> QED
  BY <1>1, <1>2, <1>3

----------------------------------------------------------------------------
\* A job reads the branch that was pushed, if it is for the right task.

LEMMA FetchedIfRouted ==
  ASSUME RoutingInv, RoutedRight
  PROVE  FetchedRight
<1> DEFINE p == PatternInUse(pattern)
<1> SUFFICES ASSUME fetched # None, Clear, NEW r \in fetched
             PROVE  r.ref = branch
  BY DEF FetchedRight
<1>1. stable
  BY DEF Clear
<1>2. /\ push \in Pushes /\ branch = BranchOf(push, p)
      /\ jobs # None /\ fetched = Refs(jobs)
  BY <1>1 DEF RoutingInv
<1>3. jobs = Expected(push, branch)
  BY <1>2 DEF RoutedRight
<1>4. PICK job \in jobs : r = [feature |-> job.feature, ref |-> RefOf(job)]
  BY <1>2 DEF Refs
<1>5. r.ref = RefOf(job)
  BY <1>4
<1>6. CASE push.kind = "base"
  <2>1. PICK f \in push.touched : job = SyncJob(f, branch)
    BY <1>3, <1>6 DEF Expected
  <2> QED
    BY <1>5, <2>1 DEF SyncJob, RefOf
<1>7. CASE push.kind \in {"feature", "init"}
  <2>1. job = SyncJob(push.feature, branch)
    BY <1>3, <1>7 DEF Expected
  <2> QED
    BY <1>5, <2>1 DEF SyncJob, RefOf
<1>8. CASE push.kind = "task" /\ push.feature \in FeatureIds /\ push.task \in Tasks
  <2>1. job = TaskJob(push.feature, push.task)
    BY <1>3, <1>8 DEF Expected
  <2>2. RefOf(job) = DeriveBranch(p, push.feature, push.task)
    BY <2>1 DEF TaskJob, RefOf
  <2>3. branch = TaskBranch(p, push.feature, push.task)
    BY <1>2, <1>8 DEF BranchOf
  <2>4. p \in Seq(Words)
    BY PatternType
  <2>5. /\ push.feature \in Seq(Words) /\ push.task \in Seq(Words)
        /\ \A i \in 1..Len(push.feature) : push.feature[i] # WorkId
    BY <1>8, NameType, TaskType
  <2> HIDE DEF p
  <2>6. DeriveBranch(p, push.feature, push.task) = TaskBranch(p, push.feature, push.task)
    BY <2>4, <2>5, DerivesBranch
  <2> QED
    BY <1>5, <2>2, <2>3, <2>6
<1>9. CASE push.kind = "other"
  <2>1. jobs = {}
    BY <1>3, <1>9 DEF Expected
  <2> QED
    BY <2>1
<1> QED
  BY <1>2, <1>6, <1>7, <1>8, <1>9, PushKinds

(***************************************************************************)
(* For every pattern, with its placeholders in any number and order: where *)
(* a push becomes the right jobs these read the branch that was pushed,    *)
(* although a task:sync job derives it anew (HandleTaskSync).              *)
(***************************************************************************)
THEOREM DerivedRight == Spec => [](RoutedRight => FetchedRight)
<1>1. RoutingInv => (RoutedRight => FetchedRight)
  BY FetchedIfRouted
<1> QED
  BY <1>1, RoutingInvHolds, PTL

----------------------------------------------------------------------------
\* What a push becomes.

LEMMA PatternSeparated ==
  ASSUME RoutingInv
  PROVE  Separated(PatternInUse(pattern))
<1> DEFINE p == PatternInUse(pattern)
<1>1. p \in Patterns \cup {DefaultPattern} /\ p \in Seq(Words)
  BY PatternType
<1>2. Len(p) \in Nat
  BY <1>1
<1>3. \A k \in 1..(Len(p) - 1) :
        ({p[k], p[k + 1]} \cap {FeatureId, WorkId} # {})
          => ({p[k], p[k + 1]} \cap Separators # {})
  BY <1>1, PatternsAssumption
<1> HIDE DEF p
<1>4. ASSUME NEW i \in Holes(p), i + 1 \in 1..Len(p) PROVE p[i + 1] \in Separators
  <2>1. i \in 1..(Len(p) - 1) /\ p[i] \in {FeatureId, WorkId}
    BY <1>2, <1>4 DEF Holes
  <2>2. {p[i], p[i + 1]} \cap Separators # {}
    BY <1>3, <2>1
  <2> QED
    BY <2>1, <2>2, WordsAssumption
<1>5. Separated(p)
  BY <1>4 DEF Separated
<1> QED
  BY <1>5 DEF p

\* In a pattern that ends in the task a separator stands in front of it.
LEMMA SeparatorBefore ==
  ASSUME RoutingInv
  PROVE  LET p == PatternInUse(pattern)
         IN  Len(p) >= 2 /\ p[Len(p)] = WorkId => p[Len(p) - 1] \in Separators
<1> DEFINE p == PatternInUse(pattern)
           n == Len(p)
<1> SUFFICES ASSUME n >= 2, p[n] = WorkId PROVE p[n - 1] \in Separators
  OBVIOUS
<1>1. p \in Patterns \cup {DefaultPattern} /\ p \in Seq(Words)
  BY PatternType
<1>2. n \in Nat /\ n - 1 \in 1..(n - 1) /\ (n - 1) + 1 = n
  BY <1>1
<1>3. \A k \in 1..(n - 1) :
        ({p[k], p[k + 1]} \cap {FeatureId, WorkId} # {})
          => ({p[k], p[k + 1]} \cap Separators # {})
  BY <1>1, PatternsAssumption
<1> HIDE DEF p, n
<1>4. {p[n - 1], p[n]} \cap Separators # {}
  BY <1>2, <1>3
<1> QED
  BY <1>4, WordsAssumption

LEMMA RoutedTask ==
  ASSUME NEW p \in Seq(Words), Separated(p),
         NEW i \in Holes(p), p[i] = FeatureId, NEW j \in Holes(p), p[j] = WorkId,
         NEW f \in FeatureIds, ~IsSuffix(InitSuffix, f), Apart(p, f), NEW t \in Tasks,
         NEW b, b = TaskBranch(p, f, t), b # DefaultBranch
  PROVE  ClassifyBranch(b, p) = [kind |-> "task", feature |-> f, task |-> t]
<1>1. PICK id \in WorkIds : t = <<id>>
  BY TaskType
<1>2. f \in Seq(Words) /\ f # <<>>
  BY NameType
<1>3. ParseTask(p, TaskBranch(p, f, <<id>>))
        = [kind |-> "task", feature |-> f, task |-> <<id>>]
  BY <1>2, ParsesTask
<1>4. ParseTask(p, b) = [kind |-> "task", feature |-> f, task |-> t]
  BY <1>1, <1>3
<1>5. [kind |-> "task", feature |-> f, task |-> t] # Ignored
  <2>1. [kind |-> "task", feature |-> f, task |-> t].kind # Ignored.kind
    BY DEF Ignored
  <2> QED
    BY <2>1
<1> QED
  BY <1>4, <1>5 DEF ClassifyBranch

\* The pattern ends in the task, and has no task's id written in it.
EndsInPlaceholder(p) == p[Len(p)] = WorkId /\ \A k \in 1..Len(p) : p[k] \notin WorkIds

\* A feature's name, with the suffix of an init branch or without.
LEMMA RoutedFeature ==
  ASSUME NEW p \in Seq(Words), Separated(p), EndsInPlaceholder(p),
         Len(p) >= 2 => p[Len(p) - 1] \in Separators,
         FeaturePattern(p) # <<>>,
         NEW g \in Seq(Words), g # <<>>, NormalizeFeatureID(g) # <<>>,
         Apart(FeaturePattern(p), g),
         \A id \in WorkIds : g[Len(g)] = id => ~IsSuffix(<<p[Len(p) - 1], id>>, g),
         NEW b, b = TaskBranch(FeaturePattern(p), g, <<>>), b # DefaultBranch
  PROVE  ClassifyBranch(b, p) = [kind |-> "feature", feature |-> NormalizeFeatureID(g)]
<1> DEFINE q == FeaturePattern(p)
           n == Len(p)
<1>1. n \in Nat
  OBVIOUS
<1>2. PICK m \in 1..(n - 1) : /\ q = SubSeq(p, 1, m)
                              /\ \A k \in 1..m : p[k] # WorkId
                              /\ \E k \in 1..m : p[k] = FeatureId
  BY FeaturePatternIs
<1>3. /\ m \in Nat /\ m \in 1..m /\ m \in 0..n /\ n >= 2 /\ m < n
      /\ \A k \in 1..m : k \in 1..n
  BY <1>1, <1>2
<1>4. /\ q \in Seq(Words) /\ Len(q) = m /\ \A k \in 1..m : q[k] = p[k]
  BY <1>2, <1>3, BeginningIs
<1> HIDE DEF q
<1>5. Holes(q) \subseteq Holes(p) /\ \A h \in Holes(q) : h \in 1..m /\ q[h] = FeatureId
  BY <1>2, <1>3, <1>4 DEF Holes, n
<1>6. PICK i \in Holes(q) : TRUE
  <2>1. PICK k \in 1..m : p[k] = FeatureId
    BY <1>2
  <2>2. k \in Holes(q)
    BY <1>4, <2>1 DEF Holes
  <2> QED
    BY <2>2
<1>7. Separated(q)
  <2> SUFFICES ASSUME NEW h \in Holes(q), h + 1 \in 1..m PROVE q[h + 1] \in Separators
    BY <1>4 DEF Separated
  <2>1. h \in Holes(p) /\ h + 1 \in 1..n /\ q[h + 1] = p[h + 1]
    BY <1>3, <1>4, <1>5
  <2> QED
    BY <2>1 DEF Separated, n
<1>8. ParseFeature(q, TaskBranch(q, g, <<>>))
        = [kind |-> "feature", feature |-> NormalizeFeatureID(g)]
  <2>1. Apart(q, g)
    BY DEF q
  <2> QED
    BY <1>4, <1>5, <1>6, <1>7, <2>1, ParsesFeature
<1>9. ParseTask(p, TaskBranch(q, g, <<>>)) = Ignored
  <2>1. q[m] \notin WorkIds
    BY <1>3, <1>4 DEF EndsInPlaceholder, n
  <2>2. Len(q) >= 1 /\ Len(q) < Len(p) /\ q[Len(q)] \notin WorkIds
    BY <1>3, <1>4, <2>1 DEF n
  <2>3. Len(p) >= 2 /\ p[Len(p)] = WorkId /\ p[Len(p) - 1] \in Separators
    BY <1>3 DEF EndsInPlaceholder, n
  <2> QED
    BY <1>4, <1>5, <2>2, <2>3, NoTaskInName
<1>10. b = TaskBranch(q, g, <<>>) /\ FeaturePattern(p) = q
  BY DEF q
<1> QED
  BY <1>8, <1>9, <1>10 DEF ClassifyBranch

(***************************************************************************)
(* The pushes whose jobs are right whatever the names are and whatever the *)
(* pattern is: of the default branch, of every task's branch, and of every *)
(* feature's and init branch if the pattern ends in the task.              *)
(***************************************************************************)
PlainPush ==
  /\ push # None
  /\ \/ push.kind \in {"base", "task"}
     \/ /\ push.kind \in {"feature", "init"}
        /\ EndsInPlaceholder(PatternInUse(pattern))

LEMMA RoutedIfPlain ==
  ASSUME RoutingInv, PlainPush
  PROVE  RoutedRight
<1> DEFINE p == PatternInUse(pattern)
<1> SUFFICES ASSUME jobs # None, Clear
             PROVE  jobs = Expected(push, branch)
  BY DEF RoutedRight
<1>1. stable
  BY DEF Clear
<1>2. /\ push # None /\ push \in Pushes /\ branch = BranchOf(push, p)
      /\ CanBePushed(push, p)
      /\ jobs = JobsFor(ClassifyBranch(branch, p))
  BY <1>1 DEF RoutingInv
<1>3. p \in Seq(Words) /\ Separated(p)
  BY PatternType, PatternSeparated
<1>4. ~EndsInInit(push) /\ ~ReadsAsTask(push, p) /\ ~CalledBase(push) /\ ~ReadsAcross(push, p)
  BY DEF Clear
<1>5. CASE push.kind = "base"
  <2>1. branch = DefaultBranch
    BY <1>2, <1>5 DEF BranchOf
  <2>2. ClassifyBranch(branch, p) = [kind |-> "base"]
    BY <2>1 DEF ClassifyBranch
  <2>3. jobs = {SyncJob(f, branch) : f \in push.touched}
    BY <1>2, <1>5, <2>2 DEF JobsFor
  <2> QED
    BY <1>5, <2>3 DEF Expected
<1>6. CASE push.kind = "task"
  <2>1. /\ push.feature \in FeatureIds /\ push.task \in Tasks
        /\ branch = TaskBranch(p, push.feature, push.task)
    BY <1>2, <1>6, PushKinds DEF BranchOf
  <2>2. branch # DefaultBranch
    BY <1>4, <1>6 DEF CalledBase
  <2>3. ~IsSuffix(InitSuffix, push.feature)
    BY <1>4, <1>6 DEF EndsInInit
  <2>4. Apart(p, push.feature)
    BY <1>4, <1>6 DEF ReadsAcross, Apart
  <2> HIDE DEF p
  <2>5. \E i \in Holes(p) : p[i] = FeatureId
    BY <1>2, <1>3, <1>6 DEF CanBePushed, Range, Holes
  <2>6. \E j \in Holes(p) : p[j] = WorkId
    BY <1>2, <1>3, <1>6 DEF CanBePushed, Range, Holes
  <2>7. ClassifyBranch(branch, p)
          = [kind |-> "task", feature |-> push.feature, task |-> push.task]
    BY <1>3, <2>1, <2>2, <2>3, <2>4, <2>5, <2>6, RoutedTask
  <2>8. jobs = {TaskJob(push.feature, push.task)}
    BY <1>2, <2>7 DEF JobsFor
  <2> QED
    BY <1>6, <2>8 DEF Expected
<1>7. CASE push.kind \in {"feature", "init"}
  <2>1. EndsInPlaceholder(p)
    BY <1>7 DEF PlainPush
  <2>2. branch # DefaultBranch
    BY <1>4, <1>7 DEF CalledBase
  <2>3. push.feature \in FeatureIds
    BY <1>2, <1>7, PushKinds
  <2>4. push.feature \in Seq(Words) /\ push.feature # <<>>
    BY <2>3, NameType
  <2>5. FeaturePattern(p) # <<>>
    BY <1>2, <1>7 DEF CanBePushed
  <2>6. Len(p) >= 2 => p[Len(p) - 1] \in Separators
    BY <2>1, SeparatorBefore DEF EndsInPlaceholder
  <2> DEFINE g == IF push.kind = "init" THEN push.feature \o InitSuffix ELSE push.feature
  <2>7. branch = TaskBranch(FeaturePattern(p), g, <<>>)
    BY <1>2, <1>7 DEF BranchOf, FeatureBranch
  <2>8. Apart(FeaturePattern(p), g)
    BY <1>4, <1>7 DEF ReadsAcross, Apart
  <2>9. /\ g \in Seq(Words) /\ g # <<>> /\ NormalizeFeatureID(g) = push.feature
        /\ Len(p) >= 2 =>
             \A id \in WorkIds : g[Len(g)] = id => ~IsSuffix(<<p[Len(p) - 1], id>>, g)
    <3>1. CASE push.kind = "init"
      <4>1. /\ g \in Seq(Words) /\ g # <<>> /\ g[Len(g)] = "init"
            /\ NormalizeFeatureID(g) = push.feature
        BY <2>4, <3>1, NormalizesInit
      <4> QED
        BY <4>1, WordsAssumption
    <3>2. CASE push.kind = "feature"
      <4>1. NormalizeFeatureID(push.feature) = push.feature
        BY <1>4, <3>2 DEF EndsInInit, NormalizeFeatureID
      <4> HIDE DEF p
      <4>2. Len(p) >= 2 => IsSuffix(<<p[Len(p) - 1], WorkId>>, p)
        BY <1>3, <2>1, EndsInTwo DEF EndsInPlaceholder
      <4>3. Len(p) >= 2 => \A id \in WorkIds : ~IsSuffix(<<p[Len(p) - 1], id>>, push.feature)
        BY <1>4, <2>6, <3>2, <4>2 DEF ReadsAsTask
      <4> QED
        BY <2>4, <3>2, <4>1, <4>3
    <3> QED
      BY <1>7, <3>1, <3>2
  <2> HIDE DEF g, p
  <2>10. Len(p) >= 2
    <3>1. PICK m \in 1..(Len(p) - 1) : FeaturePattern(p) = SubSeq(p, 1, m)
      BY <1>3, <2>5, FeaturePatternIs
    <3> QED
      BY <1>3, <3>1
  <2>11. ClassifyBranch(branch, p)
          = [kind |-> "feature", feature |-> NormalizeFeatureID(g)]
    <3>1. NormalizeFeatureID(g) # <<>>
      BY <2>4, <2>9
    <3> QED
      BY <1>3, <2>1, <2>2, <2>5, <2>6, <2>7, <2>8, <2>9, <2>10, <3>1, RoutedFeature
  <2>12. ClassifyBranch(branch, p) = [kind |-> "feature", feature |-> push.feature]
    BY <2>9, <2>11
  <2>13. jobs = {SyncJob(push.feature, branch)}
    BY <1>2, <2>12 DEF JobsFor
  <2> QED
    BY <1>7, <2>13 DEF Expected
<1> QED
  BY <1>5, <1>6, <1>7 DEF PlainPush

(***************************************************************************)
(* Such a push becomes the jobs of what it is about, and they read its     *)
(* branch: for every branch pattern, with its placeholders in any number   *)
(* and order, and for all features and tasks, however their names are put  *)
(* together (ClassifyBranch, basePushTargetedSyncPayloads, HandleTaskSync).*)
(***************************************************************************)
THEOREM PlainPushesRouted == Spec => [](PlainPush => RoutedRight /\ FetchedRight)
<1>1. RoutingInv => (PlainPush => RoutedRight /\ FetchedRight)
  BY RoutedIfPlain, FetchedIfRouted
<1> QED
  BY <1>1, RoutingInvHolds, PTL

\* The default pattern is of that form.
LEMMA DefaultEndsInPlaceholder == EndsInPlaceholder(DefaultPattern)
<1> DEFINE p == DefaultPattern
<1>1. /\ Len(p) = 5 /\ p[1] = "feature" /\ p[2] = "/" /\ p[3] = FeatureId
      /\ p[4] = "-" /\ p[5] = WorkId
  BY DEF DefaultPattern
<1> HIDE DEF p
<1>2. {"feature", "/", "-", FeatureId, WorkId} \cap WorkIds = {}
  BY WordsAssumption
<1>3. ASSUME NEW k \in 1..5 PROVE p[k] \notin WorkIds
  <2>1. k = 1 \/ k = 2 \/ k = 3 \/ k = 4 \/ k = 5
    OBVIOUS
  <2> QED
    BY <1>1, <1>2, <2>1
<1> QED
  BY <1>1, <1>3 DEF EndsInPlaceholder, p

(***************************************************************************)
(* So it is for every push of a workspace that sets no pattern, but of a   *)
(* branch that belongs to no feature.                                      *)
(***************************************************************************)
THEOREM DefaultPushesRouted ==
  Spec => [](pattern = None /\ push # None /\ push.kind # "other"
               => RoutedRight /\ FetchedRight)
<1> DEFINE Default == pattern = None /\ push # None /\ push.kind # "other"
<1>1. RoutingInv /\ Default => PlainPush
  <2> SUFFICES ASSUME RoutingInv, Default PROVE PlainPush
    OBVIOUS
  <2>1. PatternInUse(pattern) = DefaultPattern
    BY DEF PatternInUse
  <2>2. push.kind \in {"base", "task", "feature", "init"}
    BY PushKinds DEF RoutingInv
  <2> QED
    BY <2>1, <2>2, DefaultEndsInPlaceholder DEF PlainPush
<1>2. RoutingInv => (Default => RoutedRight /\ FetchedRight)
  BY <1>1, RoutedIfPlain, FetchedIfRouted
<1> QED
  BY <1>2, RoutingInvHolds, PTL

=============================================================================
