-------------------------- MODULE ProxyChainProofs --------------------------
(***************************************************************************)
(* Through a chain of any number of proxies, of either scheme and in any   *)
(* order, the relay hears the destination from the first byte on and in    *)
(* order, whatever the readers of the HTTP hops read ahead; a dial that    *)
(* fails closes its connection, and has a cause.                           *)
(***************************************************************************)
EXTENDS ProxyChain, SequenceTheorems, FiniteSetTheorems, WellFoundedInduction, TLAPS

\* Leaves go to Zenon unless they name another prover.
USE Zenon

\* The place of a token in what follows the last message of a hop: the two
\* parts of the answer, then what the destination says.
Place(t) ==
  IF t.what = "data" THEN t.chunk + 2 ELSE IF t.what \in {"addr", "header"} THEN 2 ELSE 1

\* The layers b hold the places from lo to hi, each in one piece; the higher a
\* layer, the earlier what it holds.
Within(b, lo, hi) == \A k \in 0..N : \A i \in 1..Len(b[k]) : Place(b[k][i]) \in lo..hi
Sorted(b) ==
  \A k, l \in 0..N : \A i \in 1..Len(b[k]), j \in 1..Len(b[l]) :
    l < k \/ (l = k /\ i < j) => Place(b[k][i]) < Place(b[l][j])
Complete(b, lo, hi) == \A p \in lo..hi : \E k \in 0..N : \E i \in 1..Len(b[k]) : Place(b[k][i]) = p
InOrder(b, lo, hi) == Within(b, lo, hi) /\ Sorted(b) /\ Complete(b, lo, hi)

\* The tokens they hold.
Held(b) == {t \in Tokens : \E k \in 0..N : \E i \in 1..Len(b[k]) : b[k][i] = t}
-----------------------------------------------------------------------------
(* What the layers do to the order of the bytes.                            *)

(* A sequence with an element has a first one.                              *)
LEMMA HeadIsThere ==
  ASSUME NEW q \in Seq(Tokens), q # <<>>
  PROVE  Len(q) \in Nat \ {0} /\ 1 \in 1..Len(q) /\ Head(q) = q[1] /\ q[1] \in Tokens
<1>1. Len(q) \in Nat \ {0}
  BY EmptySeq
<1>2. 1 \in 1..Len(q)
  BY <1>1, SMTT(30)
<1>3. q \in [1..Len(q) -> Tokens]
  BY LenProperties
<1>4. Head(q) = q[1]
  BY <1>1, SMTT(30)
<1>. QED  BY <1>1, <1>2, <1>3, <1>4

(* What the highest layer that holds anything holds first is what is to be  *)
(* read next.                                                               *)
LEMMA HeadIsFirst ==
  ASSUME NEW b \in [0..N -> Seq(Tokens)], NEW lo \in Nat, NEW hi \in Nat, InOrder(b, lo, hi),
         NEW s \in 0..N, b[s] # <<>>, \A k \in 0..N : k > s => b[k] = <<>>
  PROVE  lo <= hi /\ Place(Head(b[s])) = lo
<1>1. 1 \in 1..Len(b[s]) /\ Head(b[s]) = b[s][1]
  BY HeadIsThere
<1>2. Place(b[s][1]) \in lo..hi
  BY <1>1 DEF InOrder, Within
<1>3. lo \in lo..hi /\ lo <= hi
  BY <1>2, SMTT(30)
<1>4. PICK k \in 0..N : \E i \in 1..Len(b[k]) : Place(b[k][i]) = lo
  BY <1>3 DEF InOrder, Complete
<1>5. PICK i \in 1..Len(b[k]) : Place(b[k][i]) = lo
  BY <1>4
<1>6. b[k] # <<>>
  BY <1>5, SMTT(30)
<1>7. ~(k > s) /\ ~(Place(b[s][1]) < Place(b[k][i]))
  BY <1>2, <1>5, <1>6, SMTT(30)
<1>8. ~(k < s \/ (k = s /\ 1 < i))
  BY <1>1, <1>7 DEF InOrder, Sorted
<1>9. k = s /\ i = 1
  <2>1. Len(b[k]) \in Nat
    BY LenProperties
  <2>2. N \in Nat
    BY ProxyChainAssumption
  <2>. QED  BY <1>7, <1>8, <2>1, <2>2, SMTT(30)
<1>. QED  BY <1>1, <1>3, <1>5, <1>9

(* Reading it leaves the rest.                                              *)
LEMMA ReadInOrder ==
  ASSUME NEW b \in [0..N -> Seq(Tokens)], NEW lo \in Nat, NEW hi \in Nat, InOrder(b, lo, hi),
         NEW s \in 0..N, b[s] # <<>>, \A k \in 0..N : k > s => b[k] = <<>>
  PROVE  LET c == [b EXCEPT ![s] = Tail(@)]
         IN  c \in [0..N -> Seq(Tokens)] /\ InOrder(c, lo + 1, hi) /\ Held(c) \subseteq Held(b)
<1>. DEFINE c == [b EXCEPT ![s] = Tail(@)]
            Ix(k, i) == IF k = s THEN i + 1 ELSE i
<1>0. N \in Nat /\ \A k \in 0..N : Len(b[k]) \in Nat
  BY ProxyChainAssumption, LenProperties
<1>1. lo <= hi /\ Place(b[s][1]) = lo /\ 1 \in 1..Len(b[s])
  BY HeadIsFirst, HeadIsThere
<1>2. /\ Len(c[s]) = Len(b[s]) - 1
      /\ \A i \in 1..Len(c[s]) : c[s][i] = b[s][i + 1]
      /\ \A k \in 0..N : k # s => c[k] = b[k]
  <2>1. c[s] = Tail(b[s]) /\ \A k \in 0..N : k # s => c[k] = b[k]
    OBVIOUS
  <2>. HIDE DEF c
  <2>2. Len(Tail(b[s])) = Len(b[s]) - 1 /\ \A i \in 1..Len(Tail(b[s])) : Tail(b[s])[i] = b[s][i + 1]
    BY HeadTailProperties
  <2>. QED  BY <2>1, <2>2
<1>. HIDE DEF c
<1>3. \A k \in 0..N : \A i \in 1..Len(c[k]) : Ix(k, i) \in 1..Len(b[k]) /\ c[k][i] = b[k][Ix(k, i)]
  <2>. SUFFICES ASSUME NEW k \in 0..N, NEW i \in 1..Len(c[k])
                PROVE  Ix(k, i) \in 1..Len(b[k]) /\ c[k][i] = b[k][Ix(k, i)]
    OBVIOUS
  <2>1. CASE k = s
    <3>1. i + 1 \in 1..Len(b[k])
      BY <1>0, <1>2, <2>1, SMTT(30)
    <3>. QED  BY <1>2, <2>1, <3>1
  <2>2. CASE k # s
    BY <1>2, <2>2
  <2>. QED  BY <2>1, <2>2
<1>4. \A k \in 0..N : \A i \in 1..Len(c[k]) : ~(k = s /\ Ix(k, i) = 1) /\ Place(b[k][Ix(k, i)]) \in lo..hi
  <2>1. \A k \in 0..N : \A i \in 1..Len(c[k]) : Place(b[k][Ix(k, i)]) \in lo..hi
    BY <1>3 DEF InOrder, Within
  <2>2. \A k \in 0..N : \A i \in 1..Len(c[k]) : ~(k = s /\ Ix(k, i) = 1)
    BY <1>0, <1>2, SMTT(30)
  <2>. QED  BY <2>1, <2>2
<1>5. Within(c, lo + 1, hi)
  <2>. SUFFICES ASSUME NEW k \in 0..N, NEW i \in 1..Len(c[k]) PROVE Place(c[k][i]) \in (lo + 1)..hi
    BY DEF Within
  <2>. DEFINE j == Ix(k, i)
  <2>1. j \in 1..Len(b[k]) /\ c[k][i] = b[k][j] /\ ~(k = s /\ j = 1) /\ Place(b[k][j]) \in lo..hi
    BY <1>3, <1>4
  <2>. HIDE DEF j
  <2>2. ~(k > s)
    <3>. SUFFICES ASSUME k > s PROVE FALSE
      OBVIOUS
    <3>1. b[k] = <<>>
      OBVIOUS
    <3>. QED  BY <2>1, <3>1, SMTT(30)
  <2>3. k < s \/ (k = s /\ 1 < j)
    BY <1>0, <2>1, <2>2, SMTT(30)
  <2>4. Place(b[s][1]) < Place(b[k][j])
    BY <1>1, <2>1, <2>3 DEF InOrder, Sorted
  <2>. QED  BY <1>1, <2>1, <2>4, SMTT(30)
<1>6. Sorted(c)
  <2>. SUFFICES ASSUME NEW k \in 0..N, NEW l \in 0..N, NEW i \in 1..Len(c[k]), NEW j \in 1..Len(c[l]),
                       l < k \/ (l = k /\ i < j)
                PROVE  Place(c[k][i]) < Place(c[l][j])
    BY DEF Sorted
  <2>1. l < k \/ (l = k /\ Ix(k, i) < Ix(l, j))
    <3>1. i \in Int /\ j \in Int
      BY SMTT(30)
    <3>. QED  BY <3>1, SMTT(30)
  <2>. HIDE DEF Ix
  <2>2. /\ Ix(k, i) \in 1..Len(b[k]) /\ c[k][i] = b[k][Ix(k, i)]
        /\ Ix(l, j) \in 1..Len(b[l]) /\ c[l][j] = b[l][Ix(l, j)]
    BY <1>3
  <2>3. Place(b[k][Ix(k, i)]) < Place(b[l][Ix(l, j)])
    BY <2>1, <2>2 DEF InOrder, Sorted
  <2>. QED  BY <2>2, <2>3
<1>7. Complete(c, lo + 1, hi)
  <2>. SUFFICES ASSUME NEW p \in (lo + 1)..hi
                PROVE  \E k \in 0..N : \E i \in 1..Len(c[k]) : Place(c[k][i]) = p
    BY DEF Complete
  <2>1. p \in lo..hi /\ p # lo
    BY SMTT(30)
  <2>2. PICK k \in 0..N : \E i \in 1..Len(b[k]) : Place(b[k][i]) = p
    BY <2>1 DEF InOrder, Complete
  <2>3. PICK i \in 1..Len(b[k]) : Place(b[k][i]) = p
    BY <2>2
  <2>4. CASE k = s
    <3>1. i # 1
      BY <1>1, <2>1, <2>3, <2>4
    <3>2. i - 1 \in 1..Len(c[k]) /\ (i - 1) + 1 = i
      <4>1. Len(b[k]) \in Nat /\ Len(c[k]) = Len(b[k]) - 1
        BY <1>0, <1>2, <2>4
      <4>. QED  BY <3>1, <4>1, SMTT(30)
    <3>3. c[k][i - 1] = b[k][i]
      BY <1>2, <2>4, <3>2
    <3>. QED  BY <2>3, <3>2, <3>3
  <2>5. CASE k # s
    BY <1>2, <2>3, <2>5
  <2>. QED  BY <2>4, <2>5
<1>8. Held(c) \subseteq Held(b)
  <2>. HIDE DEF Ix
  <2>. SUFFICES ASSUME NEW t \in Held(c) PROVE t \in Held(b)
    OBVIOUS
  <2>1. t \in Tokens /\ \E k \in 0..N : \E i \in 1..Len(c[k]) : c[k][i] = t
    BY DEF Held
  <2>2. PICK k \in 0..N : \E i \in 1..Len(c[k]) : c[k][i] = t
    BY <2>1
  <2>. PICK i \in 1..Len(c[k]) : c[k][i] = t
    BY <2>2
  <2>3. Ix(k, i) \in 1..Len(b[k]) /\ b[k][Ix(k, i)] = t
    BY <1>3, <2>2
  <2>. QED  BY <2>1, <2>3 DEF Held
<1>9. c \in [0..N -> Seq(Tokens)]
  BY HeadTailProperties DEF c
<1>10. InOrder(c, lo + 1, hi)
  BY <1>5, <1>6, <1>7 DEF InOrder
<1>. QED  BY <1>8, <1>9, <1>10 DEF c

(* What arrives joins the end, at the transport connection.                 *)
LEMMA ArriveInOrder ==
  ASSUME NEW b \in [0..N -> Seq(Tokens)], NEW lo \in Nat, NEW hi \in Nat, InOrder(b, lo, hi),
         NEW t \in Tokens, Place(t) = hi + 1, lo <= hi + 1
  PROVE  LET c == [b EXCEPT ![0] = Append(@, t)]
         IN  c \in [0..N -> Seq(Tokens)] /\ InOrder(c, lo, hi + 1) /\ Held(c) \subseteq Held(b) \cup {t}
<1>. DEFINE c == [b EXCEPT ![0] = Append(@, t)]
            n == Len(b[0])
<1>0. N \in Nat /\ 0 \in 0..N /\ b[0] \in Seq(Tokens) /\ n \in Nat
  <2>1. N \in Nat /\ 0 \in 0..N
    BY ProxyChainAssumption, SMTT(30)
  <2>. QED  BY <2>1, LenProperties
<1>1. /\ Len(c[0]) = n + 1 /\ c[0][n + 1] = t
      /\ \A i \in 1..n : c[0][i] = b[0][i]
      /\ \A k \in 0..N : k # 0 => c[k] = b[k]
  <2>1. c[0] = Append(b[0], t) /\ \A k \in 0..N : k # 0 => c[k] = b[k]
    BY <1>0
  <2>. HIDE DEF c
  <2>2. /\ Len(Append(b[0], t)) = n + 1 /\ Append(b[0], t)[n + 1] = t
        /\ \A i \in 1..n : Append(b[0], t)[i] = b[0][i]
    BY <1>0, AppendProperties, SMTT(30)
  <2>. QED  BY <2>1, <2>2
<1>. HIDE DEF c, n
<1>2. ASSUME NEW k \in 0..N, NEW i \in 1..Len(c[k])
      PROVE  \/ i \in 1..Len(b[k]) /\ c[k][i] = b[k][i] /\ Place(c[k][i]) \in lo..hi
             \/ k = 0 /\ i = Len(c[0]) /\ Place(c[k][i]) = hi + 1
  <2>1. CASE k # 0
    BY <1>1, <2>1 DEF InOrder, Within
  <2>2. CASE k = 0 /\ i = n + 1
    BY <1>1, <2>2
  <2>3. CASE k = 0 /\ i # n + 1
    <3>1. i \in 1..n
      BY <1>0, <1>1, <2>3, SMTT(30)
    <3>. QED  BY <1>1, <2>3, <3>1 DEF InOrder, Within, n
  <2>. QED  BY <2>1, <2>2, <2>3
<1>3. Within(c, lo, hi + 1)
  <2>1. hi + 1 \in lo..(hi + 1) /\ \A p \in lo..hi : p \in lo..(hi + 1)
    BY SMTT(30)
  <2>. QED  BY <1>2, <2>1 DEF Within
<1>4. Sorted(c)
  <2>. SUFFICES ASSUME NEW k \in 0..N, NEW l \in 0..N, NEW i \in 1..Len(c[k]), NEW j \in 1..Len(c[l]),
                       l < k \/ (l = k /\ i < j)
                PROVE  Place(c[k][i]) < Place(c[l][j])
    BY DEF Sorted
  <2>1. ~(k = 0 /\ i = Len(c[0]))
    <3>. SUFFICES ASSUME k = 0, i = Len(c[0]) PROVE FALSE
      OBVIOUS
    <3>1. ~(l < 0) /\ ~(l = 0 /\ i < j)
      BY <1>0, <1>1, SMTT(30)
    <3>. QED  BY <3>1
  <2>2. i \in 1..Len(b[k]) /\ c[k][i] = b[k][i] /\ Place(c[k][i]) \in lo..hi
    BY <1>2, <2>1
  <2>3. CASE j \in 1..Len(b[l]) /\ c[l][j] = b[l][j]
    BY <2>2, <2>3 DEF InOrder, Sorted
  <2>4. CASE Place(c[l][j]) = hi + 1
    BY <2>2, <2>4, SMTT(30)
  <2>. QED  BY <1>2, <2>3, <2>4
<1>5. Complete(c, lo, hi + 1)
  <2>. SUFFICES ASSUME NEW p \in lo..(hi + 1)
                PROVE  \E k \in 0..N : \E i \in 1..Len(c[k]) : Place(c[k][i]) = p
    BY DEF Complete
  <2>1. CASE p = hi + 1
    <3>1. n + 1 \in 1..Len(c[0])
      BY <1>0, <1>1, SMTT(30)
    <3>. QED  BY <1>0, <1>1, <2>1, <3>1
  <2>2. CASE p \in lo..hi
    <3>1. PICK k \in 0..N : \E i \in 1..Len(b[k]) : Place(b[k][i]) = p
      BY <2>2 DEF InOrder, Complete
    <3>2. PICK i \in 1..Len(b[k]) : Place(b[k][i]) = p
      BY <3>1
    <3>3. CASE k # 0
      BY <1>1, <3>2, <3>3
    <3>4. CASE k = 0
      <4>1. i \in 1..n
        BY <3>4 DEF n
      <4>2. i \in 1..Len(c[0])
        BY <1>0, <1>1, <4>1, SMTT(30)
      <4>. QED  BY <1>1, <3>2, <3>4, <4>1, <4>2
    <3>. QED  BY <3>3, <3>4
  <2>3. p = hi + 1 \/ p \in lo..hi
    BY SMTT(30)
  <2>. QED  BY <2>1, <2>2, <2>3
<1>6. Held(c) \subseteq Held(b) \cup {t}
  <2>. SUFFICES ASSUME NEW u \in Held(c), u # t PROVE u \in Held(b)
    OBVIOUS
  <2>1. u \in Tokens /\ \E k \in 0..N : \E i \in 1..Len(c[k]) : c[k][i] = u
    BY DEF Held
  <2>2. PICK k \in 0..N : \E i \in 1..Len(c[k]) : c[k][i] = u
    BY <2>1
  <2>. PICK i \in 1..Len(c[k]) : c[k][i] = u
    BY <2>2
  <2>3. i \in 1..Len(b[k]) /\ b[k][i] = u
    <3>1. CASE k # 0
      BY <1>1, <2>2, <3>1
    <3>2. CASE k = 0
      <4>1. i \in 1..n \/ i = n + 1
        BY <1>0, <1>1, <3>2, SMTT(30)
      <4>. QED  BY <1>1, <2>2, <3>2, <4>1 DEF n
    <3>. QED  BY <3>1, <3>2
  <2>. QED  BY <2>1, <2>3 DEF Held
<1>7. c \in [0..N -> Seq(Tokens)]
  BY <1>0, AppendProperties DEF c
<1>8. InOrder(c, lo, hi + 1)
  BY <1>3, <1>4, <1>5 DEF InOrder
<1>. QED  BY <1>6, <1>7, <1>8 DEF c

(* A reader that takes the first bytes of the layer below moves them up,    *)
(* past layers that are empty.                                              *)
LEMMA FillInOrder ==
  ASSUME NEW b \in [0..N -> Seq(Tokens)], NEW lo, NEW hi, InOrder(b, lo, hi),
         NEW m \in 0..N, NEW k \in 0..N, m < k, NEW n \in 1..Len(b[m]),
         \A l \in 0..N : l > m => b[l] = <<>>
  PROVE  LET c == [b EXCEPT ![k] = SubSeq(b[m], 1, n), ![m] = SubSeq(@, n + 1, Len(@))]
         IN  c \in [0..N -> Seq(Tokens)] /\ InOrder(c, lo, hi) /\ Held(c) \subseteq Held(b)
<1>. DEFINE c == [b EXCEPT ![k] = SubSeq(b[m], 1, n), ![m] = SubSeq(@, n + 1, Len(@))]
            At(a) == IF a = k THEN m ELSE a
            Ix(a, i) == IF a = m THEN n + i ELSE i
<1>0. N \in Nat /\ Len(b[m]) \in Nat /\ n \in Nat /\ n <= Len(b[m]) /\ m # k /\ m \in Nat /\ k \in Nat
  <2>1. N \in Nat /\ Len(b[m]) \in Nat
    BY ProxyChainAssumption, LenProperties
  <2>. QED  BY <2>1, SMTT(30)
<1>1. /\ c[k] = SubSeq(b[m], 1, n) /\ c[m] = SubSeq(b[m], n + 1, Len(b[m]))
      /\ \A a \in 0..N : a # k /\ a # m => c[a] = b[a]
      /\ DOMAIN c = 0..N
  BY <1>0
<1>. HIDE DEF c
<1>2. /\ c[k] \in Seq(Tokens) /\ Len(c[k]) = n /\ \A i \in 1..n : c[k][i] = b[m][i]
      /\ c[m] \in Seq(Tokens) /\ Len(c[m]) = Len(b[m]) - n
      /\ \A i \in 1..(Len(b[m]) - n) : c[m][i] = b[m][n + i]
  <2>1. b[m] \in [1..Len(b[m]) -> Tokens]
    BY LenProperties
  <2>2. /\ \A i \in 1..n : b[m][i] \in Tokens
        /\ \A i \in (n + 1)..Len(b[m]) : b[m][i] \in Tokens
    <3>1. \A i \in 1..n : i \in 1..Len(b[m])
      BY <1>0, SMTT(30)
    <3>2. \A i \in (n + 1)..Len(b[m]) : i \in 1..Len(b[m])
      BY <1>0, SMTT(30)
    <3>. QED  BY <2>1, <3>1, <3>2
  <2>3. 1 \in Int /\ n \in Int /\ n + 1 \in Int /\ Len(b[m]) \in Int
    BY <1>0, SMTT(30)
  <2>4. /\ SubSeq(b[m], 1, n) \in Seq(Tokens)
        /\ Len(SubSeq(b[m], 1, n)) = IF 1 <= n THEN n - 1 + 1 ELSE 0
        /\ \A i \in 1..(n - 1 + 1) : SubSeq(b[m], 1, n)[i] = b[m][1 + i - 1]
    BY <2>2, <2>3, SubSeqProperties, SMTT(30)
  <2>5. /\ SubSeq(b[m], n + 1, Len(b[m])) \in Seq(Tokens)
        /\ Len(SubSeq(b[m], n + 1, Len(b[m]))) = IF n + 1 <= Len(b[m]) THEN Len(b[m]) - (n + 1) + 1 ELSE 0
        /\ \A i \in 1..(Len(b[m]) - (n + 1) + 1) : SubSeq(b[m], n + 1, Len(b[m]))[i] = b[m][n + 1 + i - 1]
    BY <2>2, <2>3, SubSeqProperties, SMTT(30)
  <2>6. /\ (IF 1 <= n THEN n - 1 + 1 ELSE 0) = n /\ n - 1 + 1 = n
        /\ \A i \in 1..n : 1 + i - 1 = i
    BY <1>0, SMTT(30)
  <2>7. /\ (IF n + 1 <= Len(b[m]) THEN Len(b[m]) - (n + 1) + 1 ELSE 0) = Len(b[m]) - n
        /\ Len(b[m]) - (n + 1) + 1 = Len(b[m]) - n
        /\ \A i \in 1..(Len(b[m]) - n) : n + 1 + i - 1 = n + i
    BY <1>0, SMTT(30)
  <2>8. c[k] \in Seq(Tokens) /\ Len(c[k]) = n /\ \A i \in 1..n : c[k][i] = b[m][i]
    BY <1>1, <2>4, <2>6
  <2>9. /\ c[m] \in Seq(Tokens) /\ Len(c[m]) = Len(b[m]) - n
        /\ \A i \in 1..(Len(b[m]) - n) : c[m][i] = b[m][n + i]
    BY <1>1, <2>5, <2>7
  <2>. QED  BY <2>8, <2>9
<1>3. c \in [0..N -> Seq(Tokens)]
  BY <1>1, <1>2 DEF c
<1>4. ASSUME NEW a \in 0..N, NEW i \in 1..Len(c[a])
      PROVE  /\ a <= m \/ a = k
             /\ At(a) \in 0..N /\ Ix(a, i) \in 1..Len(b[At(a)]) /\ c[a][i] = b[At(a)][Ix(a, i)]
  <2>0. Len(c[k]) = n /\ Len(c[m]) = Len(b[m]) - n
    BY <1>2
  <2>1. CASE a = k
    <3>1. i \in 1..n /\ i \in 1..Len(b[m])
      BY <1>0, <2>0, <2>1, SMTT(30)
    <3>. QED  BY <1>0, <1>2, <2>1, <3>1
  <2>2. CASE a = m
    <3>1. i \in 1..(Len(b[m]) - n) /\ n + i \in 1..Len(b[m]) /\ m <= m
      BY <1>0, <2>0, <2>2, SMTT(30)
    <3>. QED  BY <1>0, <1>2, <2>2, <3>1
  <2>3. CASE a # k /\ a # m
    <3>1. c[a] = b[a]
      BY <1>1, <2>3
    <3>2. a <= m
      <4>. SUFFICES ASSUME a > m PROVE FALSE
        BY <1>0, SMTT(30)
      <4>1. c[a] = <<>>
        BY <3>1
      <4>. QED  BY <4>1, SMTT(30)
    <3>. QED  BY <2>3, <3>1, <3>2
  <2>. QED  BY <2>1, <2>2, <2>3
<1>5. Within(c, lo, hi)
  <2>. HIDE DEF At, Ix
  <2>. SUFFICES ASSUME NEW a \in 0..N, NEW i \in 1..Len(c[a]) PROVE Place(c[a][i]) \in lo..hi
    BY DEF Within
  <2>1. At(a) \in 0..N /\ Ix(a, i) \in 1..Len(b[At(a)]) /\ c[a][i] = b[At(a)][Ix(a, i)]
    BY <1>4
  <2>. QED  BY <2>1 DEF InOrder, Within
<1>6. Sorted(c)
  <2>. SUFFICES ASSUME NEW a \in 0..N, NEW l \in 0..N, NEW i \in 1..Len(c[a]), NEW j \in 1..Len(c[l]),
                       l < a \/ (l = a /\ i < j)
                PROVE  Place(c[a][i]) < Place(c[l][j])
    BY DEF Sorted
  <2>1. At(l) < At(a) \/ (At(l) = At(a) /\ Ix(a, i) < Ix(l, j))
    <3>1. (a <= m \/ a = k) /\ (l <= m \/ l = k)
      BY <1>4
    <3>2. a = k => i \in 1..n
      BY <1>2
    <3>3. a \in Nat /\ l \in Nat /\ i \in Nat /\ j \in Nat /\ j > 0
      BY <1>0, SMTT(30)
    <3>4. a = k /\ l = m => Ix(a, i) < Ix(l, j)
      BY <1>0, <3>2, <3>3, SMTT(30)
    <3>. QED  BY <1>0, <3>1, <3>3, <3>4, SMTT(20)
  <2>. HIDE DEF At, Ix
  <2>2. /\ At(a) \in 0..N /\ Ix(a, i) \in 1..Len(b[At(a)]) /\ c[a][i] = b[At(a)][Ix(a, i)]
        /\ At(l) \in 0..N /\ Ix(l, j) \in 1..Len(b[At(l)]) /\ c[l][j] = b[At(l)][Ix(l, j)]
    BY <1>4
  <2>3. Place(b[At(a)][Ix(a, i)]) < Place(b[At(l)][Ix(l, j)])
    BY <2>1, <2>2 DEF InOrder, Sorted
  <2>. QED  BY <2>2, <2>3
<1>7. Complete(c, lo, hi)
  <2>. SUFFICES ASSUME NEW p \in lo..hi
                PROVE  \E a \in 0..N : \E i \in 1..Len(c[a]) : Place(c[a][i]) = p
    BY DEF Complete
  <2>1. PICK a \in 0..N : \E i \in 1..Len(b[a]) : Place(b[a][i]) = p
    BY DEF InOrder, Complete
  <2>2. PICK i \in 1..Len(b[a]) : Place(b[a][i]) = p
    BY <2>1
  <2>3. CASE a = m /\ i <= n
    <3>1. i \in 1..n
      BY <1>0, <2>3, SMTT(30)
    <3>. QED  BY <1>2, <2>2, <2>3, <3>1
  <2>4. CASE a = m /\ ~(i <= n)
    <3>1. i - n \in 1..(Len(b[m]) - n) /\ n + (i - n) = i
      BY <1>0, <2>4, SMTT(30)
    <3>2. c[m][i - n] = b[m][i]
      BY <1>2, <3>1
    <3>. QED  BY <1>2, <2>2, <2>4, <3>1, <3>2
  <2>5. CASE a # m
    <3>1. a # k
      <4>. SUFFICES ASSUME a = k PROVE FALSE
        OBVIOUS
      <4>1. b[k] = <<>>
        BY <1>0, SMTT(30)
      <4>. QED  BY <2>2, <4>1, SMTT(30)
    <3>. QED  BY <1>1, <2>2, <2>5, <3>1
  <2>. QED  BY <2>3, <2>4, <2>5
<1>8. Held(c) \subseteq Held(b)
  <2>. HIDE DEF At, Ix
  <2>. SUFFICES ASSUME NEW t \in Held(c) PROVE t \in Held(b)
    OBVIOUS
  <2>1. t \in Tokens /\ \E a \in 0..N : \E i \in 1..Len(c[a]) : c[a][i] = t
    BY DEF Held
  <2>2. PICK a \in 0..N : \E i \in 1..Len(c[a]) : c[a][i] = t
    BY <2>1
  <2>. PICK i \in 1..Len(c[a]) : c[a][i] = t
    BY <2>2
  <2>3. At(a) \in 0..N /\ Ix(a, i) \in 1..Len(b[At(a)]) /\ b[At(a)][Ix(a, i)] = t
    BY <1>4, <2>2
  <2>. QED  BY <2>1, <2>3 DEF Held
<1>9. InOrder(c, lo, hi)
  BY <1>5, <1>6, <1>7 DEF InOrder
<1>. QED  BY <1>3, <1>8, <1>9 DEF c

(* A set of hops that is not empty has a last one: the initial segments of  *)
(* the naturals that cover it have a smallest.                              *)
LEMMA LastOf ==
  ASSUME NEW n \in Nat, NEW S \in SUBSET (1..n), S # {}
  PROVE  \E j \in S : \A i \in S : i <= j
<1>. DEFINE B == {m \in Nat : S \subseteq 0..m}
            R == StrictSubsetOrdering(Nat)
            Segments == {0..m : m \in B}
<1>1. Segments \subseteq FiniteSubsetsOf(Nat)
  <2>. SUFFICES ASSUME NEW m \in Nat PROVE 0..m \in SUBSET Nat /\ IsFiniteSet(0..m)
    BY DEF FiniteSubsetsOf
  <2>1. 0 \in Int /\ m \in Int /\ 0..m \in SUBSET Nat
    BY SMTT(30)
  <2>. QED  BY <2>1, FS_Interval
<1>2. Segments # {}
  <2>1. S \subseteq 0..n
    BY SMTT(30)
  <2>. QED  BY <2>1
<1>3. PICK x \in Segments : \A y \in Segments : ~(<<y, x>> \in R)
  <2>. HIDE DEF Segments, R
  <2>1. IsWellFoundedOn(R, FiniteSubsetsOf(Nat))
    BY FS_StrictSubsetOrderingWellFounded DEF R
  <2>. QED  BY <1>1, <1>2, <2>1, WFMin
<1>4. PICK m \in B : x = 0..m
  OBVIOUS
<1>5. \A i \in S : i \in 0..m /\ i \in 1..n
  BY <1>4
<1>6. m \in S
  <2>. SUFFICES ASSUME m \notin S PROVE FALSE
    OBVIOUS
  <2>1. m # 0 /\ m - 1 \in Nat /\ S \subseteq 0..(m - 1)
    <3>1. PICK i \in S : TRUE
      OBVIOUS
    <3>2. m # 0
      BY <1>4, <1>5, <3>1, SMTT(30)
    <3>3. ASSUME NEW j \in S PROVE j \in 0..(m - 1)
      <4>1. j # m /\ j \in 0..m
        BY <1>5
      <4>. QED  BY <1>4, <4>1, SMTT(30)
    <3>4. m - 1 \in Nat
      BY <1>4, <3>2, SMTT(30)
    <3>. QED  BY <3>2, <3>3, <3>4
  <2>2. 0..(m - 1) \in Segments
    BY <2>1
  <2>3. 0..(m - 1) \subseteq 0..m /\ 0..(m - 1) # 0..m /\ 0..m \in SUBSET Nat
    BY <1>4, <2>1, SMTT(30)
  <2>4. <<0..(m - 1), 0..m>> \in R
    <3>1. ASSUME NEW X \in SUBSET Nat, NEW Y \in SUBSET Nat, X \subseteq Y, X # Y
          PROVE  <<X, Y>> \in R
      <4>1. <<X, Y>> \in (SUBSET Nat) \X (SUBSET Nat) /\ <<X, Y>>[1] = X /\ <<X, Y>>[2] = Y
        OBVIOUS
      <4>. QED  BY <3>1, <4>1 DEF StrictSubsetOrdering
    <3>. HIDE DEF R, Segments, B
    <3>2. 0..(m - 1) \in SUBSET Nat
      BY <2>3
    <3>. QED  BY <2>3, <3>1, <3>2
  <2>. QED  BY <1>3, <1>4, <2>2, <2>4
<1>7. \A i \in S : i <= m
  BY <1>4, <1>5, SMTT(30)
<1>. QED  BY <1>6, <1>7

(* The layer below a hop is the last HTTP hop under it, or the transport.   *)
LEMMA BelowIsLast ==
  ASSUME scheme \in [Hops -> Schemes], NEW k \in 1..(N + 1)
  PROVE  /\ Below(k) \in 0..N /\ Below(k) < k
         /\ Below(k) # 0 => Below(k) \in Hops /\ scheme[Below(k)] = "http"
         /\ \A j \in Hops : Below(k) < j /\ j < k => scheme[j] # "http"
<1>0. N \in Nat /\ k \in Nat /\ k > 0 /\ k <= N + 1 /\ k - 1 \in Nat
  <2>1. N \in Nat
    BY ProxyChainAssumption
  <2>. QED  BY <2>1, SMTT(30)
<1>1. HTTPBelow(k) \in SUBSET (1..(k - 1)) /\ \A j \in HTTPBelow(k) : scheme[j] = "http"
  BY DEF HTTPBelow
<1>2. ASSUME NEW j \in Hops, j < k, scheme[j] = "http" PROVE j \in HTTPBelow(k)
  <2>1. j \in 1..(k - 1)
    BY <1>0, <1>2, SMTT(30) DEF Hops
  <2>. QED  BY <1>2, <2>1 DEF HTTPBelow
<1>3. CASE HTTPBelow(k) = {}
  <2>1. Below(k) = 0
    BY <1>3 DEF Below
  <2>2. 0 \in 0..N /\ 0 < k
    BY <1>0, SMTT(30)
  <2>. QED  BY <1>2, <1>3, <2>1, <2>2
<1>4. CASE HTTPBelow(k) # {}
  <2>1. \E j \in HTTPBelow(k) : \A i \in HTTPBelow(k) : i <= j
    BY <1>0, <1>1, <1>4, LastOf
  <2>2. Below(k) \in HTTPBelow(k) /\ \A i \in HTTPBelow(k) : i <= Below(k)
    <3>. HIDE DEF HTTPBelow
    <3>1. Below(k) = CHOOSE j \in HTTPBelow(k) : \A i \in HTTPBelow(k) : i <= j
      BY <1>4 DEF Below
    <3>. QED  BY <2>1, <3>1
  <2>3. Below(k) \in 1..(k - 1) /\ scheme[Below(k)] = "http"
    BY <1>1, <2>2
  <2>4. Below(k) \in 0..N /\ Below(k) < k /\ Below(k) \in Hops
    BY <1>0, <2>3, SMTT(30) DEF Hops
  <2>5. ASSUME NEW j \in Hops, Below(k) < j, j < k PROVE scheme[j] # "http"
    <3>. SUFFICES ASSUME scheme[j] = "http" PROVE FALSE
      OBVIOUS
    <3>1. j <= Below(k)
      BY <1>2, <2>2, <2>5
    <3>. QED  BY <1>0, <2>4, <2>5, <3>1, SMTT(30) DEF Hops
  <2>. QED  BY <2>3, <2>4, <2>5
<1>. QED  BY <1>3, <1>4

(* When the last hop's tunnel is up, the relay reads where that hop read.   *)
LEMMA TopLayer ==
  ASSUME scheme \in [Hops -> Schemes]
  PROVE  Below(N + 1) = IF scheme[N] = "http" THEN N ELSE Below(N)
<1>0. N \in Nat /\ N > 0 /\ N \in Hops /\ N \in 1..(N + 1) /\ N + 1 \in 1..(N + 1)
  <2>1. N \in Nat \ {0}
    BY ProxyChainAssumption
  <2>. QED  BY <2>1, SMTT(30) DEF Hops
<1>. DEFINE x == Below(N + 1)
            y == Below(N)
<1>1. /\ x \in 0..N
      /\ x # 0 => x \in Hops /\ scheme[x] = "http"
      /\ \A j \in Hops : x < j /\ j < N + 1 => scheme[j] # "http"
  BY <1>0, BelowIsLast
<1>2. /\ y \in 0..N /\ y < N
      /\ y # 0 => y \in Hops /\ scheme[y] = "http"
      /\ \A j \in Hops : y < j /\ j < N => scheme[j] # "http"
  BY <1>0, BelowIsLast
<1>. HIDE DEF x, y
<1>3. CASE scheme[N] = "http"
  <2>1. ~(x < N /\ N < N + 1)
    BY <1>0, <1>1, <1>3
  <2>2. x = N
    BY <1>0, <1>1, <2>1, SMTT(30)
  <2>. QED  BY <1>3, <2>2 DEF x
<1>4. CASE scheme[N] # "http"
  <2>1. x # N
    BY <1>0, <1>1, <1>4, SMTT(30)
  <2>2. ~(y < x)
    <3>. SUFFICES ASSUME y < x PROVE FALSE
      OBVIOUS
    <3>1. x # 0 /\ x < N
      BY <1>0, <1>1, <1>2, <2>1, SMTT(30)
    <3>. QED  BY <1>1, <1>2, <3>1
  <2>3. ~(x < y)
    <3>. SUFFICES ASSUME x < y PROVE FALSE
      OBVIOUS
    <3>1. y # 0 /\ y < N + 1
      BY <1>0, <1>1, <1>2, SMTT(30)
    <3>. QED  BY <1>1, <1>2, <3>1
  <2>4. x = y
    BY <1>0, <1>1, <1>2, <2>2, <2>3, SMTT(30)
  <2>. QED  BY <1>4, <2>4 DEF x, y
<1>. QED  BY <1>3, <1>4

(* Appending the two parts of an answer is appending the answer.            *)
LEMMA BothAppended ==
  ASSUME NEW q \in Seq(Tokens), NEW t \in Tokens, NEW u \in Tokens
  PROVE  Append(Append(q, t), u) = q \o <<t, u>>
<1>. DEFINE a == Append(Append(q, t), u)
            c == q \o <<t, u>>
            n == Len(q)
<1>1. n \in Nat
  BY LenProperties
<1>2. /\ Append(q, t) \in Seq(Tokens) /\ Len(Append(q, t)) = n + 1
      /\ (\A i \in 1..n : Append(q, t)[i] = q[i]) /\ Append(q, t)[n + 1] = t
  BY AppendProperties, SMTT(30)
<1>3. /\ a \in Seq(Tokens) /\ Len(a) = (n + 1) + 1
      /\ (\A i \in 1..(n + 1) : a[i] = Append(q, t)[i]) /\ a[(n + 1) + 1] = u
  BY <1>2, AppendProperties, SMTT(30)
<1>4. <<t, u>> \in Seq(Tokens) /\ Len(<<t, u>>) = 2 /\ <<t, u>>[1] = t /\ <<t, u>>[2] = u
  BY SMTT(30)
<1>5. /\ c \in Seq(Tokens) /\ Len(c) = n + 2
      /\ (\A i \in 1..n : c[i] = q[i]) /\ c[n + 1] = t /\ c[(n + 1) + 1] = u
  BY <1>1, <1>4, ConcatProperties, SMTT(30)
<1>. HIDE DEF a, c, n
<1>6. (n + 1) + 1 = n + 2 /\ n + 1 \in 1..(n + 1)
  BY <1>1, SMTT(30)
<1>7. ASSUME NEW i \in 1..Len(a) PROVE a[i] = c[i]
  <2>1. i \in 1..n \/ i = n + 1 \/ i = (n + 1) + 1
    BY <1>1, <1>3, SMTT(30)
  <2>2. ASSUME i \in 1..n PROVE i \in 1..(n + 1)
    BY <1>1, <2>2, SMTT(30)
  <2>. QED  BY <1>2, <1>3, <1>5, <1>6, <2>1, <2>2
<1>8. a = c
  BY <1>3, <1>5, <1>6, <1>7, SeqEqual
<1>. QED  BY <1>8 DEF a, c

(* They arrive together.                                                    *)
LEMMA BothArriveInOrder ==
  ASSUME NEW b \in [0..N -> Seq(Tokens)], InOrder(b, 1, 0),
         NEW t \in Tokens, NEW u \in Tokens, Place(t) = 1, Place(u) = 2
  PROVE  LET c == [b EXCEPT ![0] = @ \o <<t, u>>]
         IN  c \in [0..N -> Seq(Tokens)] /\ InOrder(c, 1, 2) /\ Held(c) \subseteq Held(b) \cup {t, u}
<1>. DEFINE c == [b EXCEPT ![0] = Append(@, t)]
            d == [c EXCEPT ![0] = Append(@, u)]
<1>0. /\ 1 \in Nat /\ 0 \in Nat /\ 0 + 1 = 1 /\ 1 <= 0 + 1 /\ 1 + 1 = 2 /\ 1 <= 1 + 1
      /\ 0 \in 0..N
  BY ProxyChainAssumption, SMTT(30)
<1>1. c \in [0..N -> Seq(Tokens)] /\ InOrder(c, 1, 1) /\ Held(c) \subseteq Held(b) \cup {t}
  <2>1. c \in [0..N -> Seq(Tokens)] /\ InOrder(c, 1, 0 + 1) /\ Held(c) \subseteq Held(b) \cup {t}
    <3>1. Place(t) = 0 + 1
      BY <1>0
    <3>. QED  BY <1>0, <3>1, ArriveInOrder
  <2>. QED  BY <1>0, <2>1
<1>. HIDE DEF c
<1>2. d \in [0..N -> Seq(Tokens)] /\ InOrder(d, 1, 2) /\ Held(d) \subseteq Held(c) \cup {u}
  <2>1. d \in [0..N -> Seq(Tokens)] /\ InOrder(d, 1, 1 + 1) /\ Held(d) \subseteq Held(c) \cup {u}
    <3>1. Place(u) = 1 + 1
      BY <1>0
    <3>. QED  BY <1>0, <1>1, <3>1, ArriveInOrder
  <2>. QED  BY <1>0, <2>1
<1>3. Append(Append(b[0], t), u) = b[0] \o <<t, u>>
  BY <1>0, BothAppended
<1>4. d = [b EXCEPT ![0] = @ \o <<t, u>>]
  <2>1. c = [b EXCEPT ![0] = Append(b[0], t)] /\ c[0] = Append(b[0], t)
    BY <1>0 DEF c
  <2>2. d = [b EXCEPT ![0] = Append(c[0], u)]
    BY <1>0, <2>1
  <2>. QED  BY <1>3, <2>1, <2>2
<1>. QED  BY <1>1, <1>2, <1>4

(* Layers that hold no place hold nothing.                                  *)
LEMMA NothingHeld ==
  ASSUME NEW b \in [0..N -> Seq(Tokens)], NEW lo \in Nat, NEW hi \in Nat, hi < lo, InOrder(b, lo, hi)
  PROVE  Held(b) = {} /\ (\A k \in 0..N : b[k] = <<>>) /\ InOrder(b, 1, 0)
<1>1. lo..hi = {} /\ 1..0 = {}
  BY SMTT(30)
<1>2. \A k \in 0..N : \A i \in 1..Len(b[k]) : FALSE
  BY <1>1 DEF InOrder, Within
<1>3. ASSUME NEW k \in 0..N PROVE b[k] = <<>>
  <2>. SUFFICES ASSUME b[k] # <<>> PROVE FALSE
    OBVIOUS
  <2>1. 1 \in 1..Len(b[k])
    BY HeadIsThere
  <2>. QED  BY <1>2, <2>1
<1>4. InOrder(b, 1, 0)
  BY <1>1, <1>2 DEF InOrder, Within, Sorted, Complete
<1>. QED  BY <1>2, <1>3, <1>4 DEF Held
-----------------------------------------------------------------------------
(* The inductive invariant.                                                *)

\* What the buffers hold while a hop waits: nothing before its answer, then
\* the answer and what the destination has said since, without what was read.
StreamOK ==
  \/ pc = "failed"
  \/ pc \in {"dial", "begin", "method", "auth", "head", "line"} /\ ~reached /\ InOrder(buf, 1, 0)
  \/ pc \in {"method", "auth"} /\ ~reached /\ asked = "nothing" /\ InOrder(buf, 1, 1)
  \/ pc \in {"head", "line"} /\ asked = "nothing" /\ InOrder(buf, 1, said + 2)
  \/ pc \in {"addr", "header"} /\ asked = "nothing" /\ InOrder(buf, 2, said + 2)
  \/ pc = "up" /\ asked = "nothing" /\ Len(heard) <= said /\ InOrder(buf, Len(heard) + 3, said + 2)

\* Only HTTP hops read ahead, none above the layer that is read from.
TidyOK ==
  pc # "failed" => \A k \in 0..N : buf[k] # <<>> => k <= Source /\ (k = 0 \/ scheme[k] = "http")

\* What may be held: what the hop is to read, and no refusal that the dial
\* may meet without a proxy having refused.
Expected ==
  CASE pc = "method" -> {"method"}
    [] pc = "auth" -> {"auth"}
    [] pc = "head" -> {"head", "addr", "data"}
    [] pc = "addr" -> {"addr", "data"}
    [] pc = "line" -> {"line", "header", "data"}
    [] pc = "header" -> {"header", "data"}
    [] OTHER -> {"data"}
Excused(t) ==
  t.value = "ok" \/ refused \/ (t.what = "method" /\ t.value = "userpass" /\ auth[hop] = "short")
ProperOK == pc # "failed" => \A t \in Held(buf) : t.what \in Expected /\ Excused(t)

Stage(message) ==
  CASE message = "greeting" -> "method"
    [] message = "credentials" -> "auth"
    [] message = "request" -> "head"
    [] message = "connect" -> "line"
HopsOK ==
  /\ pc # "failed" /\ asked # "nothing" => pc = Stage(asked)
  /\ pc # "up" => heard = <<>>
  /\ ~reached => said = 0
  /\ reached => hop = N
  /\ pc \in {"method", "auth", "head", "addr"} => scheme[hop] = "socks5"

ConnOK ==
  /\ pc = "dial" => conn = "none"
  /\ pc = "failed" => conn \in {"none", "closed"}
  /\ pc \in Stages \cup {"begin", "up"} => conn \in {"open", "broken"}
  /\ pc # "failed" => (deadline <=> pc \in Stages)

IInv == TypeOK /\ StreamOK /\ TidyOK /\ ProperOK /\ HopsOK /\ ConnOK
-----------------------------------------------------------------------------
(* Layers and tokens.                                                      *)

(* Every read is served from some layer.                                    *)
LEMMA SourceIsLayer ==
  ASSUME TypeOK
  PROVE  /\ Source \in 0..N /\ N \in Nat /\ 0 <= Source
         /\ hop \in 1..(N + 1) /\ \A k \in Hops : k \in 0..N /\ k \in 1..(N + 1)
<1>1. scheme \in [Hops -> Schemes] /\ hop \in Hops
  BY DEF TypeOK
<1>2. N \in Nat /\ N + 1 \in 1..(N + 1) /\ \A k \in Hops : k \in 0..N /\ k \in 1..(N + 1)
  BY ProxyChainAssumption, SMTT(30) DEF Hops
<1>3. Source \in 0..N
  BY <1>1, <1>2, BelowIsLast DEF Source
<1>4. 0 <= Source
  BY <1>2, <1>3, SMTT(30)
<1>. QED  BY <1>1, <1>2, <1>3, <1>4

(* The chain does not change, and a hop reads from where it read.           *)
LEMMA SameSource ==
  ASSUME UNCHANGED <<scheme, hop>>
  PROVE  /\ Below(N + 1)' = Below(N + 1)
         /\ (pc = "up" <=> pc' = "up") => Source' = Source
<1>. DEFINE HTTPUnder(f, k) == {j \in 1..(k - 1) : f[j] = "http"}
            LastIn(S) == IF S = {} THEN 0 ELSE CHOOSE j \in S : \A i \in S : i <= j
            Under(f, k) == LastIn(HTTPUnder(f, k))
<1>1. scheme' = scheme /\ hop' = hop
  OBVIOUS
<1>2. Below(N + 1) = Under(scheme, N + 1) /\ Below(N + 1)' = Under(scheme', N + 1)
  BY DEF Below, HTTPBelow
<1>3. Below(hop) = Under(scheme, hop) /\ Below(hop)' = Under(scheme', hop')
  BY DEF Below, HTTPBelow
<1>. HIDE DEF Under
<1>4. Below(N + 1)' = Below(N + 1) /\ Below(hop)' = Below(hop)
  BY <1>1, <1>2, <1>3
<1>. QED  BY <1>1, <1>4 DEF Source

(* The tokens that proxies answer with.                                     *)
LEMMA AnswerTokens ==
  \A w \in Stages, v \in Values :
    Token(w, v) \in Tokens /\ Token(w, v).what = w /\ Token(w, v).value = v
BY SMTT(30) DEF Token, Tokens, Answers, Stages, Values

(* The tokens of what the destination sends, numbered from 1.               *)
LEMMA DataTokens ==
  /\ \A n \in 1..MaxChunks :
       LET t == [what |-> "data", value |-> "ok", chunk |-> n]
       IN  t \in Tokens /\ t.what = "data" /\ t.value = "ok" /\ t.chunk = n
  /\ \A t \in Tokens : t.what = "data" => t.chunk \in 1..MaxChunks
<1>1. \A n \in 1..MaxChunks :
        LET t == [what |-> "data", value |-> "ok", chunk |-> n]
        IN  t \in Tokens /\ t.what = "data" /\ t.value = "ok" /\ t.chunk = n
  BY SMTT(30) DEF Tokens, Chunks
<1>2. \A t \in Tokens : t.what = "data" => t.chunk \in 1..MaxChunks
  BY SMTT(30) DEF Tokens, Chunks, Answers, Stages
<1>. QED  BY <1>1, <1>2

(* A read takes what comes next.                                            *)
LEMMA ReadStep ==
  ASSUME TypeOK, TidyOK, pc # "failed", Readable(Source), buf' = [buf EXCEPT ![Source] = Tail(@)],
         NEW lo \in Nat, NEW hi \in Nat, InOrder(buf, lo, hi)
  PROVE  /\ lo <= hi /\ Place(Arrived) = lo /\ Arrived \in Held(buf)
         /\ buf' \in [0..N -> Seq(Tokens)] /\ InOrder(buf', lo + 1, hi) /\ Held(buf') \subseteq Held(buf)
         /\ \A k \in 0..N : buf'[k] # <<>> => buf[k] # <<>>
<1>. DEFINE s == Source
<1>1. s \in 0..N /\ N \in Nat /\ buf \in [0..N -> Seq(Tokens)] /\ buf[s] # <<>>
  BY SourceIsLayer DEF TypeOK, Readable
<1>2. buf' = [buf EXCEPT ![s] = Tail(@)] /\ Arrived = Head(buf[s])
  BY DEF Arrived
<1>3. \A k \in 0..N : buf[k] # <<>> => k <= s
  BY DEF TidyOK
<1>. HIDE DEF s
<1>4. \A k \in 0..N : k > s => ~(k <= s)
  BY <1>1, SMTT(30)
<1>5. \A k \in 0..N : k > s => buf[k] = <<>>
  BY <1>3, <1>4
<1>6. lo <= hi /\ Place(Arrived) = lo
  BY <1>1, <1>2, <1>5, HeadIsFirst
<1>7. buf' \in [0..N -> Seq(Tokens)] /\ InOrder(buf', lo + 1, hi) /\ Held(buf') \subseteq Held(buf)
  <2>. DEFINE c == [buf EXCEPT ![s] = Tail(@)]
  <2>1. c \in [0..N -> Seq(Tokens)] /\ InOrder(c, lo + 1, hi) /\ Held(c) \subseteq Held(buf)
    BY <1>1, <1>5, ReadInOrder
  <2>2. buf' = c
    BY <1>2
  <2>. HIDE DEF c
  <2>. QED  BY <2>1, <2>2
<1>8. Arrived \in Held(buf)
  <2>1. buf[s] \in Seq(Tokens)
    BY <1>1
  <2>2. 1 \in 1..Len(buf[s]) /\ Head(buf[s]) = buf[s][1] /\ buf[s][1] \in Tokens
    BY <1>1, <2>1, HeadIsThere
  <2>. QED  BY <1>1, <1>2, <2>2 DEF Held
<1>9. \A k \in 0..N : buf'[k] # <<>> => buf[k] # <<>>
  BY <1>1, <1>2
<1>. QED  BY <1>6, <1>7, <1>8, <1>9
-----------------------------------------------------------------------------
(* What each step does.                                                    *)

(* A dial that fails after the connection was made closes it, at any hop.   *)
LEMMA ThrowInv ==
  ASSUME IInv, Throw, pc \notin {"up", "failed"}, buf' \in [0..N -> Seq(Tokens)],
         UNCHANGED <<chainVars, hop, deadline, expired, asked, refused, destVars>>
  PROVE  IInv'
<1>1. TypeOK'
  BY DEF IInv, TypeOK, Throw, chainVars, destVars
<1>2. StreamOK' /\ TidyOK' /\ ProperOK'
  BY DEF Throw, StreamOK, TidyOK, ProperOK
<1>3. HopsOK'
  BY DEF IInv, HopsOK, Throw, chainVars, destVars
<1>4. ConnOK'
  BY DEF ConnOK, Throw, Stages
<1>. QED  BY <1>1, <1>2, <1>3, <1>4 DEF IInv

(* A hop that has sent a message waits with empty layers.                   *)
LEMMA WriteInv ==
  ASSUME IInv, pc \in Stages \cup {"begin"}, ~reached,
         NEW m \in {"greeting", "credentials", "request", "connect"},
         m # "connect" => scheme[hop] = "socks5",
         asked' \in {"nothing", m}, pc' = Stage(m), deadline' = TRUE,
         buf' \in [0..N -> Seq(Tokens)], InOrder(buf', 1, 0),
         UNCHANGED <<chainVars, hop, conn, expired, refused, destVars>>
  PROVE  IInv'
<1>1. pc' \in {"method", "auth", "head", "line"} /\ pc' \in Stages /\ pc' # "up" /\ pc # "up" /\ pc # "failed"
  BY DEF Stage, Stages
<1>2. TypeOK'
  BY <1>1 DEF IInv, TypeOK, chainVars, destVars
<1>3. Held(buf') = {} /\ \A k \in 0..N : buf'[k] = <<>>
  <2>1. 1 \in Nat /\ 0 \in Nat /\ 0 < 1
    BY SMTT(30)
  <2>. QED  BY <2>1, NothingHeld
<1>4. StreamOK'
  BY <1>1 DEF StreamOK, destVars
<1>5. TidyOK' /\ ProperOK'
  BY <1>3 DEF TidyOK, ProperOK
<1>6. HopsOK'
  BY <1>1 DEF IInv, HopsOK, Stage, chainVars, destVars
<1>7. ConnOK'
  BY <1>1 DEF IInv, ConnOK, Stages
<1>. QED  BY <1>2, <1>4, <1>5, <1>6, <1>7 DEF IInv

(* A step that at most breaks the connection or ends the context.           *)
LEMMA SameInv ==
  ASSUME IInv, expired' \in BOOLEAN, UNCHANGED conn \/ (conn = "open" /\ conn' = "broken"),
         UNCHANGED <<scheme, auth, hop, pc, deadline, asked, refused, buf, reached, said, heard>>
  PROVE  IInv'
<1>1. conn' \in {"none", "open", "broken", "closed"}
  BY DEF IInv, TypeOK
<1>2. TypeOK'
  BY <1>1 DEF IInv, TypeOK
<1>3. StreamOK' /\ HopsOK'
  BY DEF IInv, StreamOK, HopsOK
<1>4. TidyOK'
  <2>1. Source' = Source
    BY SameSource
  <2>. QED  BY <2>1 DEF IInv, TidyOK
<1>5. ProperOK'
  BY DEF IInv, ProperOK, Expected, Excused
<1>6. ConnOK'
  BY DEF IInv, ConnOK
<1>. QED  BY <1>2, <1>3, <1>4, <1>5, <1>6 DEF IInv

(* The dial of the transport connection, the end of its context, and the    *)
(* connection breaking.                                                     *)
LEMMA DialInv ==
  ASSUME IInv, Dialed \/ DialFails \/ Expire \/ Breaks
  PROVE  IInv'
<1>1. CASE Dialed
  <2>1. TypeOK'
    BY <1>1 DEF IInv, TypeOK, Dialed, chainVars, destVars
  <2>2. StreamOK'
    BY <1>1 DEF IInv, StreamOK, Dialed, destVars
  <2>3. TidyOK' /\ ProperOK'
    <3>1. ~reached /\ InOrder(buf, 1, 0) /\ buf' = buf
      BY <1>1 DEF IInv, StreamOK, Dialed, destVars
    <3>2. buf \in [0..N -> Seq(Tokens)] /\ 1 \in Nat /\ 0 \in Nat /\ 0 < 1
      BY SMTT(30) DEF IInv, TypeOK
    <3>3. Held(buf') = {} /\ \A k \in 0..N : buf'[k] = <<>>
      BY <3>1, <3>2, NothingHeld
    <3>. QED  BY <3>3 DEF TidyOK, ProperOK
  <2>4. HopsOK'
    BY <1>1 DEF IInv, HopsOK, TypeOK, Dialed, Stage, chainVars, destVars
  <2>5. ConnOK'
    BY <1>1 DEF IInv, ConnOK, Dialed, Stages
  <2>. QED  BY <2>1, <2>2, <2>3, <2>4, <2>5 DEF IInv
<1>2. CASE DialFails
  <2>1. TypeOK'
    BY <1>2 DEF IInv, TypeOK, DialFails, chainVars, destVars
  <2>2. StreamOK' /\ TidyOK' /\ ProperOK'
    BY <1>2 DEF StreamOK, TidyOK, ProperOK, DialFails
  <2>3. HopsOK'
    BY <1>2 DEF IInv, HopsOK, DialFails, chainVars, destVars
  <2>4. ConnOK'
    BY <1>2 DEF IInv, ConnOK, DialFails, Stages
  <2>. QED  BY <2>1, <2>2, <2>3, <2>4 DEF IInv
<1>3. CASE Expire \/ Breaks
  BY <1>3, SameInv DEF IInv, TypeOK, Expire, Breaks, chainVars, destVars
<1>. QED  BY <1>1, <1>2, <1>3

(* A read or write that fails.                                              *)
LEMMA IOFailsInv ==
  ASSUME IInv, IOFails
  PROVE  IInv'
<1>1. buf' \in [0..N -> Seq(Tokens)] /\ pc \notin {"up", "failed"}
  BY DEF IInv, TypeOK, IOFails, Stages
<1>. QED  BY <1>1, ThrowInv DEF IOFails

(* The first message of a hop.                                              *)
LEMMA BeginInv ==
  ASSUME IInv, Begin
  PROVE  IInv'
<1>1. pc = "begin" /\ ~reached /\ InOrder(buf, 1, 0) /\ buf' = buf /\ buf \in [0..N -> Seq(Tokens)]
  BY DEF IInv, StreamOK, TypeOK, Begin
<1>2. PICK m \in {"greeting", "connect"} :
        /\ asked' \in {"nothing", m} /\ pc' = Stage(m) /\ UNCHANGED conn
        /\ m # "connect" => scheme[hop] = "socks5"
  <2>1. scheme[hop] = "http" \/ scheme[hop] = "socks5"
    BY DEF IInv, TypeOK, Schemes
  <2>2. CASE scheme[hop] = "http"
    BY <2>2 DEF Begin, Write, Stage
  <2>3. CASE scheme[hop] = "socks5"
    BY <2>3 DEF Begin, Write, Stage
  <2>. QED  BY <2>1, <2>2, <2>3
<1>3. deadline' = TRUE /\ UNCHANGED <<chainVars, hop, conn, expired, refused, destVars>>
  BY <1>2 DEF Begin
<1>4. InOrder(buf', 1, 0) /\ buf' \in [0..N -> Seq(Tokens)]
  BY <1>1
<1>. QED  BY <1>1, <1>2, <1>3, <1>4, WriteInv

(* What the reads of a method and of an authentication reply have found.    *)
LEMMA ReadOnly ==
  ASSUME IInv, NEW stage \in {"method", "auth"}, Reads(stage)
  PROVE  /\ pc = stage /\ ~reached /\ deadline
         /\ buf' \in [0..N -> Seq(Tokens)] /\ InOrder(buf', 1, 0)
         /\ Arrived.what = stage /\ Excused(Arrived)
<1>1. /\ TypeOK /\ TidyOK /\ pc # "failed" /\ Readable(Source) /\ pc = stage
      /\ buf' = [buf EXCEPT ![Source] = Tail(@)]
  BY DEF IInv, Reads
<1>2. 0 \in Nat /\ 1 \in Nat /\ 1 + 1 \in Nat /\ 1 < 1 + 1 /\ ~(1 <= 0)
  BY SMTT(30)
<1>3. ~InOrder(buf, 1, 0)
  BY <1>1, <1>2, ReadStep
<1>4. ~reached /\ InOrder(buf, 1, 1)
  BY <1>1, <1>3 DEF IInv, StreamOK
<1>5. Arrived \in Held(buf) /\ buf' \in [0..N -> Seq(Tokens)] /\ InOrder(buf', 1 + 1, 1)
  BY <1>1, <1>2, <1>4, ReadStep
<1>6. InOrder(buf', 1, 0)
  BY <1>2, <1>5, NothingHeld
<1>7. Arrived.what = stage /\ Excused(Arrived)
  BY <1>1, <1>5 DEF IInv, ProperOK, Expected
<1>8. deadline
  BY <1>1 DEF IInv, ConnOK, Stages
<1>. QED  BY <1>1, <1>4, <1>5, <1>6, <1>7, <1>8

(* The request that follows, or its failure.                                *)
LEMMA RequestInv ==
  ASSUME IInv, NEW stage \in {"method", "auth"}, Reads(stage), UNCHANGED <<hop, deadline>>,
         Request \/ Write("credentials", "auth") \/ (Throw /\ UNCHANGED asked)
  PROVE  IInv'
<1>1. /\ pc = stage /\ ~reached /\ deadline
      /\ buf' \in [0..N -> Seq(Tokens)] /\ InOrder(buf', 1, 0)
  BY ReadOnly
<1>2. UNCHANGED <<chainVars, hop, deadline, expired, refused, destVars>>
  BY DEF Reads
<1>3. CASE Throw /\ UNCHANGED asked
  BY <1>1, <1>2, <1>3, ThrowInv
<1>4. CASE Write("request", "head") \/ Write("credentials", "auth")
  <2>1. PICK m \in {"request", "credentials"} : asked' \in {"nothing", m} /\ pc' = Stage(m) /\ UNCHANGED conn
    BY <1>4 DEF Write, Stage
  <2>2. pc \in Stages /\ deadline' = TRUE /\ scheme[hop] = "socks5"
    BY <1>1, <1>2 DEF Stages, IInv, TypeOK, HopsOK
  <2>. QED  BY <1>1, <1>2, <2>1, <2>2, WriteInv
<1>. QED  BY <1>3, <1>4 DEF Request

(* What is held has a place.                                                *)
LEMMA HeldPlaces ==
  ASSUME NEW b, NEW lo, NEW hi, InOrder(b, lo, hi), NEW t \in Held(b)
  PROVE  Place(t) \in lo..hi
BY DEF Held, InOrder, Within

(* The first part of a reply: the rest is still to be read.                 *)
LEMMA CheckInv ==
  ASSUME IInv, ReadHead \/ ReadLine
  PROVE  IInv' /\ Excused(Arrived) /\ Arrived.what # "method"
<1>1. PICK stage \in {"head", "line"}, next \in {"addr", "header"} :
        Check(stage, next) /\ (stage = "head" <=> next = "addr")
  BY DEF ReadHead, ReadLine
<1>2. /\ TypeOK /\ TidyOK /\ pc # "failed" /\ Readable(Source) /\ pc = stage
      /\ buf' = [buf EXCEPT ![Source] = Tail(@)]
      /\ UNCHANGED <<chainVars, hop, deadline, expired, asked, refused, destVars>>
  BY <1>1 DEF IInv, Check, Reads
<1>3. said \in Nat /\ said + 2 \in Nat /\ 0 \in Nat /\ 1 \in Nat /\ 1 + 1 = 2 /\ ~(1 <= 0)
  <2>1. said \in 0..MaxChunks /\ MaxChunks \in Nat
    BY <1>2, ProxyChainAssumption DEF TypeOK
  <2>. QED  BY <2>1, SMTT(30)
<1>4. ~InOrder(buf, 1, 0)
  BY <1>2, <1>3, ReadStep
<1>5. asked = "nothing" /\ InOrder(buf, 1, said + 2)
  BY <1>2, <1>4 DEF IInv, StreamOK
<1>6. /\ Arrived \in Held(buf) /\ buf' \in [0..N -> Seq(Tokens)] /\ Held(buf') \subseteq Held(buf)
      /\ InOrder(buf', 1 + 1, said + 2) /\ \A k \in 0..N : buf'[k] # <<>> => buf[k] # <<>>
  BY <1>2, <1>3, <1>5, ReadStep
<1>7. Excused(Arrived) /\ Arrived.what # "method"
  BY <1>2, <1>6 DEF IInv, ProperOK, Expected
<1>8. CASE Throw
  <2>1. IInv'
    BY <1>2, <1>6, <1>8, ThrowInv
  <2>. QED  BY <1>7, <2>1
<1>9. CASE pc' = next /\ UNCHANGED conn
  <2>1. TypeOK'
    BY <1>2, <1>6, <1>9 DEF TypeOK, Stages, chainVars, destVars
  <2>2. InOrder(buf', 2, said + 2)
    BY <1>3, <1>6
  <2>3. StreamOK'
    BY <1>2, <1>5, <1>9, <2>2 DEF StreamOK, destVars
  <2>4. TidyOK'
    <3>1. Source' = Source /\ scheme' = scheme
      BY <1>2, <1>9, SameSource DEF chainVars
    <3>. QED  BY <1>2, <1>6, <3>1 DEF TidyOK
  <2>5. ProperOK'
    <3>. SUFFICES ASSUME NEW t \in Held(buf') PROVE t.what \in Expected' /\ Excused(t)'
      BY DEF ProperOK
    <3>1. t.what \in Expected /\ Excused(t)
      BY <1>2, <1>6 DEF IInv, ProperOK
    <3>2. Excused(t)'
      BY <1>2, <3>1 DEF Excused, chainVars
    <3>3. Place(t) \in 2..(said + 2)
      BY <2>2, HeldPlaces
    <3>4. Place(t) # 1
      BY <1>3, <3>3, SMTT(30)
    <3>5. t.what \notin {"head", "line"}
      BY <3>4 DEF Place
    <3>6. t.what \in Expected'
      BY <1>1, <1>2, <1>9, <3>1, <3>5 DEF Expected
    <3>. QED  BY <3>2, <3>6
  <2>6. HopsOK'
    BY <1>1, <1>2, <1>5, <1>9 DEF IInv, HopsOK, chainVars, destVars
  <2>7. ConnOK'
    BY <1>2, <1>9 DEF IInv, ConnOK, Stages
  <2>. QED  BY <1>7, <2>1, <2>3, <2>4, <2>5, <2>6, <2>7 DEF IInv
<1>. QED  BY <1>1, <1>8, <1>9 DEF Check

(* The last part of a reply: the tunnel of the hop is up.                   *)
LEMMA TunnelsInv ==
  ASSUME IInv, ReadAddr \/ ReadHeader
  PROVE  IInv' /\ Excused(Arrived) /\ Arrived.what # "method"
<1>1. PICK stage \in {"addr", "header"} : Tunnels(stage)
  BY DEF ReadAddr, ReadHeader
<1>2. /\ TypeOK /\ TidyOK /\ pc # "failed" /\ pc # "up" /\ Readable(Source) /\ pc = stage
      /\ buf' = [buf EXCEPT ![Source] = Tail(@)]
      /\ UNCHANGED <<chainVars, expired, asked, refused, destVars>>
  BY <1>1 DEF IInv, Tunnels, Reads
<1>3. /\ said \in Nat /\ said + 2 \in Nat /\ 0 \in Nat /\ 1 \in Nat /\ 2 \in Nat /\ 2 + 1 = 3
      /\ 3 \in Nat /\ 0 + 2 < 3 /\ 0 + 3 = 3 /\ 0 <= said /\ 0 + 2 \in Nat
  <2>1. said \in 0..MaxChunks /\ MaxChunks \in Nat
    BY <1>2, ProxyChainAssumption DEF TypeOK
  <2>. QED  BY <2>1, SMTT(30)
<1>4. asked = "nothing" /\ InOrder(buf, 2, said + 2)
  BY <1>2 DEF IInv, StreamOK
<1>5. /\ Arrived \in Held(buf) /\ buf' \in [0..N -> Seq(Tokens)] /\ Held(buf') \subseteq Held(buf)
      /\ InOrder(buf', 2 + 1, said + 2) /\ \A k \in 0..N : buf'[k] # <<>> => buf[k] # <<>>
  BY <1>2, <1>3, <1>4, ReadStep
<1>6. InOrder(buf', 3, said + 2)
  BY <1>3, <1>5
<1>7. Excused(Arrived) /\ Arrived.what # "method"
  BY <1>2, <1>5 DEF IInv, ProperOK, Expected
<1>8. heard = <<>> /\ conn \in {"open", "broken"}
  BY <1>2 DEF IInv, HopsOK, ConnOK, Stages
<1>9. CASE Throw /\ UNCHANGED <<hop, deadline>>
  <2>1. IInv'
    BY <1>2, <1>5, <1>9, ThrowInv
  <2>. QED  BY <1>7, <2>1
<1>10. CASE hop = N /\ hop' = N /\ pc' = "up" /\ deadline' = FALSE /\ UNCHANGED conn
  <2>1. TypeOK'
    BY <1>2, <1>5, <1>10 DEF TypeOK, chainVars, destVars
  <2>2. StreamOK'
    <3>1. Len(heard) = 0
      BY <1>8, SMTT(30)
    <3>2. Len(heard) <= said /\ InOrder(buf', Len(heard) + 3, said + 2)
      BY <1>3, <1>6, <3>1
    <3>. QED  BY <1>2, <1>4, <1>10, <3>2 DEF StreamOK, destVars
  <2>3. TidyOK'
    <3>1. Source' = Source /\ scheme' = scheme
      <4>1. Below(N + 1)' = Below(N + 1)
        BY <1>2, <1>10, SameSource DEF chainVars
      <4>2. Below(N + 1) = IF scheme[N] = "http" THEN N ELSE Below(N)
        BY <1>2, TopLayer DEF TypeOK
      <4>3. Source' = Below(N + 1)' /\ Source = IF scheme[N] = "http" THEN N ELSE Below(N)
        BY <1>2, <1>10 DEF Source
      <4>. QED  BY <1>2, <4>1, <4>2, <4>3 DEF chainVars
    <3>. QED  BY <1>2, <1>5, <3>1 DEF TidyOK
  <2>4. ProperOK'
    <3>. SUFFICES ASSUME NEW t \in Held(buf') PROVE t.what \in Expected' /\ Excused(t)'
      BY DEF ProperOK
    <3>1. t.what \in Expected /\ Excused(t)
      BY <1>2, <1>5 DEF IInv, ProperOK
    <3>2. Excused(t)'
      BY <1>2, <1>10, <3>1 DEF Excused, chainVars
    <3>3. Place(t) \in 3..(said + 2)
      BY <1>6, HeldPlaces
    <3>4. Place(t) # 2
      BY <1>3, <3>3, SMTT(30)
    <3>5. t.what \notin {"addr", "header"}
      BY <3>4 DEF Place
    <3>6. t.what \in Expected'
      BY <1>1, <1>2, <1>10, <3>1, <3>5 DEF Expected
    <3>. QED  BY <3>2, <3>6
  <2>5. HopsOK'
    BY <1>2, <1>4, <1>10 DEF IInv, HopsOK, destVars
  <2>6. ConnOK'
    BY <1>8, <1>10 DEF ConnOK, Stages
  <2>. QED  BY <1>7, <2>1, <2>2, <2>3, <2>4, <2>5, <2>6 DEF IInv
<1>11. CASE hop # N /\ hop' = hop + 1 /\ pc' = "begin" /\ deadline' = FALSE /\ UNCHANGED conn
  <2>1. ~reached /\ said = 0
    BY <1>11 DEF IInv, HopsOK
  <2>2. Held(buf') = {} /\ (\A k \in 0..N : buf'[k] = <<>>) /\ InOrder(buf', 1, 0)
    BY <1>3, <1>5, <1>6, <2>1, NothingHeld
  <2>3. hop' \in Hops
    BY <1>2, <1>11, ProxyChainAssumption, SMTT(30) DEF TypeOK, Hops
  <2>4. TypeOK'
    BY <1>2, <1>5, <1>11, <2>3 DEF TypeOK, chainVars, destVars
  <2>5. StreamOK' /\ TidyOK' /\ ProperOK'
    BY <1>2, <1>11, <2>1, <2>2 DEF StreamOK, TidyOK, ProperOK, destVars
  <2>6. HopsOK'
    BY <1>2, <1>4, <1>8, <1>11, <2>1 DEF HopsOK, destVars
  <2>7. ConnOK'
    BY <1>8, <1>11 DEF ConnOK, Stages
  <2>. QED  BY <1>7, <2>4, <2>5, <2>6, <2>7 DEF IInv
<1>. QED  BY <1>1, <1>9, <1>10, <1>11 DEF Tunnels

(* The reader of an HTTP hop reads ahead.                                   *)
LEMMA FillInv ==
  ASSUME IInv, NEW k \in Hops, Fill(k)
  PROVE  IInv'
<1>. DEFINE m == Below(k)
            s == Source
<1>1. /\ TypeOK /\ TidyOK /\ pc \in Stages \cup {"up"} /\ pc # "failed" /\ pc # "dial" /\ pc # "begin"
      /\ scheme[k] = "http" /\ k <= s
      /\ (\A j \in k..s : buf[j] = <<>>) /\ buf[m] # <<>>
      /\ UNCHANGED <<chainVars, hop, pc, conn, deadline, expired, asked, refused, destVars>>
  BY DEF IInv, Fill, Readable, Stages
<1>2. PICK n \in 1..Len(buf[m]) :
        buf' = [buf EXCEPT ![k] = SubSeq(buf[m], 1, n), ![m] = SubSeq(@, n + 1, Len(@))]
  BY DEF Fill
<1>3. scheme \in [Hops -> Schemes] /\ buf \in [0..N -> Seq(Tokens)]
  BY <1>1 DEF TypeOK
<1>4. s \in 0..N /\ N \in Nat /\ k \in 0..N /\ k \in 1..(N + 1)
  BY <1>1, SourceIsLayer
<1>5. m \in 0..N /\ m < k /\ \A j \in Hops : m < j /\ j < k => scheme[j] # "http"
  BY <1>3, <1>4, BelowIsLast
<1>6. \A j \in 0..N : buf[j] # <<>> => j <= s /\ (j = 0 \/ scheme[j] = "http")
  BY <1>1 DEF TidyOK
<1>. HIDE DEF m, s
<1>7. ASSUME NEW l \in 0..N, l > m PROVE buf[l] = <<>>
  <2>. SUFFICES ASSUME buf[l] # <<>> PROVE FALSE
    OBVIOUS
  <2>1. l <= s /\ (l = 0 \/ scheme[l] = "http") /\ l \notin k..s
    BY <1>1, <1>6
  <2>2. l \in Hops /\ l < k /\ m < l /\ l # 0
    BY <1>4, <1>5, <1>7, <2>1, SMTT(30) DEF Hops
  <2>. QED  BY <1>5, <2>1, <2>2
<1>8. ASSUME NEW lo, NEW hi, InOrder(buf, lo, hi)
      PROVE  buf' \in [0..N -> Seq(Tokens)] /\ InOrder(buf', lo, hi) /\ Held(buf') \subseteq Held(buf)
  <2>. DEFINE c == [buf EXCEPT ![k] = SubSeq(buf[m], 1, n), ![m] = SubSeq(@, n + 1, Len(@))]
  <2>1. c \in [0..N -> Seq(Tokens)] /\ InOrder(c, lo, hi) /\ Held(c) \subseteq Held(buf)
    BY <1>3, <1>4, <1>5, <1>7, <1>8, FillInOrder
  <2>2. buf' = c
    BY <1>2
  <2>. HIDE DEF c
  <2>. QED  BY <2>1, <2>2
<1>9. \A j \in 0..N : j # k /\ buf'[j] # <<>> => buf[j] # <<>>
  BY <1>1, <1>2, <1>3
<1>10. buf' \in [0..N -> Seq(Tokens)] /\ Held(buf') \subseteq Held(buf)
  BY <1>1, <1>8 DEF IInv, StreamOK
<1>11. TypeOK'
  BY <1>1, <1>10 DEF TypeOK, chainVars, destVars
<1>12. StreamOK'
  BY <1>1, <1>8 DEF IInv, StreamOK, destVars
<1>13. TidyOK'
  <2>1. Source' = s /\ scheme' = scheme
    BY <1>1, SameSource DEF s, chainVars
  <2>2. \A j \in 0..N : buf'[j] # <<>> => j <= s /\ (j = 0 \/ scheme[j] = "http")
    BY <1>1, <1>6, <1>9
  <2>. QED  BY <2>1, <2>2 DEF TidyOK
<1>14. ProperOK'
  <2>1. \A t \in Held(buf') : t.what \in Expected /\ Excused(t)
    BY <1>1, <1>10 DEF IInv, ProperOK
  <2>. QED  BY <1>1, <2>1 DEF ProperOK, Expected, Excused, chainVars
<1>15. HopsOK' /\ ConnOK'
  BY <1>1 DEF IInv, HopsOK, ConnOK, chainVars, destVars
<1>. QED  BY <1>11, <1>12, <1>13, <1>14, <1>15 DEF IInv

(* The relay reads the next chunk.                                          *)
LEMMA HearInv ==
  ASSUME IInv, Hear
  PROVE  IInv' /\ Arrived.chunk = Len(heard) + 1 /\ Len(heard) < said
<1>. DEFINE n == Len(heard)
<1>1. /\ TypeOK /\ TidyOK /\ pc = "up" /\ pc # "failed" /\ Readable(Source)
      /\ buf' = [buf EXCEPT ![Source] = Tail(@)] /\ heard' = Append(heard, Arrived.chunk)
      /\ UNCHANGED <<chainVars, hop, pc, conn, deadline, expired, asked, refused, reached, said>>
  BY DEF IInv, Hear
<1>2. n <= said /\ InOrder(buf, n + 3, said + 2) /\ asked = "nothing"
  BY <1>1 DEF IInv, StreamOK
<1>3. heard \in Seq(1..MaxChunks) /\ n \in Nat /\ said \in 0..MaxChunks /\ MaxChunks \in Nat
  BY <1>1, ProxyChainAssumption, LenProperties DEF TypeOK
<1>. HIDE DEF n
<1>4. n + 3 \in Nat /\ said + 2 \in Nat /\ (n + 3) + 1 = (n + 1) + 3
  BY <1>3, SMTT(30)
<1>5. /\ n + 3 <= said + 2 /\ Place(Arrived) = n + 3 /\ Arrived \in Held(buf)
      /\ buf' \in [0..N -> Seq(Tokens)] /\ InOrder(buf', (n + 3) + 1, said + 2)
      /\ Held(buf') \subseteq Held(buf) /\ \A k \in 0..N : buf'[k] # <<>> => buf[k] # <<>>
  BY <1>1, <1>2, <1>4, ReadStep
<1>6. Arrived.what = "data" /\ Arrived \in Tokens
  BY <1>1, <1>5 DEF IInv, ProperOK, Expected, Held
<1>7. Arrived.chunk + 2 = n + 3 /\ Arrived.chunk \in 1..MaxChunks
  BY <1>5, <1>6, DataTokens DEF Place
<1>8. Arrived.chunk = n + 1 /\ n < said /\ n + 1 <= said
  BY <1>3, <1>5, <1>7, SMTT(20)
<1>9. heard' \in Seq(1..MaxChunks) /\ Len(heard') = n + 1
  <2>1. \A x \in 1..MaxChunks :
          Append(heard, x) \in Seq(1..MaxChunks) /\ Len(Append(heard, x)) = Len(heard) + 1
    BY <1>3, AppendProperties, SMTT(30)
  <2>. QED  BY <1>1, <1>7, <2>1 DEF n
<1>10. TypeOK'
  BY <1>1, <1>5, <1>9 DEF TypeOK, chainVars
<1>11. StreamOK'
  <2>1. InOrder(buf', Len(heard') + 3, said + 2) /\ Len(heard') <= said
    BY <1>4, <1>5, <1>8, <1>9
  <2>. QED  BY <1>1, <1>2, <2>1 DEF StreamOK
<1>12. TidyOK'
  <2>1. Source' = Source /\ scheme' = scheme
    BY <1>1, SameSource DEF chainVars
  <2>. QED  BY <1>1, <1>5, <2>1 DEF TidyOK
<1>13. ProperOK'
  <2>1. \A t \in Held(buf') : t.what \in Expected /\ Excused(t)
    BY <1>1, <1>5 DEF IInv, ProperOK
  <2>. QED  BY <1>1, <2>1 DEF ProperOK, Expected, Excused, chainVars
<1>14. HopsOK' /\ ConnOK'
  BY <1>1, <1>2 DEF IInv, HopsOK, ConnOK, chainVars
<1>. QED  BY <1>8, <1>10, <1>11, <1>12, <1>13, <1>14 DEF IInv, n

(* What arrives at the transport connection is within reach of the reader.  *)
LEMMA ArriveTidy ==
  ASSUME TypeOK, TidyOK, pc # "failed", NEW q, buf' = [buf EXCEPT ![0] = q],
         UNCHANGED <<scheme, hop, pc>>
  PROVE  TidyOK'
<1>1. Source' = Source /\ scheme' = scheme
  BY SameSource
<1>2. 0 <= Source /\ buf \in [0..N -> Seq(Tokens)]
  BY SourceIsLayer DEF TypeOK
<1>3. ASSUME NEW k \in 0..N, buf'[k] # <<>> PROVE k <= Source /\ (k = 0 \/ scheme[k] = "http")
  <2>1. CASE k = 0
    BY <1>2, <2>1
  <2>2. CASE k # 0
    <3>1. buf'[k] = buf[k]
      BY <1>2, <2>2
    <3>. QED  BY <1>3, <3>1 DEF TidyOK
  <2>. QED  BY <2>1, <2>2
<1>. QED  BY <1>1, <1>3 DEF TidyOK

(* The destination speaks.                                                  *)
LEMMA SayInv ==
  ASSUME IInv, Say
  PROVE  IInv'
<1>. DEFINE t == [what |-> "data", value |-> "ok", chunk |-> said + 1]
            c == [buf EXCEPT ![0] = Append(@, t)]
<1>1. /\ TypeOK /\ TidyOK /\ reached /\ conn = "open" /\ said < MaxChunks /\ said' = said + 1
      /\ buf' = c
      /\ UNCHANGED <<chainVars, hop, pc, conn, deadline, expired, asked, refused, reached, heard>>
  BY DEF IInv, Say
<1>2. pc # "failed" /\ asked = "nothing" /\ pc \notin {"dial", "begin", "method", "auth"}
  BY <1>1 DEF IInv, ConnOK, StreamOK
<1>3. said \in Nat /\ said + 1 \in 1..MaxChunks /\ said + 1 \in 0..MaxChunks /\ said + 2 \in Nat
  <2>1. said \in 0..MaxChunks /\ MaxChunks \in Nat
    BY <1>1, ProxyChainAssumption DEF TypeOK
  <2>. QED  BY <1>1, <2>1, SMTT(30)
<1>4. t \in Tokens /\ t.what = "data" /\ t.value = "ok" /\ t.chunk = said + 1
  BY <1>3, DataTokens
<1>. HIDE DEF t
<1>5. Place(t) = (said + 2) + 1 /\ (said + 2) + 1 = said' + 2
  <2>1. Place(t) = (said + 1) + 2
    BY <1>4 DEF Place
  <2>2. (said + 1) + 2 = (said + 2) + 1
    BY <1>3, SMTT(30)
  <2>. QED  BY <1>1, <2>1, <2>2
<1>6. ASSUME NEW lo \in Nat, NEW hi \in Nat, Place(t) = hi + 1, lo <= hi + 1, InOrder(buf, lo, hi)
      PROVE  c \in [0..N -> Seq(Tokens)] /\ InOrder(c, lo, hi + 1) /\ Held(c) \subseteq Held(buf) \cup {t}
  <2>1. buf \in [0..N -> Seq(Tokens)]
    BY <1>1 DEF TypeOK
  <2>. QED  BY <1>4, <1>6, <2>1, ArriveInOrder
<1>7. ASSUME NEW lo \in Nat, lo <= (said + 2) + 1, InOrder(buf, lo, said + 2)
      PROVE  buf' \in [0..N -> Seq(Tokens)] /\ InOrder(buf', lo, said' + 2) /\ Held(buf') \subseteq Held(buf) \cup {t}
  <2>. HIDE DEF c
  <2>1. c \in [0..N -> Seq(Tokens)] /\ InOrder(c, lo, (said + 2) + 1) /\ Held(c) \subseteq Held(buf) \cup {t}
    BY <1>3, <1>5, <1>6, <1>7
  <2>. QED  BY <1>1, <1>5, <2>1
<1>8. TidyOK'
  BY <1>1, <1>2, ArriveTidy DEF chainVars
<1>. HIDE DEF c
<1>9. /\ 1 \in Nat /\ 1 <= (said + 2) + 1 /\ 2 \in Nat /\ 2 <= (said + 2) + 1
      /\ \A n \in Nat : n <= said => n + 3 \in Nat /\ n + 3 <= (said + 2) + 1 /\ n <= said + 1
  BY <1>3, SMTT(30)
<1>10. Len(heard) \in Nat
  BY <1>1, LenProperties DEF TypeOK
<1>11. StreamOK' /\ buf' \in [0..N -> Seq(Tokens)] /\ Held(buf') \subseteq Held(buf) \cup {t}
  <2>1. CASE pc \in {"head", "line"} /\ InOrder(buf, 1, said + 2)
    <3>1. buf' \in [0..N -> Seq(Tokens)] /\ InOrder(buf', 1, said' + 2) /\ Held(buf') \subseteq Held(buf) \cup {t}
      BY <1>7, <1>9, <2>1
    <3>. QED  BY <1>1, <1>2, <2>1, <3>1 DEF StreamOK
  <2>2. CASE pc \in {"addr", "header"} /\ InOrder(buf, 2, said + 2)
    <3>1. buf' \in [0..N -> Seq(Tokens)] /\ InOrder(buf', 2, said' + 2) /\ Held(buf') \subseteq Held(buf) \cup {t}
      BY <1>7, <1>9, <2>2
    <3>. QED  BY <1>1, <1>2, <2>2, <3>1 DEF StreamOK
  <2>3. CASE pc = "up" /\ Len(heard) <= said /\ InOrder(buf, Len(heard) + 3, said + 2)
    <3>1. Len(heard) + 3 \in Nat /\ Len(heard) + 3 <= (said + 2) + 1 /\ Len(heard) <= said'
      BY <1>1, <1>9, <1>10, <2>3
    <3>2. /\ buf' \in [0..N -> Seq(Tokens)] /\ InOrder(buf', Len(heard) + 3, said' + 2)
          /\ Held(buf') \subseteq Held(buf) \cup {t}
      BY <1>7, <2>3, <3>1
    <3>. QED  BY <1>1, <1>2, <2>3, <3>1, <3>2 DEF StreamOK
  <2>. QED  BY <1>1, <1>2, <2>1, <2>2, <2>3 DEF IInv, StreamOK
<1>12. TypeOK'
  BY <1>1, <1>3, <1>11 DEF TypeOK, chainVars
<1>13. ProperOK'
  <2>1. \A u \in Held(buf') : u.what \in Expected /\ Excused(u)
    <3>1. t.what \in Expected /\ Excused(t)
      BY <1>1, <1>2, <1>4 DEF Expected, Excused, TypeOK, Stages
    <3>. QED  BY <1>2, <1>11, <3>1 DEF IInv, ProperOK
  <2>. QED  BY <1>1, <2>1 DEF ProperOK, Expected, Excused, chainVars
<1>14. HopsOK' /\ ConnOK'
  BY <1>1, <1>2 DEF IInv, HopsOK, ConnOK, chainVars
<1>. QED  BY <1>8, <1>11, <1>12, <1>13, <1>14 DEF IInv

(* What a proxy that is asked finds: a hop that waits, with empty layers.   *)
LEMMA AskedWaits ==
  ASSUME IInv, asked # "nothing", conn = "open"
  PROVE  /\ TypeOK /\ TidyOK /\ pc = Stage(asked) /\ pc # "failed" /\ pc # "up"
         /\ ~reached /\ said = 0 /\ heard = <<>>
         /\ buf \in [0..N -> Seq(Tokens)] /\ InOrder(buf, 1, 0) /\ Held(buf) = {}
<1>1. TypeOK /\ TidyOK /\ pc # "failed" /\ pc = Stage(asked)
  BY DEF IInv, ConnOK, HopsOK
<1>2. pc # "up"
  BY <1>1 DEF IInv, StreamOK
<1>3. ~reached /\ InOrder(buf, 1, 0)
  BY <1>1 DEF IInv, StreamOK
<1>4. said = 0 /\ heard = <<>>
  BY <1>2, <1>3 DEF IInv, HopsOK
<1>5. buf \in [0..N -> Seq(Tokens)]
  BY <1>1 DEF TypeOK
<1>6. 1 \in Nat /\ 0 \in Nat /\ 0 < 1
  BY SMTT(30)
<1>7. Held(buf) = {}
  BY <1>3, <1>5, <1>6, NothingHeld
<1>. QED  BY <1>1, <1>2, <1>3, <1>4, <1>5, <1>7

(* A proxy chooses a method, or judges the credentials.                     *)
LEMMA OneAnswerInv ==
  ASSUME IInv, NEW message \in {"greeting", "credentials"}, NEW v \in Values,
         Answer(message, <<Token(Stage(message), v)>>), UNCHANGED reached,
         refused' \in BOOLEAN, refused => refused',
         v = "ok" \/ refused' \/ (message = "greeting" /\ v = "userpass" /\ auth[hop] = "short")
  PROVE  IInv'
<1>. DEFINE t == Token(Stage(message), v)
            c == [buf EXCEPT ![0] = Append(@, t)]
<1>1. /\ asked = message /\ conn = "open" /\ asked' = "nothing"
      /\ UNCHANGED <<chainVars, hop, pc, conn, deadline, expired, said, heard>>
  BY DEF Answer
<1>2. /\ TypeOK /\ TidyOK /\ pc = Stage(message) /\ pc # "failed" /\ pc # "up"
      /\ ~reached /\ said = 0 /\ heard = <<>>
      /\ buf \in [0..N -> Seq(Tokens)] /\ InOrder(buf, 1, 0) /\ Held(buf) = {}
  BY <1>1, AskedWaits
<1>3. t \in Tokens /\ t.what = Stage(message) /\ t.value = v /\ Place(t) = 1 /\ pc \in {"method", "auth"}
  <2>1. Stage(message) \in {"method", "auth"} /\ Stage(message) \in Stages
    BY DEF Stage, Stages
  <2>2. t \in Tokens /\ t.what = Stage(message) /\ t.value = v
    BY <2>1, AnswerTokens
  <2>. HIDE DEF t
  <2>3. Place(t) = 1
    BY <2>1, <2>2 DEF Place
  <2>. QED  BY <1>2, <2>1, <2>2, <2>3
<1>4. buf' = c
  <2>1. 0 \in 0..N
    BY ProxyChainAssumption, SMTT(30)
  <2>2. Append(buf[0], t) = buf[0] \o <<t>>
    BY <1>2, <1>3, <2>1, AppendIsConcat
  <2>3. buf' = [buf EXCEPT ![0] = @ \o <<t>>]
    BY DEF Answer
  <2>. HIDE DEF t
  <2>. QED  BY <2>2, <2>3
<1>. HIDE DEF t
<1>5. TidyOK'
  BY <1>1, <1>2, <1>4, ArriveTidy DEF chainVars
<1>6. buf' \in [0..N -> Seq(Tokens)] /\ InOrder(buf', 1, 1) /\ Held(buf') \subseteq {t}
  <2>1. 0 + 1 = 1 /\ 1 <= 0 + 1 /\ 0 \in Nat /\ 1 \in Nat
    BY SMTT(30)
  <2>2. Place(t) = 0 + 1
    BY <1>3, <2>1
  <2>3. c \in [0..N -> Seq(Tokens)] /\ InOrder(c, 1, 0 + 1) /\ Held(c) \subseteq Held(buf) \cup {t}
    BY <1>2, <1>3, <2>1, <2>2, ArriveInOrder
  <2>. HIDE DEF c
  <2>. QED  BY <1>2, <1>4, <2>1, <2>3
<1>. HIDE DEF c
<1>7. TypeOK'
  BY <1>1, <1>2, <1>6 DEF TypeOK, chainVars
<1>8. StreamOK'
  BY <1>1, <1>2, <1>3, <1>6 DEF StreamOK
<1>9. ProperOK'
  <2>1. t.what \in Expected'
    BY <1>1, <1>2, <1>3 DEF Expected
  <2>2. Excused(t)'
    BY <1>1, <1>3 DEF Excused, chainVars, Stage
  <2>. QED  BY <1>6, <2>1, <2>2 DEF ProperOK
<1>10. HopsOK' /\ ConnOK'
  BY <1>1, <1>2 DEF IInv, HopsOK, ConnOK, chainVars
<1>. QED  BY <1>5, <1>7, <1>8, <1>9, <1>10 DEF IInv

(* A proxy answers the request for a tunnel, in two parts.                  *)
LEMMA TwoAnswersInv ==
  ASSUME IInv, NEW message \in {"request", "connect"},
         NEW w \in {"addr", "header"}, message = "request" <=> w = "addr",
         NEW v \in Values, NEW x \in Values, Answer(message, <<Token(Stage(message), v), Token(w, x)>>),
         refused' = (refused \/ v # "ok" \/ x # "ok"),
         reached' = (v = "ok" /\ x = "ok" /\ hop = N)
  PROVE  IInv'
<1>. DEFINE t == Token(Stage(message), v)
            u == Token(w, x)
<1>1. /\ asked = message /\ conn = "open" /\ asked' = "nothing"
      /\ UNCHANGED <<chainVars, hop, pc, conn, deadline, expired, said, heard>>
  BY DEF Answer
<1>2. /\ TypeOK /\ TidyOK /\ pc = Stage(message) /\ pc # "failed" /\ pc # "up"
      /\ ~reached /\ said = 0 /\ heard = <<>>
      /\ buf \in [0..N -> Seq(Tokens)] /\ InOrder(buf, 1, 0) /\ Held(buf) = {}
  BY <1>1, AskedWaits
<1>3. /\ t \in Tokens /\ t.what = Stage(message) /\ t.value = v /\ Place(t) = 1
      /\ u \in Tokens /\ u.what = w /\ u.value = x /\ Place(u) = 2
      /\ pc \in {"head", "line"}
  <2>1. Stage(message) \in {"head", "line"} /\ Stage(message) \in Stages /\ w \in {"addr", "header"} /\ w \in Stages
    BY DEF Stage, Stages
  <2>2. t \in Tokens /\ t.what = Stage(message) /\ t.value = v /\ u \in Tokens /\ u.what = w /\ u.value = x
    BY <2>1, AnswerTokens
  <2>. HIDE DEF t, u
  <2>3. Place(t) = 1 /\ Place(u) = 2
    BY <2>1, <2>2 DEF Place
  <2>. QED  BY <1>2, <2>1, <2>2, <2>3
<1>4. buf' = [buf EXCEPT ![0] = @ \o <<t, u>>]
  BY DEF Answer
<1>. HIDE DEF t, u
<1>5. TidyOK'
  BY <1>1, <1>2, <1>4, ArriveTidy DEF chainVars
<1>6. buf' \in [0..N -> Seq(Tokens)] /\ InOrder(buf', 1, 2) /\ Held(buf') \subseteq {t, u}
  <2>. DEFINE c == [buf EXCEPT ![0] = @ \o <<t, u>>]
  <2>1. c \in [0..N -> Seq(Tokens)] /\ InOrder(c, 1, 2) /\ Held(c) \subseteq Held(buf) \cup {t, u}
    BY <1>2, <1>3, BothArriveInOrder
  <2>2. buf' = c
    BY <1>4
  <2>. HIDE DEF c
  <2>. QED  BY <1>2, <2>1, <2>2
<1>7. refused' \in BOOLEAN /\ reached' \in BOOLEAN
  OBVIOUS
<1>8. TypeOK'
  BY <1>1, <1>2, <1>6, <1>7 DEF TypeOK, chainVars
<1>9. StreamOK'
  <2>1. said' + 2 = 2
    BY <1>1, <1>2, SMTT(30)
  <2>. QED  BY <1>1, <1>3, <1>6, <2>1 DEF StreamOK
<1>10. ProperOK'
  <2>1. t.what \in Expected' /\ u.what \in Expected'
    BY <1>1, <1>2, <1>3 DEF Expected, Stage
  <2>2. Excused(t)' /\ Excused(u)'
    BY <1>3 DEF Excused
  <2>. QED  BY <1>6, <2>1, <2>2 DEF ProperOK
<1>11. HopsOK' /\ ConnOK'
  BY <1>1, <1>2 DEF IInv, HopsOK, ConnOK, chainVars
<1>. QED  BY <1>5, <1>8, <1>9, <1>10, <1>11 DEF IInv

(* Every answer of a proxy.                                                 *)
LEMMA ProxiesInv ==
  ASSUME IInv, Proxies
  PROVE  IInv'
<1>. PICK v \in Values, w \in Values :
       AnswerGreeting(v) \/ AnswerCredentials(v) \/ AnswerRequest(v, w) \/ AnswerConnect(v, w)
  BY DEF Proxies
<1>1. CASE AnswerGreeting(v)
  <2>1. Stage("greeting") = "method"
    BY DEF Stage
  <2>2. /\ Answer("greeting", <<Token(Stage("greeting"), v)>>) /\ UNCHANGED reached
        /\ refused' = (refused \/ v = "bad" \/ (v = "userpass" /\ auth[hop] # "short"))
    BY <1>1, <2>1 DEF AnswerGreeting
  <2>3. refused' \in BOOLEAN /\ (refused => refused')
        /\ (v = "ok" \/ refused' \/ (v = "userpass" /\ auth[hop] = "short"))
    BY <2>2 DEF Values
  <2>. QED  BY <2>2, <2>3, OneAnswerInv
<1>2. CASE AnswerCredentials(v)
  <2>1. Stage("credentials") = "auth"
    BY DEF Stage
  <2>2. /\ Answer("credentials", <<Token(Stage("credentials"), v)>>) /\ UNCHANGED reached
        /\ refused' = (refused \/ v = "bad") /\ v # "userpass"
    BY <1>2, <2>1 DEF AnswerCredentials
  <2>3. refused' \in BOOLEAN /\ (refused => refused') /\ (v = "ok" \/ refused')
    BY <2>2 DEF Values
  <2>. QED  BY <2>2, <2>3, OneAnswerInv
<1>3. CASE AnswerRequest(v, w)
  <2>1. Stage("request") = "head"
    BY DEF Stage
  <2>2. Answer("request", <<Token(Stage("request"), v), Token("addr", w)>>) /\ Agrees(IF v = "ok" THEN w ELSE v)
    BY <1>3, <2>1 DEF AnswerRequest
  <2>3. ~reached
    BY <2>2, AskedWaits DEF Answer
  <2>4. refused' = (refused \/ v # "ok" \/ w # "ok") /\ reached' = (v = "ok" /\ w = "ok" /\ hop = N)
    BY <2>2, <2>3 DEF Agrees
  <2>. QED  BY <2>2, <2>4, TwoAnswersInv
<1>4. CASE AnswerConnect(v, w)
  <2>1. Stage("connect") = "line"
    BY DEF Stage
  <2>2. Answer("connect", <<Token(Stage("connect"), v), Token("header", w)>>) /\ Agrees(IF v = "ok" THEN w ELSE v)
    BY <1>4, <2>1 DEF AnswerConnect
  <2>3. ~reached
    BY <2>2, AskedWaits DEF Answer
  <2>4. refused' = (refused \/ v # "ok" \/ w # "ok") /\ reached' = (v = "ok" /\ w = "ok" /\ hop = N)
    BY <2>2, <2>3 DEF Agrees
  <2>. QED  BY <2>2, <2>4, TwoAnswersInv
<1>. QED  BY <1>1, <1>2, <1>3, <1>4
-----------------------------------------------------------------------------
(* All steps together.                                                     *)

(* The inductive invariant holds.                                           *)
LEMMA InductiveInv == Spec => []IInv
<1>1. Init => IInv
  <2>. SUFFICES ASSUME Init PROVE IInv
    OBVIOUS
  <2>1. 0 \in 0..MaxChunks /\ 1 \in Hops /\ 1..0 = {} /\ Len(<<>>) = 0
    BY ProxyChainAssumption, SMTT(30) DEF Hops
  <2>2. <<>> \in Seq(Tokens) /\ <<>> \in Seq(1..MaxChunks)
    BY EmptySeq
  <2>3. buf \in [0..N -> Seq(Tokens)] /\ \A k \in 0..N : buf[k] = <<>>
    BY <2>2 DEF Init
  <2>4. InOrder(buf, 1, 0) /\ Held(buf) = {}
    BY <2>1, <2>3 DEF InOrder, Within, Sorted, Complete, Held
  <2>5. TypeOK
    BY <2>1, <2>2, <2>3 DEF Init, TypeOK
  <2>6. StreamOK /\ TidyOK /\ ProperOK
    BY <2>3, <2>4 DEF Init, StreamOK, TidyOK, ProperOK
  <2>7. HopsOK /\ ConnOK
    BY DEF Init, HopsOK, ConnOK, Stages
  <2>. QED  BY <2>5, <2>6, <2>7 DEF IInv
<1>2. IInv /\ [Next]_vars => IInv'
  <2>. SUFFICES ASSUME IInv, [Next]_vars PROVE IInv'
    OBVIOUS
  <2>1. CASE Dialed \/ DialFails \/ Expire \/ Breaks
    BY <2>1, DialInv
  <2>2. CASE IOFails
    BY <2>2, IOFailsInv
  <2>3. CASE Begin
    BY <2>3, BeginInv
  <2>4. CASE ReadMethod
    BY <2>4, RequestInv DEF ReadMethod
  <2>5. CASE ReadAuth
    BY <2>5, RequestInv DEF ReadAuth
  <2>6. CASE ReadHead \/ ReadLine
    BY <2>6, CheckInv
  <2>7. CASE ReadAddr \/ ReadHeader
    BY <2>7, TunnelsInv
  <2>8. CASE \E k \in Hops : Fill(k)
    BY <2>8, FillInv
  <2>9. CASE Hear
    BY <2>9, HearInv
  <2>10. CASE Proxies
    BY <2>10, ProxiesInv
  <2>11. CASE Say
    BY <2>11, SayInv
  <2>12. CASE UNCHANGED vars
    BY <2>12, SameInv DEF IInv, TypeOK, vars, chainVars, destVars
  <2>. QED  BY <2>1, <2>2, <2>3, <2>4, <2>5, <2>6, <2>7, <2>8, <2>9, <2>10, <2>11, <2>12 DEF Next, Handshake
<1>. QED  BY <1>1, <1>2, PTL DEF Spec

(* Every variable keeps its type in a dial through any chain; in            *)
(* particular nothing but the destination's chunks reaches the relay.       *)
THEOREM TypesHold == Spec => []TypeOK
<1>1. IInv => TypeOK
  BY DEF IInv
<1>. QED  BY <1>1, InductiveInv, PTL

(* Whatever hop a dial fails at, its connection is closed; every read of a  *)
(* handshake has a deadline, and the connection handed to the relay has     *)
(* none (throw.go, CloseOnThrow; connect.go, applyDeadline).                *)
THEOREM DialsEndClean == Spec => []EndsClean
<1>1. IInv => EndsClean
  BY DEF IInv, ConnOK, EndsClean, Stages
<1>. QED  BY <1>1, InductiveInv, PTL

(* Through a chain of any length and of any schemes the relay hears what    *)
(* the destination says from the first byte on, in order and nothing else,  *)
(* however much the readers of the HTTP hops have read ahead                *)
(* (httpproxy.go, httpTunnel.Read).                                         *)
THEOREM ChainIsTunnel == Spec => TunnelSpec
<1>1. Init => T!Init
  BY DEF Init, T!Init
<1>2. IInv /\ [Next]_vars => [T!Next]_(T!vars)
  <2>. SUFFICES ASSUME IInv, [Next]_vars PROVE T!Next \/ UNCHANGED T!vars
    OBVIOUS
  <2>1. CASE Hear
    <3>1. Arrived.chunk = Len(heard) + 1 /\ Len(heard) < said
      BY <2>1, HearInv
    <3>2. T!Hear
      BY <2>1, <3>1 DEF Hear, T!Hear
    <3>. QED  BY <3>2 DEF T!Next
  <2>2. CASE Say
    BY <2>2 DEF Say, T!Say, T!Next
  <2>3. CASE UNCHANGED <<said, heard>> /\ (UNCHANGED pc \/ (pc \notin {"up", "failed"} /\ pc' \notin {"up", "failed"}))
    BY <2>3 DEF T!vars
  <2>4. CASE UNCHANGED <<said, heard>> /\ pc \notin {"up", "failed"} /\ pc' = "failed"
    BY <2>4 DEF T!Next, T!Fail
  <2>5. CASE UNCHANGED <<said, heard>> /\ pc \notin {"up", "failed"} /\ pc' = "up"
    BY <2>5 DEF T!Next, T!Connect
  <2>6. ASSUME ~Hear, ~Say
        PROVE  /\ UNCHANGED <<said, heard>>
               /\ UNCHANGED pc \/ pc \notin {"up", "failed"}
    <3>1. CASE Dialed \/ DialFails \/ Expire \/ IOFails \/ Breaks
      BY <3>1 DEF Dialed, DialFails, Expire, IOFails, Breaks, Stages, destVars
    <3>2. CASE Begin \/ \E k \in Hops : Fill(k)
      BY <3>2 DEF Begin, Fill, destVars
    <3>3. CASE ReadMethod \/ ReadAuth \/ ReadHead \/ ReadAddr \/ ReadLine \/ ReadHeader
      <4>1. \E stage \in Stages : Reads(stage)
        BY <3>3 DEF ReadMethod, ReadAuth, ReadHead, ReadAddr, ReadLine, ReadHeader, Check, Tunnels, Stages
      <4>. QED  BY <4>1 DEF Reads, Stages, destVars
    <3>4. CASE Proxies
      BY <3>4 DEF Proxies, AnswerGreeting, AnswerCredentials, AnswerRequest, AnswerConnect, Answer
    <3>5. CASE UNCHANGED vars
      BY <3>5 DEF vars, destVars
    <3>. QED  BY <2>6, <3>1, <3>2, <3>3, <3>4, <3>5 DEF Next, Handshake
  <2>. QED  BY <2>1, <2>2, <2>3, <2>4, <2>5, <2>6
<1>. QED  BY <1>1, <1>2, InductiveInv, PTL DEF Spec, TunnelSpec, T!Spec

\* No SOCKS5 hop is to reach a next proxy by its name.
Routable == \A k \in Hops : scheme[k] = "socks5" => k + 1 \notin Named

(* A dial through a chain fails only when a proxy refused it, the           *)
(* connection broke or the time ran out, given that no SOCKS5 hop is        *)
(* followed by a proxy that is given by its name: socks5AppendAddr          *)
(* (socks5.go:58) takes nothing but IP addresses.                           *)
THEOREM FailuresHaveCauses == Spec /\ Routable => FailsForCause
<1>1. Routable /\ [Next]_vars => Routable'
  <2>. SUFFICES ASSUME Routable, [Next]_vars PROVE Routable'
    OBVIOUS
  <2>1. UNCHANGED scheme
    <3>1. CASE Dialed \/ DialFails \/ Expire \/ IOFails \/ Breaks \/ Hear \/ Say
      BY <3>1 DEF Dialed, DialFails, Expire, IOFails, Breaks, Hear, Say, chainVars
    <3>2. CASE Begin \/ \E k \in Hops : Fill(k)
      BY <3>2 DEF Begin, Fill, chainVars
    <3>3. CASE ReadMethod \/ ReadAuth \/ ReadHead \/ ReadAddr \/ ReadLine \/ ReadHeader
      BY <3>3 DEF ReadMethod, ReadAuth, ReadHead, ReadAddr, ReadLine, ReadHeader, Check, Tunnels, Reads, chainVars
    <3>4. CASE Proxies
      BY <3>4 DEF Proxies, AnswerGreeting, AnswerCredentials, AnswerRequest, AnswerConnect, Answer, chainVars
    <3>5. CASE UNCHANGED vars
      BY <3>5 DEF vars, chainVars
    <3>. QED  BY <3>1, <3>2, <3>3, <3>4, <3>5 DEF Next, Handshake
  <2>. QED  BY <2>1 DEF Routable
<1>2. IInv /\ Routable /\ [Next]_vars
        => [pc # "failed" /\ pc' = "failed" => refused' \/ expired \/ conn = "broken"]_vars
  <2>. SUFFICES ASSUME IInv, Routable, Next, pc # "failed", pc' = "failed"
                PROVE  refused' \/ expired \/ conn = "broken"
    OBVIOUS
  <2>1. CASE Dialed \/ DialFails \/ Expire \/ IOFails \/ Breaks \/ Hear \/ Say
    BY <2>1 DEF Dialed, DialFails, Expire, IOFails, Breaks, Hear, Say, TimedOut
  <2>2. CASE Begin \/ (\E k \in Hops : Fill(k)) \/ Proxies
    BY <2>2 DEF Begin, Write, Fill, Proxies, AnswerGreeting, AnswerCredentials, AnswerRequest, AnswerConnect, Answer
  <2>3. CASE ReadMethod \/ ReadAuth
    <3>1. PICK stage \in {"method", "auth"} : Reads(stage)
      BY <2>3 DEF ReadMethod, ReadAuth
    <3>2. pc = stage /\ Arrived.what = stage /\ Excused(Arrived) /\ refused' = refused
      BY <3>1, ReadOnly DEF Reads
    <3>3. ~Request
      <4>1. hop \in Hops /\ scheme[hop] = "socks5"
        BY <3>1, <3>2 DEF IInv, TypeOK, HopsOK
      <4>2. hop + 1 \notin Named
        BY <4>1 DEF Routable
      <4>. QED  BY <4>2 DEF Request, Write
    <3>4. CASE ReadMethod
      BY <3>2, <3>3, <3>4 DEF ReadMethod, Write, Excused
    <3>5. CASE ReadAuth
      <4>1. pc = "auth"
        BY <3>5 DEF ReadAuth, Reads
      <4>. QED  BY <3>2, <3>3, <3>5, <4>1 DEF ReadAuth, Excused
    <3>. QED  BY <2>3, <3>4, <3>5
  <2>4. CASE ReadHead \/ ReadLine
    <3>1. Excused(Arrived) /\ Arrived.what # "method"
      BY <2>4, CheckInv
    <3>2. Arrived.value = "bad" /\ refused' = refused
      BY <2>4 DEF ReadHead, ReadLine, Check, Reads
    <3>. QED  BY <3>1, <3>2 DEF Excused
  <2>5. CASE ReadAddr \/ ReadHeader
    <3>1. Excused(Arrived) /\ Arrived.what # "method"
      BY <2>5, TunnelsInv
    <3>2. Arrived.value # "ok" /\ refused' = refused
      BY <2>5 DEF ReadAddr, ReadHeader, Tunnels, Reads
    <3>. QED  BY <3>1, <3>2 DEF Excused
  <2>. QED  BY <2>1, <2>2, <2>3, <2>4, <2>5 DEF Next, Handshake
<1>. QED  BY <1>1, <1>2, InductiveInv, PTL DEF Spec, FailsForCause
=============================================================================
