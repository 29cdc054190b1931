--------------------------- MODULE MappingProofs ---------------------------
(***************************************************************************)
(* The -L texts mean what they say: parseMapping reads back every mapping  *)
(* that is written, and the table of a list of them leads every            *)
(* destination to the target that was meant, for any sets of hosts, words, *)
(* ports and addresses and any list of mappings.                           *)
(***************************************************************************)
EXTENDS NetworkStack, Integers, FiniteSetTheorems, WellFoundedInduction, SequenceTheorems, TLAPS

\* Leaves go to the SMT solver unless they name another prover.
USE SMTT(30)

----------------------------------------------------------------------------
(* Sets of numbers, and pieces of sequences                                *)

\* A set of numbers that is not empty has a least one.
LEMMA LeastOf ==
  ASSUME NEW S \in SUBSET Nat, S # {} PROVE \E j \in S : \A i \in S : j <= i
<1>. DEFINE Tops == {0 .. m : m \in S}
            R == StrictSubsetOrdering(Nat)
<1>1. Tops \subseteq FiniteSubsetsOf(Nat)
  <2>. SUFFICES ASSUME NEW m \in S PROVE 0 .. m \in SUBSET Nat /\ IsFiniteSet(0 .. m)
    BY Zenon DEF FiniteSubsetsOf
  <2>1. 0 \in Int /\ m \in Int /\ 0 .. m \in SUBSET Nat
    OBVIOUS
  <2>. QED BY <2>1, FS_Interval, Zenon
<1>2. Tops # {}
  BY Zenon
<1>3. PICK x \in Tops : \A y \in Tops : ~(<<y, x>> \in R)
  <2>. HIDE DEF Tops, R
  <2>1. IsWellFoundedOn(R, FiniteSubsetsOf(Nat))
    BY FS_StrictSubsetOrderingWellFounded, Zenon DEF R
  <2>. QED BY <1>1, <1>2, <2>1, WFMin, Zenon
<1>4. PICK j \in S : x = 0 .. j
  BY Zenon
<1>5. ASSUME NEW i \in S, ~(j <= i) PROVE FALSE
  <2>1. 0 .. i \in Tops /\ 0 .. j \in Tops
    BY Zenon
  <2>2. 0 .. i \subseteq 0 .. j /\ j \in 0 .. j /\ j \notin 0 .. i
    BY <1>5
  <2>3. 0 .. i # 0 .. j
    BY <2>2, Zenon
  <2>4. 0 .. i \in FiniteSubsetsOf(Nat) /\ 0 .. j \in FiniteSubsetsOf(Nat)
    BY <1>1, <2>1, Zenon
  <2>5. 0 .. i \in SUBSET Nat /\ 0 .. j \in SUBSET Nat
    OBVIOUS
  <2>6. <<0 .. i, 0 .. j>> \in R
    BY <2>2, <2>3, <2>4, <2>5, Zenon DEF StrictSubsetOrdering
  <2>. QED BY <1>3, <1>4, <2>1, <2>6, Zenon
<1>. QED BY <1>4, <1>5, Zenon

\* Induction: a set of numbers with 0 and the successor of each member that
\* is less than n has every number up to n.
LEMMA UpTo ==
  ASSUME NEW n \in Nat, NEW S, 0 \in S, \A k \in 0 .. n - 1 : k \in S => k + 1 \in S
  PROVE  0 .. n \subseteq S
<1>. DEFINE Missing == (0 .. n) \ S
<1>. SUFFICES ASSUME Missing # {} PROVE FALSE
  BY Zenon
<1>1. Missing \in SUBSET Nat
  OBVIOUS
<1>2. PICK k \in Missing : \A i \in Missing : k <= i
  <2>. HIDE DEF Missing
  <2>. QED BY <1>1, LeastOf, Zenon
<1>3. k \in 0 .. n /\ k \notin S /\ k # 0
  BY Zenon
<1>4. k - 1 \in 0 .. n - 1 /\ k - 1 \in 0 .. n /\ ~(k <= k - 1) /\ k - 1 + 1 = k
  BY <1>3
<1>5. k - 1 \in S
  BY <1>2, <1>4, Zenon
<1>. QED BY <1>3, <1>4, <1>5, Zenon

\* A piece of a sequence (a slice in Go).
LEMMA Piece ==
  ASSUME NEW S, NEW s \in Seq(S), NEW m \in 1 .. Len(s) + 1, NEW n \in 0 .. Len(s)
  PROVE  /\ SubSeq(s, m, n) \in Seq(S)
         /\ m <= n => Len(SubSeq(s, m, n)) = n - m + 1
         /\ n < m => SubSeq(s, m, n) = <<>>
         /\ \A i \in 1 .. n - m + 1 : SubSeq(s, m, n)[i] = s[m + i - 1]
<1>1. \A i \in m .. n : s[i] \in S
  OBVIOUS
<1>2. m \in Int /\ n \in Int
  OBVIOUS
<1>3. n < m => SubSeq(s, m, n) = <<>>
  BY <1>2, SubSeqEmpty
<1>. QED BY <1>1, <1>2, <1>3, SubSeqProperties

\* A piece of one element.
LEMMA PieceOfOne ==
  ASSUME NEW S, NEW s \in Seq(S), NEW n \in 1 .. Len(s)
  PROVE  SubSeq(s, n, n) = <<s[n]>>
<1>. DEFINE t == SubSeq(s, n, n)
<1>1. n \in 1 .. Len(s) + 1 /\ n \in 0 .. Len(s) /\ s[n] \in S
  OBVIOUS
<1>2. /\ t \in Seq(S)
      /\ n <= n => Len(t) = n - n + 1
      /\ \A i \in 1 .. n - n + 1 : t[i] = s[n + i - 1]
  BY <1>1, Piece, Zenon
<1>. HIDE DEF t
<1>3. Len(t) = 1 /\ t[1] = s[n]
  BY <1>1, <1>2
<1>4. <<s[n]>> \in Seq(S) /\ Len(<<s[n]>>) = 1 /\ <<s[n]>>[1] = s[n]
  BY <1>1
<1>5. \A i \in 1 .. Len(t) : t[i] = <<s[n]>>[i]
  BY <1>3, <1>4
<1>6. t = <<s[n]>>
  BY <1>2, <1>3, <1>4, <1>5, SeqEqual, Zenon
<1>. QED BY <1>6, Zenon DEF t

\* The piece of s that has the elements of h.
LEMMA PieceIs ==
  ASSUME NEW S, NEW s \in Seq(S), NEW h \in Seq(S), NEW k \in Nat, k + Len(h) <= Len(s),
         \A j \in 1 .. Len(h) : s[k + j] = h[j]
  PROVE  SubSeq(s, k + 1, k + Len(h)) = h
<1>. DEFINE a == k + 1
            z == k + Len(h)
            t == SubSeq(s, a, z)
<1>0. Len(h) \in Nat
  OBVIOUS
<1>1. a \in 1 .. Len(s) + 1 /\ z \in 0 .. Len(s) /\ z - a + 1 = Len(h)
  BY <1>0
<1>2. Len(h) \in Nat /\ (z < a => Len(h) = 0) /\ (a <= z \/ z < a)
  OBVIOUS
<1>3. \A j \in 1 .. Len(h) : a + j - 1 = k + j
  OBVIOUS
<1>. HIDE DEF a, z
<1>4. /\ t \in Seq(S) /\ (a <= z => Len(t) = z - a + 1) /\ (z < a => t = <<>>)
      /\ \A j \in 1 .. z - a + 1 : t[j] = s[a + j - 1]
  <2>1. a \in 1 .. Len(s) + 1 /\ z \in 0 .. Len(s)
    BY <1>1, Zenon
  <2>. QED BY <2>1, Piece
<1>. HIDE DEF t
<1>5. Len(t) = Len(h)
  BY <1>1, <1>2, <1>4
<1>6. \A j \in 1 .. Len(t) : t[j] = h[j]
  BY <1>1, <1>3, <1>4, <1>5, Zenon
<1>7. t = h
  BY <1>4, <1>5, <1>6, SeqEqual, Zenon
<1>. QED BY <1>7, Zenon DEF t, a, z

\* The same, of the first elements of s.
LEMMA FrontIs ==
  ASSUME NEW S, NEW s \in Seq(S), NEW h \in Seq(S), Len(h) <= Len(s),
         \A j \in 1 .. Len(h) : s[j] = h[j]
  PROVE  SubSeq(s, 1, Len(h)) = h
<1>1. /\ 0 \in Nat /\ 0 + Len(h) <= Len(s) /\ 0 + 1 = 1 /\ 0 + Len(h) = Len(h)
      /\ \A j \in 1 .. Len(h) : s[0 + j] = h[j]
  OBVIOUS
<1>2. SubSeq(s, 0 + 1, 0 + Len(h)) = h
  BY <1>1, PieceIs, Zenon
<1>. QED BY <1>1, <1>2, Zenon

\* Where the elements of a sequence end up when it is joined to another.
LEMMA Joined ==
  ASSUME NEW S, NEW a \in Seq(S), NEW b \in Seq(S)
  PROVE  /\ a \o b \in Seq(S) /\ Len(a \o b) = Len(a) + Len(b)
         /\ \A i \in 1 .. Len(a) : (a \o b)[i] = a[i]
         /\ \A i \in 1 .. Len(b) : (a \o b)[Len(a) + i] = b[i]
OBVIOUS

----------------------------------------------------------------------------
(* parseMapping                                                            *)

\* Max picks the greatest member of a set of indices.
LEMMA MaxIs ==
  ASSUME NEW S \in SUBSET Nat, NEW x \in S, \A y \in S : y <= x
  PROVE  Max(S) = x
<1>1. \A y \in S : x >= y
  OBVIOUS
<1>2. \A z \in S : (\A y \in S : z >= y) => z = x
  OBVIOUS
<1>3. Max(S) \in S /\ \A y \in S : Max(S) >= y
  BY <1>1, Zenon DEF Max
<1>. QED BY <1>2, <1>3, Zenon

\* LastIndex finds the occurrence of a token that has none after it.
LEMMA LastIndexIs ==
  ASSUME NEW text \in Seq(Tokens), NEW token, NEW i \in 1 .. Len(text), text[i] = token,
         \A j \in i + 1 .. Len(text) : text[j] # token
  PROVE  LastIndex(text, token) = i
<1>. DEFINE I == {k \in 1 .. Len(text) : text[k] = token}
<1>1. LastIndex(text, token) = IF I # {} THEN Max(I) ELSE 0
  BY Zenon DEF LastIndex, SelectLastInSeq
<1>2. I \in SUBSET Nat /\ i \in I /\ \A y \in I : y <= i
  OBVIOUS
<1>. HIDE DEF I
<1>3. Max(I) = i
  BY <1>2, MaxIs, Zenon
<1>. QED BY <1>1, <1>2, <1>3, Zenon

\* LastIndex is 0 for a token that does not occur (LastIndex's -1 in Go).
LEMMA NoIndex ==
  ASSUME NEW text \in Seq(Tokens), NEW token, \A j \in 1 .. Len(text) : text[j] # token
  PROVE  LastIndex(text, token) = 0
<1>. DEFINE I == {k \in 1 .. Len(text) : text[k] = token}
<1>1. LastIndex(text, token) = IF I # {} THEN Max(I) ELSE 0
  BY Zenon DEF LastIndex, SelectLastInSeq
<1>2. I = {}
  OBVIOUS
<1>. QED BY <1>1, <1>2, Zenon

\* takeLastPort takes the port off the end of a text.
LEMMA LastPort ==
  ASSUME NEW text \in Seq(Tokens), NEW p \in Ports, Len(text) >= 1, text[Len(text)] = p,
         Len(text) > 1 => text[Len(text) - 1] = ":"
  PROVE  takeLastPort(text) = [ok |-> TRUE, port |-> p, rest |-> SubSeq(text, 1, Len(text) - 2)]
<1>. DEFINE n == Len(text)
<1>1. n \in Nat /\ n >= 1 /\ p # ":"
  BY WordsAssumption DEF Separators
<1>2. LastIndex(text, ":") = n - 1
  <2>1. CASE n = 1
    <3>1. \A j \in 1 .. Len(text) : text[j] # ":"
      BY <1>1, <2>1
    <3>2. LastIndex(text, ":") = 0
      BY <3>1, NoIndex, Zenon
    <3>. QED BY <2>1, <3>2
  <2>2. CASE n > 1
    <3>1. n - 1 \in 1 .. Len(text) /\ text[n - 1] = ":"
      BY <1>1, <2>2
    <3>2. \A j \in (n - 1) + 1 .. Len(text) : text[j] # ":"
      BY <1>1, <2>2
    <3>. QED BY <3>1, <3>2, LastIndexIs, Zenon
  <2>3. n = 1 \/ n > 1
    <3>. HIDE DEF n
    <3>. QED BY <1>1
  <2>. QED BY <2>1, <2>2, <2>3, Zenon
<1>3. After(text, n - 1) = <<p>>
  <2>1. SubSeq(text, n, n) = <<text[n]>>
    <3>1. n \in 1 .. Len(text)
      BY <1>1
    <3>. HIDE DEF n
    <3>. QED BY <3>1, PieceOfOne
  <2>2. n - 1 + 1 = n
    BY <1>1
  <2>. QED BY <2>1, <2>2, Zenon DEF After
<1>4. Before(text, n - 1) = SubSeq(text, 1, n - 2)
  <2>1. n - 1 - 1 = n - 2
    BY <1>1
  <2>. QED BY <2>1, Zenon DEF Before
<1>5. <<p>>[1] = p
  OBVIOUS
<1>. QED BY <1>2, <1>3, <1>4, <1>5, Zenon DEF takeLastPort

\* What a host looks like in a mapping: itself, or a literal in brackets.
LEMMA BracketedHost ==
  ASSUME NEW h \in Hosts
  PROVE  /\ h \in Seq(Tokens) /\ Len(h) \in Nat /\ Len(h) >= 1
         /\ Bracketed(h) \in Seq(Tokens)
         /\ \/ /\ Bracketed(h) = h /\ \A i \in 1 .. Len(h) : h[i] \notin Separators
            \/ /\ h \in Literals /\ Len(Bracketed(h)) = Len(h) + 2
               /\ Bracketed(h)[1] = "[" /\ Bracketed(h)[Len(h) + 2] = "]"
               /\ \A i \in 1 .. Len(h) : Bracketed(h)[i + 1] = h[i] /\ h[i] # "["
<1>1. h \in Seq(Tokens) /\ h # <<>> /\ DOMAIN h = 1 .. Len(h)
      /\ \A i \in DOMAIN h : h[i] \in Separators => h[i] = ":" /\ h \in Literals
  BY HostsAssumption
<1>2. Len(h) \in Nat /\ Len(h) >= 1
  BY <1>1
<1>3. CASE \A i \in DOMAIN h : h[i] # ":"
  <2>1. Bracketed(h) = h
    BY <1>3, Zenon DEF Bracketed
  <2>. QED BY <1>1, <1>2, <1>3, <2>1, Zenon
<1>4. CASE \E i \in DOMAIN h : h[i] = ":"
  <2>. DEFINE o == <<"[">>
              c == <<"]">>
              oh == o \o h
              b == oh \o c
  <2>1. Bracketed(h) = b
    BY <1>4, Zenon DEF Bracketed
  <2>2. o \in Seq(Tokens) /\ c \in Seq(Tokens) /\ h \in Seq(Tokens)
    BY <1>1 DEF Tokens, Separators
  <2>9. Len(o) = 1 /\ o[1] = "[" /\ Len(c) = 1 /\ c[1] = "]"
    OBVIOUS
  <2>. HIDE DEF o, c
  <2>3. /\ oh \in Seq(Tokens) /\ Len(oh) = Len(o) + Len(h)
        /\ \A i \in 1 .. Len(o) : oh[i] = o[i]
        /\ \A i \in 1 .. Len(h) : oh[Len(o) + i] = h[i]
    BY <2>2, Joined
  <2>. HIDE DEF oh
  <2>4. /\ b \in Seq(Tokens) /\ Len(b) = Len(oh) + Len(c)
        /\ \A i \in 1 .. Len(oh) : b[i] = oh[i]
        /\ \A i \in 1 .. Len(c) : b[Len(oh) + i] = c[i]
    <3>1. oh \in Seq(Tokens)
      BY <2>3, Zenon
    <3>. QED BY <2>2, <3>1, Joined
  <2>. HIDE DEF b
  <2>7. Len(b) = Len(h) + 2 /\ b[1] = "[" /\ b[Len(h) + 2] = "]"
    BY <1>2, <2>9, <2>3, <2>4
  <2>8. \A i \in 1 .. Len(h) : b[i + 1] = h[i]
    BY <1>2, <2>9, <2>3, <2>4
  <2>5. h \in Literals
    BY <1>1, <1>4 DEF Separators
  <2>6. \A i \in 1 .. Len(h) : h[i] # "["
    BY <1>1 DEF Separators
  <2>. QED BY <1>1, <1>2, <2>1, <2>4, <2>5, <2>6, <2>7, <2>8, Zenon
<1>. QED BY <1>3, <1>4, Zenon

\* takeLastHost takes the host that starts after place n off the end of a
\* text, with the colon before it.
LEMMA LastHost ==
  ASSUME NEW text \in Seq(Tokens), NEW n \in Nat, NEW h \in Hosts,
         n > 0 => text[n] = ":", Len(text) = n + Len(Bracketed(h)),
         \A j \in 1 .. Len(Bracketed(h)) : text[n + j] = Bracketed(h)[j]
  PROVE  takeLastHost(text) = [ok |-> TRUE, host |-> h, rest |-> SubSeq(text, 1, n - 1)]
<1>. DEFINE b == Bracketed(h)
<1>1. /\ h \in Seq(Tokens) /\ Len(h) \in Nat /\ Len(h) >= 1 /\ b \in Seq(Tokens)
      /\ Len(b) \in Nat
  BY BracketedHost
<1>2. CASE b = h /\ \A i \in 1 .. Len(h) : h[i] \notin Separators
  <2>. HIDE DEF b
  <2>1. Len(text) = n + Len(h) /\ \A j \in 1 .. Len(h) : text[n + j] = h[j]
    BY <1>2, Zenon DEF b
  <2>2. \A j \in n + 1 .. Len(text) : text[j] \notin Separators
    <3>. SUFFICES ASSUME NEW j \in n + 1 .. Len(text) PROVE text[j] \notin Separators
      OBVIOUS
    <3>1. j - n \in 1 .. Len(h) /\ n + (j - n) = j
      BY <1>1, <2>1
    <3>. QED BY <1>2, <2>1, <3>1, Zenon
  <2>3. \A j \in n + 1 .. Len(text) : text[j] # ":" /\ text[j] # "]"
    BY <2>2, Zenon DEF Separators
  <2>4. text # <<>> /\ text[Len(text)] # "]"
    BY <1>1, <2>1, <2>3
  <2>5. LastIndex(text, ":") = n
    <3>1. CASE n = 0
      <4>1. \A j \in 1 .. Len(text) : text[j] # ":"
        BY <2>3, <3>1
      <4>. QED BY <3>1, <4>1, NoIndex, Zenon
    <3>2. CASE n > 0
      <4>1. n \in 1 .. Len(text) /\ text[n] = ":"
        BY <1>1, <2>1, <3>2
      <4>. QED BY <2>3, <4>1, LastIndexIs, Zenon
    <3>. QED BY <3>1, <3>2
  <2>6. After(text, n) = h
    <3>1. n + Len(h) <= Len(text)
      BY <1>1, <2>1
    <3>2. SubSeq(text, n + 1, n + Len(h)) = h
      BY <1>1, <2>1, <3>1, PieceIs, Zenon
    <3>. QED BY <2>1, <3>2, Zenon DEF After
  <2>. QED BY <2>4, <2>5, <2>6, Zenon DEF takeLastHost, Before
<1>3. CASE /\ h \in Literals /\ Len(b) = Len(h) + 2
           /\ b[1] = "[" /\ b[Len(h) + 2] = "]"
           /\ \A i \in 1 .. Len(h) : b[i + 1] = h[i] /\ h[i] # "["
  <2>. HIDE DEF b
  <2>1. Len(text) = n + (Len(h) + 2) /\ \A j \in 1 .. Len(h) + 2 : text[n + j] = b[j]
    <3>1. Len(text) = n + Len(b) /\ \A j \in 1 .. Len(b) : text[n + j] = b[j]
      BY Zenon DEF b
    <3>. QED BY <1>3, <3>1, Zenon
  <2>0. Len(h) \in Nat /\ Len(h) >= 1 /\ Len(text) = n + (Len(h) + 2)
    BY <1>1, <2>1, Zenon
  <2>2. text[n + 1] = "[" /\ text[n + (Len(h) + 2)] = "]"
    BY <1>1, <1>3, <2>1
  <2>3. \A j \in 1 .. Len(h) : text[n + (j + 1)] = h[j] /\ h[j] # "["
    BY <1>1, <1>3, <2>1
  <2>4. text # <<>> /\ text[Len(text)] = "]"
    <3>1. text # <<>>
      BY <1>1, <2>1
    <3>. QED BY <2>1, <2>2, <3>1, Zenon
  <2>5. \A j \in n + 1 + 1 .. Len(text) : text[j] # "["
    <3>. SUFFICES ASSUME NEW j \in n + 2 .. Len(text) PROVE text[j] # "["
      OBVIOUS
    <3>1. CASE j = Len(text)
      BY <2>4, <3>1
    <3>2. CASE j # Len(text)
      <4>1. j - n - 1 \in 1 .. Len(h) /\ n + ((j - n - 1) + 1) = j
        <5>1. j \in Int /\ n + 2 <= j /\ j <= n + (Len(h) + 2) /\ j # n + (Len(h) + 2)
          BY <2>0, <3>2
        <5>. QED BY <2>0, <5>1
      <4>. QED BY <2>3, <4>1, Zenon
    <3>. QED BY <3>1, <3>2
  <2>6. LastIndex(text, "[") = n + 1
    <3>1. n + 1 \in 1 .. Len(text)
      BY <1>1, <2>1
    <3>. QED BY <2>2, <2>5, <3>1, LastIndexIs, Zenon
  <2>7. SubSeq(text, n + 2, Len(text) - 1) = h
    <3>1. n + 1 \in Nat /\ n + 1 + Len(h) <= Len(text)
      BY <2>0
    <3>2. \A j \in 1 .. Len(h) : text[n + 1 + j] = h[j]
      <4>1. \A j \in 1 .. Len(h) : n + 1 + j = n + (j + 1)
        BY <2>0
      <4>. QED BY <2>3, <4>1, Zenon
    <3>3. SubSeq(text, n + 1 + 1, n + 1 + Len(h)) = h
      BY <1>1, <3>1, <3>2, PieceIs, Zenon
    <3>4. n + 1 + 1 = n + 2 /\ n + 1 + Len(h) = Len(text) - 1
      BY <2>0
    <3>. QED BY <3>3, <3>4, Zenon
  <2>8. /\ n + 1 # 0 /\ n + 1 + 1 = n + 2 /\ n + 1 - 1 = n
        /\ n + 1 > 1 => text[n] = ":"
    OBVIOUS
  <2>9. takeLastIPv6Host(text)
          = [ok |-> TRUE, host |-> h, rest |-> SubSeq(text, 1, n - 1)]
    <3>. DEFINE k == LastIndex(text, "[")
    <3>1. k = n + 1
      BY <2>6, Zenon
    <3>. HIDE DEF k
    <3>5. k # 0 /\ k + 1 = n + 2 /\ k - 1 = n
      BY <3>1
    <3>2. SubSeq(text, k + 1, Len(text) - 1) = h
      BY <2>7, <3>5, Zenon
    <3>3. Before(text, k - 1) = SubSeq(text, 1, n - 1)
      BY <3>5, Zenon DEF Before
    <3>4. ~(k > 1 /\ text[k - 1] # ":")
      BY <2>8, <3>1, <3>5, Zenon
    <3>. QED BY <1>3, <3>5, <3>2, <3>3, <3>4, Zenon DEF takeLastIPv6Host, k
  <2>. QED BY <2>4, <2>9, Zenon DEF takeLastHost
<1>. QED BY <1>2, <1>3, BracketedHost, Zenon

\* What Written puts before the port: the source host and a colon, or nothing.
Prefix(host) == IF host = <<>> THEN <<>> ELSE Bracketed(host) \o <<":">>

\* It is empty, or the host as it is written and a colon.
LEMMA PrefixOf ==
  ASSUME NEW h \in Hosts \cup {<<>>}
  PROVE  /\ Prefix(h) \in Seq(Tokens) /\ Len(Prefix(h)) \in Nat
         /\ Len(Prefix(h)) > 0 => Prefix(h)[Len(Prefix(h))] = ":"
         /\ \/ h = <<>> /\ Len(Prefix(h)) = 0
            \/ /\ h \in Hosts /\ Bracketed(h) \in Seq(Tokens) /\ Len(Bracketed(h)) \in Nat
               /\ Len(Prefix(h)) = Len(Bracketed(h)) + 1
               /\ \A i \in 1 .. Len(Bracketed(h)) : Prefix(h)[i] = Bracketed(h)[i]
<1>1. CASE h = <<>>
  <2>1. Prefix(h) = <<>>
    BY <1>1, Zenon DEF Prefix
  <2>2. <<>> \in Seq(Tokens) /\ Len(<<>>) = 0
    OBVIOUS
  <2>3. Len(Prefix(h)) = 0 /\ Prefix(h) \in Seq(Tokens)
    BY <2>1, <2>2, Zenon
  <2>. QED BY <1>1, <2>3
<1>2. CASE h # <<>>
  <2>. DEFINE b == Bracketed(h)
              c == <<":">>
              t == b \o c
  <2>1. h \in Hosts /\ b \in Seq(Tokens)
    BY <1>2, BracketedHost, Zenon
  <2>2. c \in Seq(Tokens) /\ Len(c) = 1
    BY DEF Tokens, Separators
  <2>3. c[1] = ":"
    OBVIOUS
  <2>4. Prefix(h) = t
    BY <1>2, Zenon DEF Prefix
  <2>. HIDE DEF b, c
  <2>5. /\ t \in Seq(Tokens) /\ Len(t) = Len(b) + Len(c)
        /\ \A i \in 1 .. Len(b) : t[i] = b[i]
        /\ \A i \in 1 .. Len(c) : t[Len(b) + i] = c[i]
    <3>1. b \in Seq(Tokens) /\ c \in Seq(Tokens)
      BY <2>1, <2>2, Zenon
    <3>. QED BY <3>1, Joined
  <2>. HIDE DEF t
  <2>6. Len(b) \in Nat /\ Len(t) \in Nat /\ Len(t) = Len(b) + 1 /\ 1 \in 1 .. Len(c)
    BY <2>1, <2>2, <2>5
  <2>7. t[Len(t)] = ":"
    <3>1. t[Len(b) + 1] = c[1]
      BY <2>5, <2>6, Zenon
    <3>. QED BY <2>3, <2>6, <3>1, Zenon
  <2>. QED BY <2>1, <2>4, <2>5, <2>6, <2>7, Zenon DEF b
<1>. QED BY <1>1, <1>2, Zenon

\* takeLastHost of nothing: no host.
LEMMA NoHost == takeLastHost(<<>>) = [ok |-> TRUE, host |-> <<>>, rest |-> <<>>]
<1>. DEFINE e == <<>>
<1>1. e \in Seq(Tokens) /\ \A j \in 1 .. Len(e) : e[j] # ":"
  OBVIOUS
<1>2. SubSeq(e, 1, 0) = <<>> /\ SubSeq(e, 1, -1) = <<>> /\ Len(e) = 0 /\ 0 + 1 = 1 /\ 0 - 1 = -1
  OBVIOUS
<1>3. LastIndex(e, ":") = 0
  <2>. HIDE DEF e
  <2>. QED BY <1>1, NoIndex, Zenon
<1>4. After(e, 0) = <<>> /\ Before(e, 0) = <<>>
  BY <1>2, Zenon DEF After, Before
<1>. QED BY <1>3, <1>4, Zenon DEF takeLastHost

\* The source host is what is left of r once its port and the colon before
\* that are taken off.
LEMMA SourceHost ==
  ASSUME NEW h \in Hosts \cup {<<>>}, NEW r \in Seq(Tokens), Len(r) = Len(Prefix(h)) + 1,
         \A j \in 1 .. Len(Prefix(h)) : r[j] = Prefix(h)[j]
  PROVE  takeLastHost(SubSeq(r, 1, Len(r) - 2)) = [ok |-> TRUE, host |-> h, rest |-> <<>>]
<1>1. CASE h = <<>> /\ Len(Prefix(h)) = 0
  <2>1. Len(r) - 2 = -1
    BY <1>1
  <2>2. SubSeq(r, 1, -1) = <<>>
    BY SubSeqEmpty
  <2>. QED BY <1>1, <2>1, <2>2, NoHost, Zenon
<1>2. CASE /\ h \in Hosts /\ Bracketed(h) \in Seq(Tokens) /\ Len(Bracketed(h)) \in Nat
           /\ Len(Prefix(h)) = Len(Bracketed(h)) + 1
           /\ \A i \in 1 .. Len(Bracketed(h)) : Prefix(h)[i] = Bracketed(h)[i]
  <2>. DEFINE b == Bracketed(h)
  <2>. HIDE DEF b
  <2>1. /\ b \in Seq(Tokens) /\ Len(b) \in Nat /\ Len(r) = Len(b) + 1 + 1
        /\ Len(Prefix(h)) = Len(b) + 1 /\ \A i \in 1 .. Len(b) : Prefix(h)[i] = b[i]
    BY <1>2, Zenon DEF b
  <2>2. /\ Len(r) - 2 = Len(b) /\ Len(b) <= Len(r) /\ Len(b) = 0 + Len(b) /\ 0 \in Nat
        /\ 1 .. Len(b) \subseteq 1 .. Len(b) + 1 /\ \A j \in 1 .. Len(b) : 0 + j = j
    BY <2>1
  <2>3. \A j \in 1 .. Len(b) : r[j] = b[j]
    BY <2>1, <2>2, Zenon
  <2>4. SubSeq(r, 1, Len(b)) = b
    BY <2>1, <2>2, <2>3, FrontIs, Zenon
  <2>5. SubSeq(r, 1, Len(r) - 2) = b
    BY <2>2, <2>4, Zenon
  <2>6. \A j \in 1 .. Len(b) : b[0 + j] = b[j]
    BY <2>2, Zenon
  <2>7. SubSeq(b, 1, 0 - 1) = <<>>
    BY SubSeqEmpty
  <2>8. ~(0 > 0)
    OBVIOUS
  <2>9. takeLastHost(b) = [ok |-> TRUE, host |-> h, rest |-> SubSeq(b, 1, 0 - 1)]
    BY <1>2, <2>1, <2>2, <2>6, <2>8, LastHost, Zenon DEF b
  <2>. QED BY <2>5, <2>7, <2>9, Zenon
<1>. QED BY <1>1, <1>2, PrefixOf, Zenon

\* The protocol of a mapping: tcp unless the text names one.
Proto(m) == IF m.proto = "" THEN "tcp" ELSE m.proto

\* Whatever the hosts and ports, parseMapping reads back the mapping that was
\* written: no port is taken for a part of an IPv6 address or the reverse.
THEOREM ParseWritten ==
  ASSUME NEW m \in Mappings
  PROVE  parseMapping(Written(m).text, m.proto)
           = [ok |-> TRUE, network |-> Proto(m), fromHost |-> m.source,
              fromPort |-> m.port, target |-> <<m.host, m.hostport>>]
<1>1. /\ m.source \in Hosts \cup {<<>>} /\ m.port \in Ports /\ m.host \in Hosts
      /\ m.hostport \in Ports /\ m.proto \in {""} \cup Networks
  BY Zenon DEF Mappings
<1>. DEFINE s == Prefix(m.source)
            p == <<m.port, ":">>
            b == Bracketed(m.host)
            q == <<":", m.hostport>>
            sp == s \o p
            spb == sp \o b
            text == spb \o q
<1>2. Written(m).text = text
  BY Zenon DEF Written, Prefix
<1>3. s \in Seq(Tokens) /\ Len(s) \in Nat /\ (Len(s) > 0 => s[Len(s)] = ":")
  BY <1>1, PrefixOf, Zenon
<1>4. b \in Seq(Tokens) /\ Len(b) \in Nat
  <2>1. b \in Seq(Tokens)
    BY <1>1, BracketedHost, Zenon
  <2>. HIDE DEF b
  <2>. QED BY <2>1
<1>5. p \in Seq(Tokens) /\ q \in Seq(Tokens) /\ Len(p) = 2 /\ Len(q) = 2
  <2>1. m.port \in Tokens /\ m.hostport \in Tokens /\ ":" \in Tokens
    BY <1>1, WordsAssumption, Zenon DEF Tokens, Separators
  <2>. QED BY <2>1
<1>6. p[1] = m.port /\ p[2] = ":" /\ q[1] = ":" /\ q[2] = m.hostport
  OBVIOUS
<1>. HIDE DEF s, p, b, q
<1>7. /\ sp \in Seq(Tokens) /\ Len(sp) = Len(s) + Len(p)
      /\ \A i \in 1 .. Len(s) : sp[i] = s[i]
      /\ \A i \in 1 .. Len(p) : sp[Len(s) + i] = p[i]
  <2>1. s \in Seq(Tokens) /\ p \in Seq(Tokens)
    BY <1>3, <1>5, Zenon
  <2>. QED BY <2>1, Joined
<1>. HIDE DEF sp
<1>8. /\ spb \in Seq(Tokens) /\ Len(spb) = Len(sp) + Len(b)
      /\ \A i \in 1 .. Len(sp) : spb[i] = sp[i]
      /\ \A i \in 1 .. Len(b) : spb[Len(sp) + i] = b[i]
  <2>1. sp \in Seq(Tokens) /\ b \in Seq(Tokens)
    BY <1>4, <1>7, Zenon
  <2>. QED BY <2>1, Joined
<1>. HIDE DEF spb
<1>9. /\ text \in Seq(Tokens) /\ Len(text) = Len(spb) + Len(q)
      /\ \A i \in 1 .. Len(spb) : text[i] = spb[i]
      /\ \A i \in 1 .. Len(q) : text[Len(spb) + i] = q[i]
  <2>1. spb \in Seq(Tokens) /\ q \in Seq(Tokens)
    BY <1>5, <1>8, Zenon
  <2>. QED BY <2>1, Joined
<1>. HIDE DEF text
<1>10. /\ Len(sp) = Len(s) + 2 /\ Len(spb) = Len(s) + 2 + Len(b)
       /\ Len(text) = Len(s) + 2 + Len(b) + 2
  BY <1>5, <1>7, <1>8, <1>9, Zenon
<1>11. takeLastPort(text) = [ok |-> TRUE, port |-> m.hostport, rest |-> spb]
  <2>1. 1 \in 1 .. Len(q) /\ 2 \in 1 .. Len(q)
    BY <1>5
  <2>2. text[Len(spb) + 1] = ":" /\ text[Len(spb) + 2] = m.hostport
    BY <1>6, <1>9, <2>1, Zenon
  <2>3. /\ Len(spb) \in Nat /\ Len(text) = Len(spb) + 2 /\ Len(text) >= 1 /\ Len(text) > 1
        /\ Len(text) - 1 = Len(spb) + 1 /\ Len(text) - 2 = Len(spb) /\ Len(spb) <= Len(text)
    BY <1>3, <1>4, <1>10
  <2>4. SubSeq(text, 1, Len(spb)) = spb
    BY <1>8, <1>9, <2>3, FrontIs, Zenon
  <2>5. takeLastPort(text)
          = [ok |-> TRUE, port |-> m.hostport, rest |-> SubSeq(text, 1, Len(text) - 2)]
    BY <1>1, <1>9, <2>2, <2>3, LastPort, Zenon
  <2>. QED BY <2>3, <2>4, <2>5, Zenon
<1>. DEFINE z == Len(sp) - 1
            r == SubSeq(spb, 1, z)
<1>12. takeLastHost(spb) = [ok |-> TRUE, host |-> m.host, rest |-> r]
  <2>1. 2 \in 1 .. Len(p) /\ Len(sp) = Len(s) + 2 /\ Len(sp) \in Nat /\ Len(sp) \in 1 .. Len(sp)
    BY <1>3, <1>5, <1>10
  <2>2. spb[Len(sp)] = ":"
    <3>1. sp[Len(s) + 2] = p[2]
      BY <1>7, <2>1, Zenon
    <3>2. spb[Len(sp)] = sp[Len(sp)]
      BY <1>8, <2>1, Zenon
    <3>. QED BY <1>6, <2>1, <3>1, <3>2, Zenon
  <2>. QED BY <1>1, <1>8, <2>1, <2>2, LastHost, Zenon DEF b
<1>13. /\ r \in Seq(Tokens) /\ Len(r) = Len(s) + 1 /\ r[Len(r)] = m.port
       /\ \A i \in 1 .. Len(s) : r[i] = s[i]
  <2>1. 1 \in 1 .. Len(spb) + 1 /\ z \in 0 .. Len(spb)
    BY <1>3, <1>4, <1>10
  <2>2. z = Len(s) + 1 /\ z - 1 + 1 = Len(s) + 1 /\ 1 <= z
    BY <1>3, <1>10
  <2>. HIDE DEF z
  <2>3. /\ r \in Seq(Tokens) /\ (1 <= z => Len(r) = z - 1 + 1)
        /\ \A i \in 1 .. z - 1 + 1 : r[i] = spb[1 + i - 1]
    <3>1. spb \in Seq(Tokens)
      BY <1>8, Zenon
    <3>. QED BY <2>1, <3>1, Piece
  <2>. HIDE DEF r
  <2>4. \A i \in 1 .. Len(s) + 1 : i \in 1 .. Len(sp) /\ 1 + i - 1 = i
    BY <1>3, <1>10
  <2>5. Len(r) = Len(s) + 1 /\ \A i \in 1 .. Len(s) + 1 : r[i] = sp[i]
    BY <1>8, <2>2, <2>3, <2>4, Zenon
  <2>6. 1 \in 1 .. Len(p) /\ Len(s) + 1 \in 1 .. Len(s) + 1 /\ 1 .. Len(s) \subseteq 1 .. Len(s) + 1
    BY <1>3, <1>5
  <2>. QED BY <1>6, <1>7, <2>3, <2>5, <2>6, Zenon
<1>. HIDE DEF r
<1>14. takeLastPort(r) = [ok |-> TRUE, port |-> m.port, rest |-> SubSeq(r, 1, Len(r) - 2)]
  <2>1. Len(r) >= 1 /\ Len(r) - 1 = Len(s) /\ (Len(r) > 1 => Len(s) > 0 /\ Len(s) \in 1 .. Len(s))
    BY <1>3, <1>13
  <2>2. Len(r) > 1 => r[Len(r) - 1] = ":"
    BY <1>3, <1>13, <2>1, Zenon
  <2>. QED BY <1>1, <1>13, <2>1, <2>2, LastPort, Zenon
<1>15. takeLastHost(SubSeq(r, 1, Len(r) - 2)) = [ok |-> TRUE, host |-> m.source, rest |-> <<>>]
  BY <1>1, <1>13, SourceHost, Zenon DEF s
<1>16. m.proto \in {"", "tcp", "udp"} /\ m.host # <<>>
  BY <1>1, HostsAssumption, Zenon DEF Networks
<1>. DEFINE to     == takeLastPort(text)
            host   == takeLastHost(to.rest)
            from   == takeLastPort(host.rest)
            source == takeLastHost(from.rest)
<1>17. to.ok /\ to.port = m.hostport /\ to.rest = spb
  <2>1. to = [ok |-> TRUE, port |-> m.hostport, rest |-> spb]
    BY <1>11, Zenon
  <2>. HIDE DEF to
  <2>. QED BY <2>1, Zenon
<1>18. host.ok /\ host.host = m.host /\ host.rest = r
  <2>. HIDE DEF to
  <2>1. host = [ok |-> TRUE, host |-> m.host, rest |-> r]
    BY <1>12, <1>17, Zenon
  <2>. HIDE DEF host
  <2>. QED BY <2>1, Zenon
<1>19. from.ok /\ from.port = m.port /\ from.rest = SubSeq(r, 1, Len(r) - 2)
  <2>. HIDE DEF host
  <2>1. from = [ok |-> TRUE, port |-> m.port, rest |-> SubSeq(r, 1, Len(r) - 2)]
    BY <1>14, <1>18, Zenon
  <2>. HIDE DEF from
  <2>. QED BY <2>1, Zenon
<1>20. source.ok /\ source.host = m.source /\ source.rest = <<>>
  <2>. HIDE DEF from
  <2>1. source = [ok |-> TRUE, host |-> m.source, rest |-> <<>>]
    BY <1>15, <1>19, Zenon
  <2>. HIDE DEF source
  <2>. QED BY <2>1, Zenon
<1>21. parseMapping(text, m.proto)
         = IF /\ m.proto \in {"", "tcp", "udp"}
              /\ to.ok /\ host.ok /\ host.host # <<>>
              /\ from.ok /\ source.ok /\ source.rest = <<>>
           THEN [ok       |-> TRUE,
                 network  |-> IF m.proto = "" THEN "tcp" ELSE m.proto,
                 fromHost |-> source.host, fromPort |-> from.port,
                 target   |-> <<host.host, to.port>>]
           ELSE Fails
  BY Zenon DEF parseMapping
<1>. HIDE DEF to, host, from, source
<1>. QED BY <1>2, <1>16, <1>17, <1>18, <1>19, <1>20, <1>21, Zenon DEF Proto

\* The tables that parseAddressMapper goes through: g[k] after k texts.
IsTable(g, mappings, n) ==
  g = [k \in 0 .. n |->
        IF k = 0 THEN <<>>
        ELSE AddAddressMapping(g[k - 1], parseMapping(mappings[k].text, mappings[k].proto))]

\* There are such tables for a list of any length: the loop of
\* parseAddressMapper is well defined.
LEMMA TableExists ==
  ASSUME NEW mappings, NEW n \in Nat PROVE \E g : IsTable(g, mappings, n)
<1>. DEFINE P(k) == parseMapping(mappings[k].text, mappings[k].proto)
            S == {k \in 0 .. n : \E g : IsTable(g, mappings, k)}
<1>1. 0 \in S
  <2>. DEFINE g == [k \in 0 .. 0 |-> <<>>]
  <2>1. \A k \in 0 .. 0 : k = 0
    OBVIOUS
  <2>2. g = [k \in 0 .. 0 |-> IF k = 0 THEN <<>> ELSE AddAddressMapping(g[k - 1], P(k))]
    BY <2>1, Zenon
  <2>3. IsTable(g, mappings, 0)
    <3>. HIDE DEF g
    <3>. QED BY <2>2, Zenon DEF IsTable
  <2>4. 0 \in 0 .. n
    OBVIOUS
  <2>. QED BY <2>3, <2>4, Zenon
<1>2. ASSUME NEW k \in 0 .. n - 1, k \in S PROVE k + 1 \in S
  <2>1. PICK g : IsTable(g, mappings, k)
    BY <1>2, Zenon
  <2>2. g = [j \in 0 .. k |-> IF j = 0 THEN <<>> ELSE AddAddressMapping(g[j - 1], P(j))]
    BY <2>1, Zenon DEF IsTable
  <2>. DEFINE f == [j \in 0 .. k + 1 |-> IF j <= k THEN g[j] ELSE AddAddressMapping(g[k], P(k + 1))]
  <2>. HIDE DEF P
  <2>3. ASSUME NEW j \in 0 .. k + 1
        PROVE  f[j] = IF j = 0 THEN <<>> ELSE AddAddressMapping(f[j - 1], P(j))
    <3>1. CASE j = 0
      <4>1. 0 \in 0 .. k /\ 0 \in 0 .. k + 1 /\ 0 <= k
        OBVIOUS
      <4>2. f[0] = g[0]
        BY <4>1, Zenon
      <4>3. g[0] = <<>>
        BY <2>2, <4>1, Zenon
      <4>. QED BY <3>1, <4>2, <4>3, Zenon
    <3>2. CASE j # 0 /\ j <= k
      <4>1. j \in 0 .. k /\ j \in 0 .. k + 1 /\ j - 1 \in 0 .. k + 1 /\ j - 1 <= k
        BY <3>2
      <4>2. f[j] = g[j] /\ f[j - 1] = g[j - 1]
        BY <3>2, <4>1, Zenon
      <4>3. g[j] = AddAddressMapping(g[j - 1], P(j))
        BY <2>2, <3>2, <4>1, Zenon
      <4>. HIDE DEF f
      <4>. QED BY <3>2, <4>2, <4>3, Zenon
    <3>3. CASE j = k + 1
      <4>1. k + 1 \in 0 .. k + 1 /\ k \in 0 .. k + 1 /\ k <= k /\ ~(k + 1 <= k) /\ k + 1 # 0 /\ k + 1 - 1 = k
        OBVIOUS
      <4>2. f[k + 1] = AddAddressMapping(g[k], P(k + 1)) /\ f[k] = g[k]
        BY <4>1, Zenon
      <4>. HIDE DEF f
      <4>3. j # 0 /\ j - 1 = k
        BY <3>3
      <4>4. f[j] = AddAddressMapping(f[j - 1], P(j))
        BY <3>3, <4>2, <4>3, Zenon
      <4>. QED BY <4>3, <4>4, Zenon
    <3>4. j = 0 \/ (j # 0 /\ j <= k) \/ j = k + 1
      OBVIOUS
    <3>. HIDE DEF f
    <3>. QED BY <3>1, <3>2, <3>3, <3>4, Zenon
  <2>4. f = [j \in 0 .. k + 1 |-> f[j]]
    BY Zenon
  <2>. HIDE DEF f
  <2>5. f = [j \in 0 .. k + 1 |-> IF j = 0 THEN <<>> ELSE AddAddressMapping(f[j - 1], P(j))]
    BY <2>3, <2>4, Zenon
  <2>6. IsTable(f, mappings, k + 1)
    BY <2>5, Zenon DEF IsTable, P
  <2>7. k + 1 \in 0 .. n
    OBVIOUS
  <2>. QED BY <2>6, <2>7, Zenon
<1>3. n \in 0 .. n
  OBVIOUS
<1>4. 0 .. n \subseteq S
  <2>. HIDE DEF S
  <2>. QED BY <1>1, <1>2, UpTo, Zenon
<1>. QED BY <1>3, <1>4, Zenon

\* parseAddressMapper adds one mapping after another, in the order given.
LEMMA TableSteps ==
  ASSUME NEW mappings, Len(mappings) \in Nat
  PROVE  \E g : /\ g[0] = <<>> /\ parseAddressMapper(mappings) = g[Len(mappings)]
                /\ \A k \in 1 .. Len(mappings) :
                     g[k] = AddAddressMapping(g[k - 1],
                              parseMapping(mappings[k].text, mappings[k].proto))
<1>. DEFINE n == Len(mappings)
            g == CHOOSE g : IsTable(g, mappings, n)
<1>1. parseAddressMapper(mappings) = g[n]
  BY Zenon DEF parseAddressMapper, IsTable
<1>2. IsTable(g, mappings, n)
  BY TableExists, Zenon
<1>. HIDE DEF g
<1>3. /\ 0 \in 0 .. n
      /\ \A k \in 1 .. n : k \in 0 .. n /\ k # 0
  OBVIOUS
<1>4. g[0] = <<>>
  BY <1>2, <1>3, Zenon DEF IsTable
<1>5. ASSUME NEW k \in 1 .. n
      PROVE  g[k] = AddAddressMapping(g[k - 1], parseMapping(mappings[k].text, mappings[k].proto))
  BY <1>2, <1>3, Zenon DEF IsTable
<1>. QED BY <1>1, <1>4, <1>5, Zenon

\* The key that a parsed mapping is entered under.
NewKey(m) == <<m.network, KeyHost(m.fromHost), m.fromPort>>

\* The same, of a mapping as it is written.
KeyOf(m) == <<Proto(m), KeyHost(m.source), m.port>>

\* The table has a key if a mapping of the list has it, with the target of
\* the last of them (parseAddressMapper, AddAddressMapping).
LEMMA TableOf ==
  ASSUME NEW ms \in Seq(Mappings), NEW key
  PROVE  LET nat == parseAddressMapper(WrittenAll(ms))
             I == {i \in DOMAIN ms : KeyOf(ms[i]) = key}
         IN  /\ key \in DOMAIN nat <=> I # {}
             /\ I # {} => nat[key] = <<ms[Max(I)].host, ms[Max(I)].hostport>>
<1>. DEFINE w == WrittenAll(ms)
            n == Len(ms)
            nat == parseAddressMapper(w)
            I(k) == {i \in 1 .. k : KeyOf(ms[i]) = key}
            To(i) == <<ms[i].host, ms[i].hostport>>
            Good(t, k) == /\ key \in DOMAIN t <=> I(k) # {}
                          /\ I(k) # {} => \E x \in I(k) : (\A y \in I(k) : y <= x) /\ t[key] = To(x)
<1>1. n \in Nat /\ DOMAIN ms = 1 .. n /\ \A i \in 1 .. n : ms[i] \in Mappings
  OBVIOUS
<1>2. /\ Len(w) = n
      /\ \A i \in 1 .. n : w[i] = Written(ms[i])
  <2>1. w = [i \in 1 .. n |-> Written(ms[i])]
    BY <1>1, Zenon DEF WrittenAll
  <2>. HIDE DEF w, n
  <2>. QED BY <1>1, <2>1
<1>3. PICK g : /\ g[0] = <<>> /\ nat = g[n]
               /\ \A k \in 1 .. n :
                    g[k] = AddAddressMapping(g[k - 1], parseMapping(w[k].text, w[k].proto))
  <2>1. Len(w) = n /\ n \in Nat
    BY <1>1, <1>2, Zenon
  <2>. HIDE DEF w, n
  <2>2. Len(w) \in Nat
    BY <2>1, Zenon
  <2>3. PICK g : /\ g[0] = <<>> /\ parseAddressMapper(w) = g[Len(w)]
                 /\ \A k \in 1 .. Len(w) :
                      g[k] = AddAddressMapping(g[k - 1], parseMapping(w[k].text, w[k].proto))
    BY <2>2, TableSteps, Zenon
  <2>. QED BY <2>1, <2>3, Zenon
<1>4. \A k \in 1 .. n :
         parseMapping(w[k].text, w[k].proto)
           = [ok |-> TRUE, network |-> Proto(ms[k]), fromHost |-> ms[k].source,
              fromPort |-> ms[k].port, target |-> To(k)]
  <2>. SUFFICES ASSUME NEW k \in 1 .. n
                PROVE  parseMapping(w[k].text, w[k].proto)
                         = [ok |-> TRUE, network |-> Proto(ms[k]), fromHost |-> ms[k].source,
                            fromPort |-> ms[k].port, target |-> To(k)]
    BY Zenon
  <2>1. Written(ms[k]).proto = ms[k].proto
    BY Zenon DEF Written
  <2>2. w[k] = Written(ms[k])
    BY <1>2, Zenon
  <2>. HIDE DEF w
  <2>. QED BY <1>1, <2>1, <2>2, ParseWritten, Zenon
<1>. HIDE DEF w, nat
<1>. DEFINE S == {k \in 0 .. n : Good(g[k], k)}
<1>5. 0 \in S
  <2>1. I(0) = {} /\ 0 \in 0 .. n
    BY <1>1
  <2>2. key \notin DOMAIN g[0]
    BY <1>3
  <2>. QED BY <2>1, <2>2, Zenon
<1>6. ASSUME NEW k \in 0 .. n - 1, k \in S PROVE k + 1 \in S
  <2>. DEFINE j == k + 1
              r == [ok |-> TRUE, network |-> Proto(ms[j]), fromHost |-> ms[j].source,
                    fromPort |-> ms[j].port, target |-> To(j)]
  <2>1. j \in 1 .. n /\ j \in 0 .. n /\ j - 1 = k
    OBVIOUS
  <2>2. g[j] = AddAddressMapping(g[k], r)
    BY <1>3, <1>4, <2>1, Zenon
  <2>3. KeyOf(ms[j]) = NewKey(r) /\ r.target = To(j)
    BY Zenon DEF KeyOf, NewKey
  <2>4. Good(g[k], k)
    BY <1>6, Zenon
  <2>. HIDE DEF r
  <2>5. /\ key \in DOMAIN g[j] <=> key \in DOMAIN g[k] \/ key = KeyOf(ms[j])
        /\ key = KeyOf(ms[j]) => g[j][key] = To(j)
        /\ key # KeyOf(ms[j]) /\ key \in DOMAIN g[k] => g[j][key] = g[k][key]
    <3>. HIDE DEF S, To, j, n
    <3>1. /\ key \in DOMAIN AddAddressMapping(g[k], r) <=> key \in DOMAIN g[k] \/ key = NewKey(r)
          /\ key = NewKey(r) => AddAddressMapping(g[k], r)[key] = r.target
          /\ key # NewKey(r) /\ key \in DOMAIN g[k] => AddAddressMapping(g[k], r)[key] = g[k][key]
      BY Zenon DEF AddAddressMapping, NewKey
    <3>. QED BY <2>2, <2>3, <3>1, Zenon
  <2>6. CASE key = KeyOf(ms[j])
    <3>1. j \in I(j) /\ \A y \in I(j) : y <= j
      BY <2>6
    <3>. HIDE DEF I
    <3>2. Good(g[j], j)
      BY <2>5, <2>6, <3>1, Zenon
    <3>. QED BY <2>1, <3>2, Zenon
  <2>7. CASE key # KeyOf(ms[j])
    <3>1. I(j) = I(k)
      <4>1. \A i : i \in 1 .. j <=> i \in 1 .. k \/ i = j
        OBVIOUS
      <4>. HIDE DEF j
      <4>. QED BY <2>7, <4>1, Zenon
    <3>. HIDE DEF I
    <3>2. Good(g[j], j)
      BY <2>4, <2>5, <2>7, <3>1, Zenon
    <3>. QED BY <2>1, <3>2, Zenon
  <2>. QED BY <2>6, <2>7, Zenon
<1>7. 0 .. n \subseteq S
  <2>. HIDE DEF S
  <2>. QED BY <1>1, <1>5, <1>6, UpTo, Zenon
<1>8. Good(nat, n)
  <2>1. n \in 0 .. n
    BY <1>1
  <2>. QED BY <1>3, <1>7, <2>1, Zenon
<1>9. I(n) \in SUBSET Nat /\ I(n) = {i \in DOMAIN ms : KeyOf(ms[i]) = key}
  <2>1. 1 .. n \subseteq Nat
    BY <1>1
  <2>. QED BY <1>1, <2>1, Zenon
<1>. HIDE DEF I
<1>10. I(n) # {} => nat[key] = To(Max(I(n)))
  <2>. SUFFICES ASSUME I(n) # {} PROVE nat[key] = To(Max(I(n)))
    OBVIOUS
  <2>1. PICK x \in I(n) : (\A y \in I(n) : y <= x) /\ nat[key] = To(x)
    BY <1>8, Zenon
  <2>2. Max(I(n)) = x
    BY <1>9, <2>1, MaxIs, Zenon
  <2>. QED BY <2>1, <2>2, Zenon
<1>. QED BY <1>8, <1>9, <1>10, Zenon DEF nat, w

\* A source host has the key of an address if it is the text of that address,
\* and the key of a bare port if it is one of the texts for any host.
LEMMA KeyHosts ==
  /\ \A h, ip : ip \in IP => (KeyHost(h) = Text[ip] <=> h \in {Text[ip]})
  /\ \A h : KeyHost(h) = AnyHost <=> h \in AnyTexts
<1>1. AnyHost \in AnyTexts
  BY DEF AnyHost, AnyTexts
<1>. QED BY <1>1, TextAssumption, Zenon DEF KeyHost

\* Whatever the list of -L mappings, MapAddress finds what was meant.
LEMMA MappedAsMeant ==
  ASSUME NEW ms \in Seq(Mappings), NEW network, NEW ip \in IP, NEW port
  PROVE  MapAddress(parseAddressMapper(WrittenAll(ms)), network, ip, port)
           = Meant(ms, network, ip, port)
<1>. DEFINE nat == parseAddressMapper(WrittenAll(ms))
            For(hosts) == {i \in DOMAIN ms :
                             /\ ms[i].port = port /\ ms[i].source \in hosts
                             /\ network = IF ms[i].proto = "" THEN "tcp" ELSE ms[i].proto}
            Target(I) == <<ms[Max(I)].host, ms[Max(I)].hostport>>
            Of(host) == {i \in DOMAIN ms : KeyOf(ms[i]) = <<network, host, port>>}
<1>1. \A host : /\ <<network, host, port>> \in DOMAIN nat <=> Of(host) # {}
                /\ Of(host) # {} => nat[<<network, host, port>>] = Target(Of(host))
  <2>. SUFFICES ASSUME NEW host
                PROVE  /\ <<network, host, port>> \in DOMAIN nat <=> Of(host) # {}
                       /\ Of(host) # {} => nat[<<network, host, port>>] = Target(Of(host))
    BY Zenon
  <2>. DEFINE key == <<network, host, port>>
  <2>. HIDE DEF key
  <2>1. LET I == {i \in DOMAIN ms : KeyOf(ms[i]) = key}
        IN  /\ key \in DOMAIN nat <=> I # {}
            /\ I # {} => nat[key] = <<ms[Max(I)].host, ms[Max(I)].hostport>>
    BY TableOf, Zenon
  <2>. QED BY <2>1, Zenon DEF key
<1>2. Of(Text[ip]) = For({Text[ip]})
  BY KeyHosts, Zenon DEF KeyOf, Proto
<1>3. Of(AnyHost) = For(AnyTexts)
  BY KeyHosts, Zenon DEF KeyOf, Proto
<1>. DEFINE e == For({Text[ip]})
            a == For(AnyTexts)
            toE == Target(e)
            toA == Target(a)
            x == <<network, Text[ip], port>>
            y == <<network, AnyHost, port>>
<1>4. Meant(ms, network, ip, port)
        = IF e # {} THEN toE ELSE IF a # {} THEN toA ELSE NotMapped
  BY Zenon DEF Meant
<1>5. MapAddress(nat, network, ip, port)
        = IF x \in DOMAIN nat THEN nat[x] ELSE IF y \in DOMAIN nat THEN nat[y] ELSE NotMapped
  BY Zenon DEF MapAddress
<1>. HIDE DEF nat, For, Of, Target
<1>6. (x \in DOMAIN nat <=> e # {}) /\ (e # {} => nat[x] = toE)
  BY <1>1, <1>2, Zenon
<1>7. (y \in DOMAIN nat <=> a # {}) /\ (a # {} => nat[y] = toA)
  BY <1>1, <1>3, Zenon
<1>. HIDE DEF e, a, toE, toA, x, y
<1>8. MapAddress(nat, network, ip, port) = Meant(ms, network, ip, port)
  BY <1>4, <1>5, <1>6, <1>7
<1>. QED BY <1>8, Zenon DEF nat
----------------------------------------------------------------------------
(* The stack                                                               *)

\* Under every configuration, a destination is mapped to the target that the
\* user of -L meant: MapAddress on the table of parseAddressMapper.
THEOREM MappedTheorem == Spec => []MappedAsWritten
<1>. DEFINE Configured == conf \in Configs
<1>1. Init => Configured
  BY Zenon DEF Init
<1>2. Configured /\ [Next]_vars => Configured'
  <2>1. Next => UNCHANGED conf
    BY Zenon DEF Next, Ask, Connect, GiveUp, HandlePacket, Handle, Dial, Refuse,
         CreateEndpoint, CreateEndpointFails, CompleteOk, CompleteErr, CloseLocal, CloseDst,
         HandleICMP
  <2>. QED BY <2>1, Zenon DEF vars
<1>3. Configured => MappedAsWritten
  <2>. SUFFICES ASSUME Configured, NEW network \in Networks, NEW ip \in IP, NEW port \in Ports
                PROVE  MapAddress(conf.nat, network, ip, port)
                         = Meant(conf.written, network, ip, port)
    BY Zenon DEF MappedAsWritten
  <2>1. /\ conf.written \in Seq(Mappings)
        /\ conf.nat = parseAddressMapper(WrittenAll(conf.written))
    BY ConfigsAssumption, Zenon
  <2>. QED BY <2>1, MappedAsMeant, Zenon
<1>. QED BY <1>1, <1>2, <1>3, PTL DEF Spec
============================================================================
