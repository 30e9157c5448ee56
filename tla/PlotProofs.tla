----------------------------- MODULE PlotProofs -----------------------------
(***************************************************************************)
(* Proofs about what the plotting commands compute: the bytes of strings   *)
(* and the colours read from them, the rounding of floats, which keeps     *)
(* their order, and the ranges that grow by one span after the other.      *)
(***************************************************************************)
EXTENDS Charts, SequenceTheorems, WellFoundedInduction, TLAPS

-----------------------------------------------------------------------------
(* Induction, by a least counterexample. *)

LEMMA LeastOf ==
    ASSUME NEW T, T \subseteq Nat, T # {}
    PROVE  \E x \in T : \A y \in T : x <= y
<1> DEFINE R == OpToRel(<, Nat)
<1>1. IsWellFoundedOn(R, Nat)
    BY NatLessThanWellFounded
<1>2. \A x, y \in Nat : <<x, y>> \in R <=> x < y
    BY DEF OpToRel
<1> HIDE DEF R
<1>3. PICK x \in T : \A y \in T : ~(<<y, x>> \in R)
    BY <1>1, WFMin
<1>4. ASSUME NEW y \in T PROVE x <= y
    <2>1. ~(y < x)
        BY <1>2, <1>3
    <2> QED
        BY <2>1
<1> QED
    BY <1>4

LEMMA NatSetInduction ==
    ASSUME NEW S, 0 \in S, \A n \in Nat : n \in S => n + 1 \in S
    PROVE  Nat \subseteq S
<1> DEFINE T == Nat \ S
<1>1. ASSUME T # {} PROVE FALSE
    <2>1. T \subseteq Nat
        OBVIOUS
    <2> HIDE DEF T
    <2>2. PICK x \in T : \A y \in T : x <= y
        BY <1>1, <2>1, LeastOf
    <2>3. x \in Nat /\ x # 0 /\ x - 1 \in Nat /\ x - 1 \notin T
        BY <2>1, <2>2 DEF T
    <2>4. x - 1 \in S
        BY <2>3 DEF T
    <2> QED
        BY <2>2, <2>3, <2>4 DEF T
<1> QED
    BY <1>1

-----------------------------------------------------------------------------
(* Characters and bytes. *)

(* The sequences up to each place, one behind the other. *)
LEMMA FlatExists ==
    ASSUME NEW s, NEW n \in Nat
    PROVE  \E f : f = [i \in 1..n |-> IF i = 1 THEN s[i] ELSE f[i - 1] \o s[i]]
<1> DEFINE Flat(f, m) == f = [i \in 1..m |-> IF i = 1 THEN s[i] ELSE f[i - 1] \o s[i]]
           S == {m \in Nat : \E f : Flat(f, m)}
<1>1. 0 \in S
    <2>1. Flat([i \in 1..0 |-> 0], 0)
        OBVIOUS
    <2> QED
        BY <2>1
<1>2. ASSUME NEW m \in Nat, m \in S PROVE m + 1 \in S
    <2>1. PICK f : Flat(f, m)
        BY <1>2
    <2> DEFINE g == [i \in 1..(m + 1) |-> IF i <= m THEN f[i]
                                          ELSE IF i = 1 THEN s[i] ELSE f[m] \o s[i]]
               h == [i \in 1..(m + 1) |-> IF i = 1 THEN s[i] ELSE g[i - 1] \o s[i]]
    <2>2. ASSUME NEW i \in 1..(m + 1) PROVE g[i] = h[i]
        <3>1. CASE i <= m
            <4>1. g[i] = f[i] /\ i \in 1..m
                BY <3>1
            <4>2. f[i] = IF i = 1 THEN s[i] ELSE f[i - 1] \o s[i]
                BY <2>1, <4>1
            <4>3. i # 1 => g[i - 1] = f[i - 1]
                BY <3>1
            <4> HIDE DEF g
            <4> QED
                BY <4>1, <4>2, <4>3
        <3>2. CASE i = m + 1
            <4>1. g[i] = IF i = 1 THEN s[i] ELSE f[m] \o s[i]
                BY <3>2
            <4>2. i # 1 => g[i - 1] = f[m]
                BY <3>2
            <4> HIDE DEF g
            <4> QED
                BY <4>1, <4>2
        <3> QED
            BY <3>1, <3>2
    <2>3. g = h
        <3>1. g = [i \in 1..(m + 1) |-> g[i]] /\ h = [i \in 1..(m + 1) |-> h[i]]
            OBVIOUS
        <3> HIDE DEF g, h
        <3> QED
            BY <2>2, <3>1
    <2>4. Flat(g, m + 1)
        BY <2>3
    <2> HIDE DEF Flat
    <2> QED
        BY <2>4
<1> HIDE DEF S
<1>3. n \in S
    BY <1>1, <1>2, NatSetInduction
<1> QED
    BY <1>3 DEF S

LEMMA Flattened ==
    ASSUME NEW s, Len(s) \in Nat \ {0}
    PROVE  \E f : /\ FlattenSeq(s) = f[Len(s)]
                  /\ f[1] = s[1]
                  /\ \A i \in 2..Len(s) : f[i] = f[i - 1] \o s[i]
<1> DEFINE Flat(f) == f = [i \in 1..Len(s) |-> IF i = 1 THEN s[i] ELSE f[i - 1] \o s[i]]
           all == CHOOSE f : Flat(f)
<1>1. FlattenSeq(s) = all[Len(s)]
    BY DEF FlattenSeq
<1>2. \E f : Flat(f)
    BY FlatExists
<1>3. PICK f : f = all /\ Flat(f)
    <2> HIDE DEF Flat
    <2> QED
        BY <1>2
<1>4. f[1] = s[1] /\ \A i \in 2..Len(s) : f[i] = f[i - 1] \o s[i]
    <2>1. f = [i \in 1..Len(s) |-> IF i = 1 THEN s[i] ELSE f[i - 1] \o s[i]]
        BY <1>3
    <2>2. \A i \in 1..Len(s) : f[i] = IF i = 1 THEN s[i] ELSE f[i - 1] \o s[i]
        BY <2>1, Zenon
    <2>3. 1 \in 1..Len(s) /\ \A i \in 2..Len(s) : i \in 1..Len(s) /\ i # 1
        OBVIOUS
    <2> QED
        BY <2>2, <2>3, Zenon
<1> QED
    BY <1>1, <1>3, <1>4, ZenonT(60)

(* A string without wide characters is its bytes. *)
LEMMA BytesOfNarrow ==
    ASSUME NEW S, NEW t \in Seq(S), t # <<>>, \A i \in DOMAIN t : t[i] # "wide"
    PROVE  BytesOf(t) = t
<1> DEFINE n == Len(t)
           s == [i \in DOMAIN t |-> IF t[i] = "wide" THEN <<"wide", "tail">> ELSE <<t[i]>>]
<1>1. n \in Nat \ {0} /\ DOMAIN t = 1..n
    BY EmptySeq, LenProperties
<1>2. \A i \in 1..n : s[i] = <<t[i]>> /\ s[i] \in Seq(S) /\ Len(s[i]) = 1 /\ s[i][1] = t[i]
    BY <1>1
<1>3. Len(s) = n
    BY <1>1
<1> HIDE DEF s
<1>4. PICK f : /\ FlattenSeq(s) = f[Len(s)]
               /\ f[1] = s[1]
               /\ \A i \in 2..Len(s) : f[i] = f[i - 1] \o s[i]
    <2>1. Len(s) \in Nat \ {0}
        BY <1>1, <1>3
    <2> QED
        BY <2>1, Flattened, Zenon
<1> DEFINE Upto(q, m) == q \in Seq(S) /\ Len(q) = m /\ \A i \in 1..m : q[i] = t[i]
           T == {m \in Nat : m + 1 \in 1..n => Upto(f[m + 1], m + 1)}
<1>5. 0 \in T
    BY <1>1, <1>2, <1>4
<1>6. ASSUME NEW m \in Nat, m \in T PROVE m + 1 \in T
    <2> SUFFICES ASSUME m + 2 \in 1..n PROVE Upto(f[m + 2], m + 2)
        OBVIOUS
    <2> DEFINE p == f[m + 1]
               q == s[m + 2]
    <2>1. Upto(p, m + 1)
        BY <1>1, <1>6
    <2>2. f[m + 2] = p \o q
        <3>1. m + 2 \in 2..Len(s) /\ m + 2 - 1 = m + 1
            BY <1>1, <1>3
        <3>2. ASSUME NEW j \in 2..Len(s) PROVE f[j] = f[j - 1] \o s[j]
            BY <1>4, Zenon
        <3>3. PICK j : j = m + 2 /\ j \in 2..Len(s) /\ j - 1 = m + 1
            BY <3>1
        <3>4. f[j] = f[j - 1] \o s[j]
            BY <3>2, <3>3, Zenon
        <3> QED
            BY <3>3, <3>4, Zenon
    <2>3. q \in Seq(S) /\ Len(q) = 1 /\ q[1] = t[m + 2]
        BY <1>2
    <2> HIDE DEF p, q
    <2>4. /\ p \o q \in Seq(S) /\ Len(p \o q) = m + 2
          /\ \A i \in 1..(m + 2) : (p \o q)[i] = IF i <= m + 1 THEN p[i] ELSE q[i - (m + 1)]
        BY <2>1, <2>3, ConcatProperties
    <2>5. ASSUME NEW i \in 1..(m + 2) PROVE (p \o q)[i] = t[i]
        <3>1. CASE i <= m + 1
            BY <2>1, <2>4, <3>1
        <3>2. CASE i = m + 2
            BY <2>3, <2>4, <3>2
        <3>3. i <= m + 1 \/ i = m + 2
            OBVIOUS
        <3> QED
            BY <3>1, <3>2, <3>3, Zenon
    <2> QED
        BY <2>2, <2>4, <2>5
<1>7. n - 1 \in T
    <2> HIDE DEF T
    <2> QED
        BY <1>1, <1>5, <1>6, NatSetInduction
<1>8. Upto(f[n], n)
    BY <1>1, <1>7
<1>9. f[n] = t
    <2> DEFINE q == f[n]
    <2>1. Upto(q, n)
        BY <1>8
    <2> HIDE DEF q
    <2>2. q = t
        BY <1>1, <2>1, SeqEqual
    <2> QED
        BY <2>2 DEF q
<1> QED
    BY <1>3, <1>4, <1>9 DEF BytesOf, s

LEMMA ConcatFirst ==
    ASSUME NEW S, NEW p \in Seq(S), NEW q \in Seq(S), NEW r \in Seq(S), Len(p) >= 1
    PROVE  /\ (p \o q) \o r \in Seq(S)
           /\ Len((p \o q) \o r) = Len(p) + Len(q) + Len(r)
           /\ ((p \o q) \o r)[1] = p[1]
<1> DEFINE a == p \o q
           b == a \o r
<1>1. /\ a \in Seq(S) /\ Len(a) = Len(p) + Len(q)
      /\ \A i \in 1..Len(p) + Len(q) : a[i] = IF i <= Len(p) THEN p[i] ELSE q[i - Len(p)]
    BY ConcatProperties
<1>2. Len(p) \in Nat /\ Len(q) \in Nat /\ Len(r) \in Nat
    OBVIOUS
<1> HIDE DEF a
<1>3. a[1] = p[1] /\ Len(a) >= 1
    BY <1>1, <1>2
<1>4. /\ b \in Seq(S) /\ Len(b) = Len(a) + Len(r)
      /\ \A i \in 1..Len(a) + Len(r) : b[i] = IF i <= Len(a) THEN a[i] ELSE r[i - Len(a)]
    BY <1>1, ConcatProperties, ZenonT(60)
<1> HIDE DEF b
<1>5. b[1] = a[1] /\ Len(b) = Len(p) + Len(q) + Len(r)
    BY <1>1, <1>2, <1>3, <1>4
<1> QED
    BY <1>3, <1>4, <1>5 DEF a, b

LEMMA OnesAndTwos ==
    ASSUME NEW x \in {1, 2}, NEW y \in {1, 2}, NEW z \in {1, 2}, x = 2 \/ y = 2 \/ z = 2
    PROVE  x + y + z # 3 /\ (x + y + z = 6 => x # 1)
OBVIOUS

LEMMA NoBytes ==
    ASSUME NEW S, NEW p \in Seq(S), NEW q \in Seq(S), NEW r \in Seq(S),
           Len(p) = 1 \/ (Len(p) = 2 /\ p[1] = "wide"),
           Len(q) = 1 \/ Len(q) = 2, Len(r) = 1 \/ Len(r) = 2,
           Len(p) = 2 \/ Len(q) = 2 \/ Len(r) = 2
    PROVE  HexColor((p \o q) \o r) = {}
<1> DEFINE b == (p \o q) \o r
<1>1. b \in Seq(S) /\ Len(b) = Len(p) + Len(q) + Len(r) /\ b[1] = p[1]
    BY ConcatFirst
<1> HIDE DEF b
<1>2. Len(b) # 3 /\ (Len(b) = 6 => b[1] = "wide")
    <2>1. Len(p) \in {1, 2} /\ Len(q) \in {1, 2} /\ Len(r) \in {1, 2}
        BY Zenon
    <2>2. Len(b) # 3 /\ (Len(b) = 6 => Len(p) # 1)
        BY <1>1, <2>1, OnesAndTwos, Zenon
    <2> QED
        BY <1>1, <2>2, Zenon
<1>3. CASE Len(b) = 6
    <2> DEFINE c == Pieces(b)
    <2>1. c[1] = SubSeq(b, 1, 2)
        BY <1>3 DEF Pieces
    <2> HIDE DEF c
    <2>2. c[1][1] = "wide"
        <3>1. \A i \in 1..2 : b[i] \in S
            BY <1>1, <1>3
        <3>2. \A i \in 1..2 - 1 + 1 : SubSeq(b, 1, 2)[i] = b[1 + i - 1]
            BY <3>1, SubSeqProperties
        <3>3. SubSeq(b, 1, 2)[1] = b[1]
            BY <3>2
        <3> QED
            BY <1>2, <1>3, <2>1, <3>3, Zenon
    <2>3. ByteOf(c[1]) = {}
        BY <2>2, SMTT(60) DEF ByteOf, IsDigit, ToSet, Digits
    <2> QED
        BY <1>3, <2>3 DEF HexColor, c, b
<1>4. CASE Len(b) # 6
    BY <1>2, <1>4 DEF HexColor, b
<1> QED
    BY <1>3, <1>4

(* Of three characters, a wide one makes four bytes or more, of which no   *)
(* pair is a number.                                                       *)
LEMMA BytesOfWide ==
    ASSUME NEW S, NEW t \in Seq(S), Len(t) = 3, NEW w \in 1..3, t[w] = "wide"
    PROVE  HexColor(BytesOf(t)) = {}
<1> DEFINE s == [i \in DOMAIN t |-> IF t[i] = "wide" THEN <<"wide", "tail">> ELSE <<t[i]>>]
           A == {"wide", "tail"} \cup S
<1>1. DOMAIN t = 1..3 /\ t \in [1..3 -> S] /\ Len(s) = 3
    <2>1. DOMAIN t = 1..3 /\ t \in [1..3 -> S]
        BY LenProperties
    <2>2. DOMAIN s = 1..3
        BY <2>1
    <2> QED
        BY <2>1, <2>2
<1>2. ASSUME NEW i \in 1..3
      PROVE  /\ s[i] \in Seq(A)
             /\ Len(s[i]) = 1 \/ (Len(s[i]) = 2 /\ s[i][1] = "wide")
             /\ t[i] = "wide" => Len(s[i]) = 2
    <2>1. s[i] = IF t[i] = "wide" THEN <<"wide", "tail">> ELSE <<t[i]>>
        BY <1>1
    <2>2. t[i] \in S
        BY <1>1
    <2>3. CASE t[i] = "wide"
        <3>1. s[i] = <<"wide", "tail">>
            BY <2>1, <2>3
        <3> HIDE DEF s
        <3> QED
            BY <2>3, <3>1
    <2>4. CASE t[i] # "wide"
        <3>1. s[i] = <<t[i]>>
            BY <2>1, <2>4
        <3> HIDE DEF s
        <3> QED
            BY <2>2, <2>4, <3>1
    <2> QED
        BY <2>3, <2>4
<1> HIDE DEF s, A
<1>3. PICK f : /\ FlattenSeq(s) = f[Len(s)]
               /\ f[1] = s[1]
               /\ \A i \in 2..Len(s) : f[i] = f[i - 1] \o s[i]
    <2>1. Len(s) \in Nat \ {0}
        BY <1>1
    <2> QED
        BY <2>1, Flattened, Zenon
<1>4. FlattenSeq(s) = (s[1] \o s[2]) \o s[3]
    <2>1. 2 \in 2..Len(s) /\ 3 \in 2..Len(s) /\ 2 - 1 = 1 /\ 3 - 1 = 2
        BY <1>1
    <2>2. f[2] = f[2 - 1] \o s[2] /\ f[3] = f[3 - 1] \o s[3]
        BY <1>3, <2>1, Zenon
    <2> QED
        BY <1>1, <1>3, <2>1, <2>2, Zenon
<1>5. BytesOf(t) = (s[1] \o s[2]) \o s[3]
    BY <1>4, Zenon DEF BytesOf, s
<1>6. 1 \in 1..3 /\ 2 \in 1..3 /\ 3 \in 1..3 /\ (w = 1 \/ w = 2 \/ w = 3)
    OBVIOUS
<1>7. Len(s[1]) = 2 \/ Len(s[2]) = 2 \/ Len(s[3]) = 2
    BY <1>2, <1>6, Zenon
<1>8. /\ s[1] \in Seq(A) /\ s[2] \in Seq(A) /\ s[3] \in Seq(A)
      /\ Len(s[1]) = 1 \/ (Len(s[1]) = 2 /\ s[1][1] = "wide")
      /\ Len(s[2]) = 1 \/ Len(s[2]) = 2
      /\ Len(s[3]) = 1 \/ Len(s[3]) = 2
    BY <1>2, <1>6, Zenon
<1> DEFINE p == s[1]
           q == s[2]
           r == s[3]
<1> HIDE DEF p, q, r
<1>9. HexColor((p \o q) \o r) = {}
    BY <1>7, <1>8, NoBytes, Zenon DEF p, q, r
<1> QED
    BY <1>5, <1>9, Zenon DEF p, q, r

-----------------------------------------------------------------------------
(* Colours. *)

Channel == 0..255
Alpha == 0..10
IsColor(c) == \E r, g, b \in Channel, a \in Alpha : c = Color(r, g, b, a)

LEMMA DigitIsSmall == ASSUME NEW d, IsDigit(d) PROVE DigitValue(d) \in 0..15
<1> DEFINE I == {i \in 1..Len(Digits) : Digits[i] = d}
<1>1. DOMAIN Digits = 1..16 /\ Len(Digits) = 16
    BY DEF Digits
<1>2. I \subseteq 1..16 /\ I # {}
    BY <1>1 DEF IsDigit, ToSet
<1>3. DigitValue(d) = Min(I) - 1
    BY <1>2 DEF DigitValue, SelectInSeq
<1> HIDE DEF I
<1>4. Min(I) \in I
    <2>1. \E x \in I : \A y \in I : x <= y
        BY <1>2, 1..16 \subseteq Nat, LeastOf
    <2> QED
        BY <2>1 DEF Min
<1>5. Min(I) \in 1..16
    BY <1>2, <1>4, Zenon
<1> QED
    BY <1>3, <1>5

LEMMA ByteIsSmall == ASSUME NEW p, NEW n \in ByteOf(p) PROVE n \in Channel
<1>1. CASE IsDigit(p[1]) /\ IsDigit(p[2])
    <2>1. DigitValue(p[1]) \in 0..15 /\ DigitValue(p[2]) \in 0..15
        BY <1>1, DigitIsSmall
    <2>2. p[1] # "+"
        BY <1>1 DEF IsDigit, ToSet, Digits
    <2>3. n = 16 * DigitValue(p[1]) + DigitValue(p[2])
        BY <1>1, <2>2 DEF ByteOf
    <2> QED
        BY <2>1, <2>3 DEF Channel
<1>2. CASE ~IsDigit(p[1]) /\ p[1] = "+" /\ IsDigit(p[2])
    <2>1. DigitValue(p[2]) \in 0..15 /\ n = DigitValue(p[2])
        BY <1>2, DigitIsSmall DEF ByteOf
    <2> QED
        BY <2>1 DEF Channel
<1> QED
    BY <1>1, <1>2 DEF ByteOf

LEMMA ByteIsOne == ASSUME NEW p, NEW m \in ByteOf(p), NEW n \in ByteOf(p) PROVE m = n
BY DEF ByteOf

LEMMA ColorIsColor ==
    ASSUME NEW r \in Channel, NEW g \in Channel, NEW b \in Channel, NEW a \in Alpha
    PROVE  IsColor(Color(r, g, b, a))
BY Zenon DEF IsColor

LEMMA TenthIsSmall == ASSUME NEW x \in 0..2550 PROVE x \div 10 \in Channel
BY DEF Channel

LEMMA ChannelIsSmall == ASSUME NEW v, NEW n \in ChannelOf(v) PROVE n \in Channel
<1>1. v.num \in 0..2550
    BY DEF ChannelOf
<1>2. ChannelOf(v) = {v.num \div 10}
    BY DEF ChannelOf
<1>3. PICK x \in 0..2550 : x = v.num
    BY <1>1
<1>4. n = x \div 10
    BY <1>2, <1>3
<1> QED
    BY <1>4, TenthIsSmall

LEMMA AlphaIsSmall == ASSUME NEW v, NEW n \in AlphaOf(v) PROVE n \in Alpha
BY DEF AlphaOf, Alpha

(* Whatever is read as a colour is one. *)
LEMMA ReadsAreColors == ASSUME NEW v, NEW c \in ColorOf(v) PROVE IsColor(c)
<1>1. CASE v.t = "record"
    <2>1. PICK r \in ChannelOf(v.fields.r), g \in ChannelOf(v.fields.g), b \in ChannelOf(v.fields.b),
               a \in {10} \cup AlphaOf(v.fields.a) : c = Color(r, g, b, a)
        BY <1>1 DEF ColorOf, RecordColor
    <2>2. r \in Channel /\ g \in Channel /\ b \in Channel /\ a \in Alpha
        BY ChannelIsSmall, AlphaIsSmall DEF Alpha
    <2> QED
        BY <2>1, <2>2, Zenon DEF IsColor
<1>2. CASE v.t = "list"
    <2>1. PICK r \in ChannelOf(v.items[1]), g \in ChannelOf(v.items[2]), b \in ChannelOf(v.items[3]),
               a \in {10} \cup AlphaOf(v.items[4]) : c = Color(r, g, b, a)
        BY <1>2 DEF ColorOf, ListColor
    <2>2. r \in Channel /\ g \in Channel /\ b \in Channel /\ a \in Alpha
        BY ChannelIsSmall, AlphaIsSmall DEF Alpha
    <2> QED
        BY <2>1, <2>2, Zenon DEF IsColor
<1>3. CASE v.t = "string" /\ c \in {Names[n] : n \in DOMAIN Names}
    <2>1. 0 \in Channel /\ 255 \in Channel /\ 10 \in Alpha
        BY DEF Channel, Alpha
    <2>2. \A r, g, b \in {0, 255} : IsColor(Color(r, g, b, 10))
        BY <2>1, ColorIsColor
    <2>3. c \in {Color(0, 0, 0, 10), Color(0, 0, 255, 10), Color(0, 255, 255, 10),
                 Color(0, 255, 0, 10), Color(255, 0, 0, 10), Color(255, 0, 255, 10),
                 Color(255, 255, 255, 10), Color(255, 255, 0, 10)}
        BY <1>3 DEF Names
    <2> QED
        BY <2>2, <2>3
<1>4. ASSUME NEW bytes, c \in HexColor(bytes) PROVE IsColor(c)
    <2> DEFINE p == Pieces(bytes)
    <2>1. PICK r \in ByteOf(p[1]), g \in ByteOf(p[2]), b \in ByteOf(p[3]) : c = Color(r, g, b, 10)
        BY <1>4 DEF HexColor
    <2> HIDE DEF p
    <2>2. r \in Channel /\ g \in Channel /\ b \in Channel /\ 10 \in Alpha
        BY ByteIsSmall DEF Alpha
    <2> QED
        BY <2>1, <2>2, Zenon DEF IsColor
<1> QED
    BY <1>1, <1>2, <1>3, <1>4 DEF ColorOf, StringColor

LEMMA ChannelReads == ASSUME NEW n \in Channel PROVE ChannelOf(IntValue(n)) = {n}
<1>1. ASSUME NEW m, m = 10 * n PROVE m \in 0..2550 /\ m \div 10 = n
    BY <1>1 DEF Channel
<1>2. ASSUME NEW v, v.t = "int", v.num = 10 * n PROVE ChannelOf(v) = {v.num \div 10}
    BY <1>1, <1>2 DEF ChannelOf
<1>3. IntValue(n).t = "int" /\ IntValue(n).num = 10 * n
    BY DEF IntValue
<1>4. ChannelOf(IntValue(n)) = {IntValue(n).num \div 10}
    BY <1>2, <1>3
<1> QED
    BY <1>1, <1>3, <1>4

(* The record a colour is shown as, and the same as a list, is that colour.*)
LEMMA ShownReadsBack ==
    ASSUME NEW c, IsColor(c), NEW v, v = ColorValue(c)
    PROVE  /\ ColorOf(v) = {c}
           /\ ColorOf(List(<<v.fields.r, v.fields.g, v.fields.b, v.fields.a>>)) = {c}
<1>1. PICK r, g, b \in Channel, a \in Alpha : c = Color(r, g, b, a)
    BY DEF IsColor
<1>2. \A n \in Channel : ChannelOf(IntValue(n)) = {n}
    BY ChannelReads
<1>3. AlphaOf(FloatValue(a)) = {a} /\ FloatValue(a) # Nothing
    BY DEF Alpha, AlphaOf, IsNumber, AsFloat, FloatValue, Nothing
<1>4. v = Record([r |-> IntValue(r), g |-> IntValue(g), b |-> IntValue(b), a |-> FloatValue(a)])
    BY <1>1 DEF ColorValue, Color
<1>5. /\ v.t = "record" /\ DOMAIN v.fields = {"r", "g", "b", "a"}
      /\ v.fields.r = IntValue(r) /\ v.fields.g = IntValue(g)
      /\ v.fields.b = IntValue(b) /\ v.fields.a = FloatValue(a)
    BY <1>4 DEF Record
<1>6. ColorOf(v) = {c}
    <2>1. HasFields(v, {"r", "g", "b"})
        BY <1>5 DEF HasFields
    <2>2. /\ ChannelOf(v.fields.r) = {r} /\ ChannelOf(v.fields.g) = {g}
          /\ ChannelOf(v.fields.b) = {b} /\ AlphaOf(v.fields.a) = {a}
          /\ "a" \in DOMAIN v.fields /\ v.fields.a # Nothing
        BY <1>2, <1>3, <1>5
    <2>3. ASSUME NEW x \in RecordColor(v) PROVE x = c
        <3>1. PICK r1 \in ChannelOf(v.fields.r), g1 \in ChannelOf(v.fields.g),
                   b1 \in ChannelOf(v.fields.b), a1 \in AlphaOf(v.fields.a) :
                       x = Color(r1, g1, b1, a1)
            BY <2>1, <2>2 DEF RecordColor
        <3> QED
            BY <1>1, <2>2, <3>1, Zenon
    <2>4. c \in RecordColor(v)
        <3>1. /\ r \in ChannelOf(v.fields.r) /\ g \in ChannelOf(v.fields.g)
              /\ b \in ChannelOf(v.fields.b) /\ a \in AlphaOf(v.fields.a)
            BY <2>2
        <3> DEFINE A == IF "a" \notin DOMAIN v.fields \/ v.fields.a = Nothing THEN {10}
                        ELSE AlphaOf(v.fields.a)
        <3>2. a \in A
            BY <2>2, <3>1
        <3>3. c \in {Color(x, y, z, w) : x \in ChannelOf(v.fields.r), y \in ChannelOf(v.fields.g),
                                        z \in ChannelOf(v.fields.b), w \in A}
            <4> HIDE DEF A
            <4> QED
                BY <1>1, <3>1, <3>2
        <3> QED
            BY <2>1, <3>3 DEF RecordColor
    <2> QED
        BY <1>5, <2>3, <2>4 DEF ColorOf
<1>7. ColorOf(List(<<v.fields.r, v.fields.g, v.fields.b, v.fields.a>>)) = {c}
    <2> DEFINE l == List(<<IntValue(r), IntValue(g), IntValue(b), FloatValue(a)>>)
    <2>1. /\ l.t = "list" /\ Len(l.items) = 4 /\ l.items[1] = IntValue(r)
          /\ l.items[2] = IntValue(g) /\ l.items[3] = IntValue(b) /\ l.items[4] = FloatValue(a)
        BY DEF List
    <2> HIDE DEF l
    <2>2. /\ ChannelOf(l.items[1]) = {r} /\ ChannelOf(l.items[2]) = {g}
          /\ ChannelOf(l.items[3]) = {b} /\ AlphaOf(l.items[4]) = {a}
          /\ ~(Len(l.items) < 3) /\ Len(l.items) # 3
        BY <1>2, <1>3, <2>1
    <2>3. ASSUME NEW x \in ListColor(l) PROVE x = c
        <3>1. PICK r1 \in ChannelOf(l.items[1]), g1 \in ChannelOf(l.items[2]),
                   b1 \in ChannelOf(l.items[3]), a1 \in AlphaOf(l.items[4]) :
                       x = Color(r1, g1, b1, a1)
            BY <2>2 DEF ListColor
        <3> QED
            BY <1>1, <2>2, <3>1, Zenon
    <2>4. c \in ListColor(l)
        BY <1>1, <2>2 DEF ListColor
    <2>5. ColorOf(l) = {c}
        BY <2>1, <2>3, <2>4 DEF ColorOf
    <2> QED
        BY <1>5, <2>5 DEF l
<1> QED
    BY <1>6, <1>7

LEMMA SameByte ==
    ASSUME NEW p, NEW q, p[1] = q[1], p[2] = q[2]
    PROVE  ByteOf(p) = ByteOf(q)
BY DEF ByteOf

LEMMA SixRead ==
    ASSUME NEW S, NEW t \in Seq(S), Len(t) = 3, NEW d \in Seq(S), Len(d) = 6,
           d[1] = t[1], d[2] = t[1], d[3] = t[2], d[4] = t[2], d[5] = t[3], d[6] = t[3]
    PROVE  /\ ByteOf(Pieces(d)[1]) = ByteOf(Pieces(t)[1])
           /\ ByteOf(Pieces(d)[2]) = ByteOf(Pieces(t)[2])
           /\ ByteOf(Pieces(d)[3]) = ByteOf(Pieces(t)[3])
<1>1. /\ Pieces(t)[1] = Repeated(t[1]) /\ Pieces(t)[2] = Repeated(t[2])
      /\ Pieces(t)[3] = Repeated(t[3])
    BY DEF Pieces
<1>2. \A x : Repeated(x)[1] = x /\ Repeated(x)[2] = x
    BY DEF Repeated
<1>3. /\ Pieces(d)[1] = SubSeq(d, 1, 2) /\ Pieces(d)[2] = SubSeq(d, 3, 4)
      /\ Pieces(d)[3] = SubSeq(d, 5, 6)
    BY DEF Pieces
<1>4. ASSUME NEW k \in {1, 3, 5}
      PROVE  SubSeq(d, k, k + 1)[1] = d[k] /\ SubSeq(d, k, k + 1)[2] = d[k + 1]
    <2>0. \A i \in 1..6 : d[i] \in S
        BY ElementOfSeq
    <2>1. \A i \in k..(k + 1) : d[i] \in S
        BY <2>0
    <2>2. \A i \in 1..(k + 1) - k + 1 : SubSeq(d, k, k + 1)[i] = d[k + i - 1]
        BY <2>1, SubSeqProperties
    <2> QED
        BY <2>2
<1>5. /\ SubSeq(d, 1, 2)[1] = d[1] /\ SubSeq(d, 1, 2)[2] = d[2]
      /\ SubSeq(d, 3, 4)[1] = d[3] /\ SubSeq(d, 3, 4)[2] = d[4]
      /\ SubSeq(d, 5, 6)[1] = d[5] /\ SubSeq(d, 5, 6)[2] = d[6]
    BY <1>4, 1 + 1 = 2, 3 + 1 = 4, 5 + 1 = 6
<1>6. /\ Pieces(d)[1][1] = t[1] /\ Pieces(d)[1][2] = t[1]
      /\ Pieces(d)[2][1] = t[2] /\ Pieces(d)[2][2] = t[2]
      /\ Pieces(d)[3][1] = t[3] /\ Pieces(d)[3][2] = t[3]
    BY <1>3, <1>5, Zenon
<1>7. /\ Pieces(t)[1][1] = t[1] /\ Pieces(t)[1][2] = t[1]
      /\ Pieces(t)[2][1] = t[2] /\ Pieces(t)[2][2] = t[2]
      /\ Pieces(t)[3][1] = t[3] /\ Pieces(t)[3][2] = t[3]
    BY <1>1, <1>2, Zenon
<1> QED
    BY <1>6, <1>7, SameByte, Zenon

(* Three hexadecimal digits read as the six that repeat each of them. *)
LEMMA ShortFormReads ==
    ASSUME NEW S, NEW w \in Seq(S), Len(w) = 4, NEW c \in StringColor(w)
    PROVE  StringColor(<<"#", w[2], w[2], w[3], w[3], w[4], w[4]>>) = {c}
<1> DEFINE t == Tail(w)
           d == <<w[2], w[2], w[3], w[3], w[4], w[4]>>
           e == <<"#", w[2], w[2], w[3], w[3], w[4], w[4]>>
<1>1. w[1] = "#" /\ c \in HexColor(BytesOf(t))
    BY DEF StringColor
<1>2. t \in Seq(S) /\ Len(t) = 3 /\ t[1] = w[2] /\ t[2] = w[3] /\ t[3] = w[4]
    <2>1. w # <<>>
        BY EmptySeq
    <2>2. t \in Seq(S) /\ Len(t) = Len(w) - 1 /\ \A i \in 1..Len(t) : t[i] = w[i + 1]
        BY <2>1, HeadTailProperties, Zenon
    <2> HIDE DEF t
    <2> QED
        BY <2>2
<1>3. w[2] \in S /\ w[3] \in S /\ w[4] \in S
    OBVIOUS
<1>4. /\ d \in Seq(S) /\ Len(d) = 6 /\ d[1] = w[2] /\ d[2] = w[2]
      /\ d[3] = w[3] /\ d[4] = w[3] /\ d[5] = w[4] /\ d[6] = w[4]
    BY <1>3
<1>5. Len(e) = 7 /\ e[1] = "#" /\ Tail(e) = d
    <2>1. Len(e) = 7 /\ e[1] = "#"
        OBVIOUS
    <2>2. Tail(e) = d
        OBVIOUS
    <2> QED
        BY <2>1, <2>2
<1> HIDE DEF t, d, e
<1>6. \A i \in 1..3 : t[i] # "wide"
    BY <1>1, <1>2, BytesOfWide
<1>7. BytesOf(t) = t
    <2>1. DOMAIN t = 1..3 /\ t # <<>>
        BY <1>2, EmptySeq, LenProperties
    <2> QED
        BY <1>2, <1>6, <2>1, BytesOfNarrow
<1>8. BytesOf(d) = d
    <2>1. DOMAIN d = 1..6 /\ d # <<>>
        <3>1. DOMAIN d = 1..Len(d) /\ Len(<<>>) = 0
            BY <1>4, LenProperties
        <3> QED
            BY <1>4, <3>1, 6 # 0, Zenon
    <2>2. \A i \in 1..6 : d[i] # "wide"
        <3>1. w[2] # "wide" /\ w[3] # "wide" /\ w[4] # "wide"
            BY <1>2, <1>6
        <3>2. \A i \in 1..6 : i = 1 \/ i = 2 \/ i = 3 \/ i = 4 \/ i = 5 \/ i = 6
            OBVIOUS
        <3> QED
            BY <1>4, <3>1, <3>2, Zenon
    <2> QED
        BY <1>4, <2>1, <2>2, BytesOfNarrow
<1>9. /\ ByteOf(Pieces(d)[1]) = ByteOf(Pieces(t)[1])
      /\ ByteOf(Pieces(d)[2]) = ByteOf(Pieces(t)[2])
      /\ ByteOf(Pieces(d)[3]) = ByteOf(Pieces(t)[3])
    BY <1>2, <1>4, SixRead
<1> DEFINE Read(p) == {Color(r, g, b, 10) : r \in ByteOf(p[1]), g \in ByteOf(p[2]),
                                            b \in ByteOf(p[3])}
<1>10. HexColor(t) = Read(Pieces(t)) /\ HexColor(d) = Read(Pieces(d))
    BY <1>2, <1>4 DEF HexColor
<1>11. c \in Read(Pieces(d))
    <2>1. c \in Read(Pieces(t))
        <3> HIDE DEF Read
        <3>1. c \in HexColor(t)
            BY <1>1, <1>7
        <3> QED
            BY <1>10, <3>1
    <2>2. PICK r \in ByteOf(Pieces(t)[1]), g \in ByteOf(Pieces(t)[2]), b \in ByteOf(Pieces(t)[3]) :
              c = Color(r, g, b, 10)
        BY <2>1
    <2>3. r \in ByteOf(Pieces(d)[1]) /\ g \in ByteOf(Pieces(d)[2]) /\ b \in ByteOf(Pieces(d)[3])
        BY <1>9, Zenon
    <2> QED
        BY <2>2, <2>3
<1>12. ASSUME NEW x \in Read(Pieces(d)) PROVE x = c
    BY <1>11, ByteIsOne
<1>13. StringColor(e) = HexColor(BytesOf(Tail(e)))
    BY <1>5 DEF StringColor
<1> HIDE DEF Read
<1> QED
    BY <1>5, <1>8, <1>10, <1>11, <1>12, <1>13 DEF e

-----------------------------------------------------------------------------
(* Floats. *)

Units == {1, 5, 10, 20}

LEMMA ToMultipleSteps ==
    ASSUME NEW x \in Int, NEW u \in Units
    PROVE  /\ ToMultiple(x, u) \in Int
           /\ \A q \in Int : x <= u * q => ToMultiple(x, u) <= u * q
           /\ \A q \in Int : x >= u * q => ToMultiple(x, u) >= u * q
           /\ \A y \in Int : x <= y => ToMultiple(x, u) <= ToMultiple(y, u)
<1>1. CASE u = 1
    BY <1>1 DEF ToMultiple
<1>2. CASE u = 5
    BY <1>2 DEF ToMultiple
<1>3. CASE u = 10
    BY <1>3 DEF ToMultiple
<1>4. CASE u = 20
    BY <1>4 DEF ToMultiple
<1> QED
    BY <1>1, <1>2, <1>3, <1>4 DEF Units

(* The sizes from which on floats are coarser. *)
LEMMA Zones ==
    \E k \in Nat \ {0} :
        /\ Exact = 4 * k
        /\ \A x \in Int : LET size == IF x < 0 THEN -x ELSE x
                          IN  \/ Ulp(x) = 1 /\ size < 10 * k
                              \/ Ulp(x) = 5 /\ 10 * k <= size /\ size < 20 * k
                              \/ Ulp(x) = 10 /\ 20 * k <= size /\ size < 40 * k
                              \/ Ulp(x) = 20 /\ 40 * k <= size
<1> DEFINE k == Exact \div 4
<1>1. Exact = 4 * k /\ k \in Nat \ {0}
    BY ExactAssumption
<1> HIDE DEF k
<1>2. ASSUME NEW x \in Int
      PROVE  LET size == IF x < 0 THEN -x ELSE x
             IN  \/ Ulp(x) = 1 /\ size < 10 * k
                 \/ Ulp(x) = 5 /\ 10 * k <= size /\ size < 20 * k
                 \/ Ulp(x) = 10 /\ 20 * k <= size /\ size < 40 * k
                 \/ Ulp(x) = 20 /\ 40 * k <= size
    BY <1>1 DEF Ulp
<1> QED
    BY <1>1, <1>2

(* Where a zone of that unit begins, for Exact = 4 * k. *)
LimitOf(k, unit) == IF unit = 5 THEN 10 * k ELSE IF unit = 10 THEN 20 * k ELSE 40 * k

LEMMA LimitsAreFloats ==
    ASSUME NEW k \in Int, NEW u \in Units, NEW v \in Units, u < v
    PROVE  \E p, q \in Int : u * p = LimitOf(k, v) /\ v * q = LimitOf(k, v)
<1>1. v * (2 * k) = LimitOf(k, v) /\ 2 * k \in Int
    BY DEF Units, LimitOf
<1>2. \E p \in Int : u * p = LimitOf(k, v)
    <2>1. CASE u = 1
        <3>1. LimitOf(k, v) \in Int
            BY DEF LimitOf
        <3> QED
            BY <2>1, <3>1
    <2>2. CASE u = 5 /\ v = 10
        <3>1. u * (4 * k) = LimitOf(k, v) /\ 4 * k \in Int
            BY <2>2 DEF LimitOf
        <3> QED
            BY <3>1
    <2>3. CASE u = 5 /\ v = 20
        <3>1. u * (8 * k) = LimitOf(k, v) /\ 8 * k \in Int
            BY <2>3 DEF LimitOf
        <3> QED
            BY <3>1
    <2>4. CASE u = 10 /\ v = 20
        <3>1. u * (4 * k) = LimitOf(k, v) /\ 4 * k \in Int
            BY <2>4 DEF LimitOf
        <3> QED
            BY <3>1
    <2> QED
        BY <2>1, <2>2, <2>3, <2>4 DEF Units
<1> QED
    BY <1>1, <1>2

(* Between numbers of different zones lies the limit of the coarser one,   *)
(* which is a float.                                                       *)
LEMMA RoundedMonotone ==
    ASSUME NEW x \in Int, NEW y \in Int, x <= y
    PROVE  Rounded(x) \in Int /\ Rounded(y) \in Int /\ Rounded(x) <= Rounded(y)
<1> DEFINE u == Ulp(x)
           v == Ulp(y)
<1>1. PICK k \in Nat \ {0} :
          \A z \in Int : LET size == IF z < 0 THEN -z ELSE z
                         IN  \/ Ulp(z) = 1 /\ size < 10 * k
                             \/ Ulp(z) = 5 /\ 10 * k <= size /\ size < 20 * k
                             \/ Ulp(z) = 10 /\ 20 * k <= size /\ size < 40 * k
                             \/ Ulp(z) = 20 /\ 40 * k <= size
    BY Zones
<1>2. /\ \/ u = 1 /\ x < 10 * k /\ -x < 10 * k
         \/ u = 5 /\ x < 20 * k /\ -x < 20 * k /\ (10 * k <= x \/ 10 * k <= -x)
         \/ u = 10 /\ x < 40 * k /\ -x < 40 * k /\ (20 * k <= x \/ 20 * k <= -x)
         \/ u = 20 /\ (40 * k <= x \/ 40 * k <= -x)
      /\ \/ v = 1 /\ y < 10 * k /\ -y < 10 * k
         \/ v = 5 /\ y < 20 * k /\ -y < 20 * k /\ (10 * k <= y \/ 10 * k <= -y)
         \/ v = 10 /\ y < 40 * k /\ -y < 40 * k /\ (20 * k <= y \/ 20 * k <= -y)
         \/ v = 20 /\ (40 * k <= y \/ 40 * k <= -y)
    BY <1>1
<1> HIDE DEF u, v
<1>3. u \in Units /\ v \in Units
    BY <1>2 DEF Units
<1>4. Rounded(x) = ToMultiple(x, u) /\ Rounded(y) = ToMultiple(y, v)
    BY DEF Rounded, u, v
<1>5. Rounded(x) \in Int /\ Rounded(y) \in Int
    BY <1>3, <1>4, ToMultipleSteps
<1>6. CASE u = v
    BY <1>3, <1>4, <1>6, ToMultipleSteps
<1>7. ASSUME NEW l \in Int, NEW p \in Int, NEW q \in Int, u * p = l, v * q = l, x <= l, l <= y
      PROVE  Rounded(x) <= Rounded(y)
    <2>1. Rounded(x) <= l /\ l <= Rounded(y)
        BY <1>3, <1>4, <1>7, ToMultipleSteps
    <2> QED
        BY <1>5, <2>1
<1>8. CASE u < v
    <2>1. PICK p \in Int, q \in Int : u * p = LimitOf(k, v) /\ v * q = LimitOf(k, v)
        BY <1>3, <1>8, LimitsAreFloats
    <2>2. x <= LimitOf(k, v) /\ LimitOf(k, v) <= y /\ LimitOf(k, v) \in Int
        BY <1>2, <1>8 DEF LimitOf
    <2> QED
        BY <1>5, <1>7, <2>1, <2>2, Zenon
<1>9. CASE v < u
    <2>1. PICK p \in Int, q \in Int : v * p = LimitOf(-k, u) /\ u * q = LimitOf(-k, u)
        BY <1>3, <1>9, LimitsAreFloats
    <2>2. x <= LimitOf(-k, u) /\ LimitOf(-k, u) <= y /\ LimitOf(-k, u) \in Int
        BY <1>2, <1>9 DEF LimitOf
    <2> QED
        BY <1>5, <1>7, <2>1, <2>2, Zenon
<1>10. u < v \/ u = v \/ v < u
    BY <1>3 DEF Units
<1> QED
    BY <1>5, <1>6, <1>8, <1>9, <1>10, Zenon

(* Integers that are no larger than Exact are floats.                      *)
LEMMA RoundedExact ==
    ASSUME NEW n \in Int, -Exact <= n, n <= Exact
    PROVE  Rounded(10 * n) = 10 * n
<1>1. PICK k \in Nat \ {0} :
          /\ Exact = 4 * k
          /\ \A z \in Int : LET size == IF z < 0 THEN -z ELSE z
                            IN  \/ Ulp(z) = 1 /\ size < 10 * k
                                \/ Ulp(z) = 5 /\ 10 * k <= size /\ size < 20 * k
                                \/ Ulp(z) = 10 /\ 20 * k <= size /\ size < 40 * k
                                \/ Ulp(z) = 20 /\ 40 * k <= size
    BY Zones
<1>2. \/ Ulp(10 * n) \in {1, 5, 10}
      \/ Ulp(10 * n) = 20 /\ (n = 4 * k \/ n = -(4 * k))
    <2>1. 10 * n \in Int /\ 10 * n <= 40 * k /\ -(10 * n) <= 40 * k
        BY <1>1
    <2>2. \/ Ulp(10 * n) \in {1, 5, 10}
          \/ Ulp(10 * n) = 20 /\ (40 * k <= 10 * n \/ 40 * k <= -(10 * n))
        BY <1>1, <2>1
    <2> QED
        BY <2>1, <2>2
<1>3. ASSUME NEW u \in Units, NEW q \in Int, 10 * n = u * q PROVE ToMultiple(10 * n, u) = 10 * n
    <2>1. 10 * n \in Int /\ ToMultiple(10 * n, u) \in Int
        BY ToMultipleSteps
    <2>2. ToMultiple(10 * n, u) <= u * q /\ ToMultiple(10 * n, u) >= u * q
        BY <1>3, <2>1, ToMultipleSteps
    <2> QED
        BY <1>3, <2>1, <2>2
<1>4. \E u \in Units, q \in Int : Ulp(10 * n) = u /\ 10 * n = u * q
    <2>1. 10 * n = 1 * (10 * n) /\ 10 * n = 5 * (2 * n) /\ 10 * n = 10 * n /\ 10 * n \in Int /\ 2 * n \in Int
        OBVIOUS
    <2>2. CASE Ulp(10 * n) = 20
        <3>1. /\ 10 * n = 20 * (2 * k) \/ 10 * n = 20 * (-(2 * k))
              /\ 2 * k \in Int /\ -(2 * k) \in Int
            BY <1>2, <2>2
        <3>2. \E q \in Int : 10 * n = 20 * q
            BY <3>1, Zenon
        <3> QED
            BY <2>2, <3>2 DEF Units
    <2> QED
        BY <1>2, <2>1, <2>2 DEF Units
<1> QED
    BY <1>3, <1>4 DEF Rounded

(* The same of the small numbers that the width of a bar is made of. *)
LEMMA RoundedSmall ==
    ASSUME NEW x \in Int, -20 <= x, x <= 20, x % 10 = 0 \/ (-9 <= x /\ x <= 9)
    PROVE  Rounded(x) = x
<1>1. CASE x % 10 = 0
    <2>1. PICK n \in Int : x = 10 * n /\ n \in -2..2
        <3>1. x = 10 * (x \div 10) /\ x \div 10 \in -2..2
            BY <1>1
        <3> QED
            BY <3>1
    <2> QED
        BY <2>1, RoundedExact, ExactAssumption
<1>2. CASE -9 <= x /\ x <= 9
    <2>1. Ulp(x) = 1
        BY <1>2, ExactAssumption DEF Ulp
    <2> QED
        BY <2>1 DEF Rounded, ToMultiple
<1> QED
    BY <1>1, <1>2

-----------------------------------------------------------------------------
(* Numbers. *)

Numbers == {IntValue(n) : n \in Int} \cup {FloatValue(x) : x \in Int}

LEMMA NumbersAreFloats ==
    ASSUME NEW c \in Numbers
    PROVE  AsFloat(c) \in Int /\ c.num \in Int /\ (c.t = "int" \/ c.t = "float")
<1>1. CASE \E n \in Int : c = IntValue(n)
    <2>1. c.t = "int" /\ c.num \in Int
        BY <1>1 DEF IntValue
    <2>2. Rounded(c.num) \in Int
        BY <2>1, RoundedMonotone
    <2> QED
        BY <2>1, <2>2 DEF AsFloat
<1>2. CASE \E x \in Int : c = FloatValue(x)
    BY <1>2 DEF FloatValue, AsFloat
<1> QED
    BY <1>1, <1>2 DEF Numbers

-----------------------------------------------------------------------------
(* Ranges. *)

IsRange(r) == DOMAIN r = {"min", "max", "discrete"} /\ r.min \in Numbers /\ r.max \in Numbers
IsSpan(span) == span[1] \in Numbers /\ span[2] \in Numbers
Covers(r, span) == AsFloat(r.min) <= AsFloat(span[1]) /\ AsFloat(span[2]) <= AsFloat(r.max)

LEMMA RangeEnds ==
    ASSUME NEW r, IsRange(r)
    PROVE  /\ r.min \in Numbers /\ r.max \in Numbers
           /\ AsFloat(r.min) \in Int /\ AsFloat(r.max) \in Int
BY NumbersAreFloats DEF IsRange

LEMMA BetweenIsRange ==
    ASSUME NEW a \in Numbers, NEW b \in Numbers, NEW r, r = Between(a, b)
    PROVE  IsRange(r) /\ r.min = a /\ r.max = b
<1>1. DOMAIN r = {"min", "max", "discrete"}
    BY DEF Between
<1>2. r.min = a /\ r.max = b
    BY DEF Between
<1> QED
    BY <1>1, <1>2 DEF IsRange

LEMMA SpanEnds ==
    ASSUME NEW span, IsSpan(span) PROVE AsFloat(span[1]) \in Int /\ AsFloat(span[2]) \in Int
BY NumbersAreFloats DEF IsSpan

LEMMA CoversAll ==
    ASSUME NEW r, IsRange(r), NEW q, IsRange(q), NEW span, IsSpan(span),
           Covers(q, span), Covers(r, <<q.min, q.max>>)
    PROVE  Covers(r, span)
BY RangeEnds, SpanEnds DEF Covers

LEMMA CoversItself == ASSUME NEW r, IsRange(r) PROVE Covers(r, <<r.min, r.max>>)
BY RangeEnds DEF Covers

LEMMA GrownCovers ==
    ASSUME NEW r, IsRange(r), NEW span, IsSpan(span), NEW g, g = Grown(r, span)
    PROVE  IsRange(g) /\ Covers(g, span) /\ Covers(g, <<r.min, r.max>>)
<1> DEFINE a == IF Below(span[1], r.min) THEN span[1] ELSE r.min
           b == IF Below(r.max, span[2]) THEN span[2] ELSE r.max
<1>1. r.min \in Numbers /\ r.max \in Numbers
    BY RangeEnds
<1>2. a \in Numbers /\ b \in Numbers
    BY <1>1 DEF IsSpan
<1>3. DOMAIN g = {"min", "max", "discrete"}
    BY DEF Grown, IsRange
<1>4. g.min = a /\ g.max = b
    <2>1. g.min = a
        BY DEF Grown, IsRange
    <2>2. g.max = b
        BY DEF Grown, IsRange
    <2> QED
        BY <2>1, <2>2
<1>5. /\ AsFloat(a) <= AsFloat(span[1]) /\ AsFloat(a) <= AsFloat(r.min)
      /\ AsFloat(span[2]) <= AsFloat(b) /\ AsFloat(r.max) <= AsFloat(b)
    BY RangeEnds, SpanEnds DEF Below
<1> QED
    BY <1>2, <1>3, <1>4, <1>5 DEF IsRange, Covers

(* Spans, of which each may be missing, and a range that covers the first  *)
(* of them and another range.                                              *)
SpansFit(spans, n) == \A i \in 1..n : \A a \in spans[i] : IsSpan(a) /\ \A b \in spans[i] : a = b
AllCovered(q, r, spans, n) == /\ IsRange(q) /\ Covers(q, <<r.min, r.max>>)
                              /\ \A i \in 1..n : \A span \in spans[i] : Covers(q, span)

LEMMA GrownCoversAll ==
    ASSUME NEW r, IsRange(r), NEW spans, NEW m \in Nat, SpansFit(spans, m + 1),
           NEW p, AllCovered(p, r, spans, m),
           NEW q, q = IF spans[m + 1] = {} THEN p ELSE Grown(p, TheOne(spans[m + 1]))
    PROVE  AllCovered(q, r, spans, m + 1)
<1>1. \A i \in 1..(m + 1) : i \in 1..m \/ i = m + 1
    OBVIOUS
<1>2. CASE spans[m + 1] = {}
    BY <1>1, <1>2 DEF AllCovered
<1>3. ASSUME NEW span \in spans[m + 1] PROVE AllCovered(q, r, spans, m + 1)
    <2>1. IsSpan(span) /\ \A b \in spans[m + 1] : span = b
        BY DEF SpansFit
    <2>2. q = Grown(p, span)
        BY <2>1 DEF TheOne
    <2>3. IsRange(q) /\ Covers(q, span) /\ Covers(q, <<p.min, p.max>>)
        BY <2>1, <2>2, GrownCovers DEF AllCovered
    <2>4. Covers(q, <<r.min, r.max>>)
        <3>1. IsSpan(<<r.min, r.max>>)
            BY RangeEnds DEF IsSpan
        <3> QED
            BY <2>3, <3>1, CoversAll DEF AllCovered
    <2>5. ASSUME NEW i \in 1..(m + 1), NEW s \in spans[i] PROVE Covers(q, s)
        <3>1. IsSpan(s)
            BY DEF SpansFit
        <3>2. CASE i = m + 1
            BY <2>1, <2>3, <3>2
        <3>3. CASE i \in 1..m
            BY <2>3, <3>1, <3>3, CoversAll DEF AllCovered
        <3> QED
            BY <1>1, <3>2, <3>3
    <2> QED
        BY <2>3, <2>4, <2>5 DEF AllCovered
<1> QED
    BY <1>2, <1>3

Growth(f, r, spans, n) ==
    f = [i \in 0..n |-> IF i = 0 THEN r
                        ELSE IF spans[i] = {} THEN f[i - 1] ELSE Grown(f[i - 1], TheOne(spans[i]))]

LEMMA GrowthExists ==
    ASSUME NEW r, NEW spans, NEW n \in Nat
    PROVE  \E f : Growth(f, r, spans, n)
<1> DEFINE Next1(x, i) == IF spans[i] = {} THEN x ELSE Grown(x, TheOne(spans[i]))
           Grows(f, m) == f = [i \in 0..m |-> IF i = 0 THEN r ELSE Next1(f[i - 1], i)]
           S == {m \in Nat : \E f : Grows(f, m)}
<1> HIDE DEF Next1
<1>1. 0 \in S
    <2> DEFINE f0 == [i \in 0..0 |-> r]
    <2>1. f0 = [i \in 0..0 |-> IF i = 0 THEN r ELSE Next1(f0[i - 1], i)]
        OBVIOUS
    <2> HIDE DEF f0
    <2> QED
        BY <2>1
<1>2. ASSUME NEW m \in Nat, m \in S PROVE m + 1 \in S
    <2>1. PICK f : Grows(f, m)
        BY <1>2
    <2> DEFINE g == [i \in 0..(m + 1) |-> IF i <= m THEN f[i] ELSE Next1(f[m], i)]
               h == [i \in 0..(m + 1) |-> IF i = 0 THEN r ELSE Next1(g[i - 1], i)]
    <2>2. ASSUME NEW i \in 0..(m + 1) PROVE g[i] = h[i]
        <3>1. CASE i <= m
            <4>1. g[i] = f[i] /\ i \in 0..m
                BY <3>1
            <4>2. f[i] = IF i = 0 THEN r ELSE Next1(f[i - 1], i)
                BY <2>1, <4>1
            <4>3. i # 0 => g[i - 1] = f[i - 1]
                BY <3>1
            <4> HIDE DEF g
            <4> QED
                BY <4>1, <4>2, <4>3
        <3>2. CASE i = m + 1
            <4>1. g[i] = Next1(f[m], i) /\ i # 0
                BY <3>2
            <4>2. g[i - 1] = f[m]
                BY <3>2
            <4> HIDE DEF g
            <4> QED
                BY <4>1, <4>2
        <3> QED
            BY <3>1, <3>2
    <2>3. g = h
        <3>1. g = [i \in 0..(m + 1) |-> g[i]] /\ h = [i \in 0..(m + 1) |-> h[i]]
            OBVIOUS
        <3> HIDE DEF g, h
        <3> QED
            BY <2>2, <3>1
    <2>4. Grows(g, m + 1)
        BY <2>3
    <2> HIDE DEF Grows
    <2> QED
        BY <2>4
<1> HIDE DEF S
<1>3. n \in S
    BY <1>1, <1>2, NatSetInduction
<1> QED
    BY <1>3 DEF S, Next1, Growth

(* A range that is grown by them covers all spans. *)
LEMMA GrownByCovers ==
    ASSUME NEW r, IsRange(r), NEW spans, Len(spans) \in Nat, SpansFit(spans, Len(spans)),
           NEW g, g = GrownBy(r, spans)
    PROVE  AllCovered(g, r, spans, Len(spans))
<1> DEFINE n == Len(spans)
           all == CHOOSE f : Growth(f, r, spans, Len(spans))
<1>1. g = all[n]
    BY DEF GrownBy, GrownUpTo, Growth
<1>2. \E f : Growth(f, r, spans, Len(spans))
    BY GrowthExists
<1>3. PICK f : f = all /\ Growth(f, r, spans, n)
    BY <1>2
<1>4. /\ f[0] = r
      /\ \A i \in 1..n : f[i] = IF spans[i] = {} THEN f[i - 1]
                               ELSE Grown(f[i - 1], TheOne(spans[i]))
    <2>1. f = [i \in 0..Len(spans) |-> IF i = 0 THEN r
                                      ELSE IF spans[i] = {} THEN f[i - 1]
                                      ELSE Grown(f[i - 1], TheOne(spans[i]))]
        BY <1>3, Zenon DEF Growth
    <2>2. \A i \in 0..Len(spans) : f[i] = IF i = 0 THEN r
                                          ELSE IF spans[i] = {} THEN f[i - 1]
                                          ELSE Grown(f[i - 1], TheOne(spans[i]))
        BY <2>1, Zenon
    <2>3. 0 \in 0..Len(spans) /\ \A i \in 1..Len(spans) : i \in 0..Len(spans) /\ i # 0
        OBVIOUS
    <2> QED
        BY <2>2, <2>3, Zenon
<1>5. n \in Nat /\ SpansFit(spans, n)
    OBVIOUS
<1> HIDE DEF all, n
<1> DEFINE T == {m \in Nat : m <= n => AllCovered(f[m], r, spans, m)}
<1>6. 0 \in T
    BY <1>4, CoversItself DEF AllCovered
<1>7. ASSUME NEW m \in Nat, m \in T PROVE m + 1 \in T
    <2> SUFFICES ASSUME m + 1 <= n PROVE AllCovered(f[m + 1], r, spans, m + 1)
        OBVIOUS
    <2>1. AllCovered(f[m], r, spans, m)
        BY <1>5, <1>7
    <2>2. f[m + 1] = IF spans[m + 1] = {} THEN f[m] ELSE Grown(f[m], TheOne(spans[m + 1]))
        <3>1. PICK j : j = m + 1 /\ j \in 1..n /\ j - 1 = m
            BY <1>5
        <3>2. f[j] = IF spans[j] = {} THEN f[j - 1] ELSE Grown(f[j - 1], TheOne(spans[j]))
            BY <1>4, <3>1, Zenon
        <3> QED
            BY <3>1, <3>2, Zenon
    <2>3. SpansFit(spans, m + 1)
        BY <1>5 DEF SpansFit
    <2> QED
        BY <2>1, <2>2, <2>3, GrownCoversAll, Zenon
<1> HIDE DEF T
<1>8. n \in T
    BY <1>5, <1>6, <1>7, NatSetInduction
<1>9. AllCovered(f[n], r, spans, n)
    BY <1>5, <1>8 DEF T
<1> QED
    BY <1>1, <1>3, <1>9 DEF n

=============================================================================
