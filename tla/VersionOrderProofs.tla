------------------------ MODULE VersionOrderProofs ------------------------
(***************************************************************************)
(* The key by which SQL sorts releases orders all versions as the program  *)
(* compares them (KeysSortVersions).                                       *)
(***************************************************************************)
EXTENDS VersionOrder, WellFoundedInduction, TLAPS

-----------------------------------------------------------------------------
(* Sequences that part                                                     *)

LEMMA Smallest ==
    ASSUME NEW S, S \subseteq Nat, S # {}
    PROVE  \E n \in S : \A k \in S : n <= k
<1> DEFINE Below == {p \in Nat \X Nat : p[1] < p[2]}
<1>1. IsWellFoundedOn(Below, Nat)
    BY NatLessThanWellFounded, Zenon DEF OpToRel
<1> HIDE DEF Below
<1>2. PICK n \in S : \A k \in S : ~ (<<k, n>> \in Below)
    BY <1>1, WFMin
<1>3. \A k \in S : n <= k
    <2> SUFFICES ASSUME NEW k \in S, ~(n <= k) PROVE FALSE
        OBVIOUS
    <2>1. n \in Nat /\ k \in Nat /\ k < n
        OBVIOUS
    <2>2. <<k, n>> \in Below
        BY <2>1 DEF Below
    <2> QED BY <1>2, <2>2
<1> QED BY <1>3

\* s and t have the same first n elements.
Alike(s, t, n) == n <= Len(s) /\ n <= Len(t) /\ \A i \in 1..n : s[i] = t[i]

LEMMA AgreeIs ==
    ASSUME NEW S, NEW s \in Seq(S), NEW t \in Seq(S), NEW n \in Nat
    PROVE  Agree(s, t, n) <=> Alike(s, t, n) /\ n < Len(t)
<1> SUFFICES ASSUME n <= Len(s), n < Len(t)
             PROVE  SubSeq(s, 1, n) = SubSeq(t, 1, n) <=> \A i \in 1..n : s[i] = t[i]
    BY DEF Agree, Alike
<1>1. Len(SubSeq(s, 1, n)) = n /\ \A i \in 1..n : SubSeq(s, 1, n)[i] = s[i]
    OBVIOUS
<1>2. Len(SubSeq(t, 1, n)) = n /\ \A i \in 1..n : SubSeq(t, 1, n)[i] = t[i]
    OBVIOUS
<1>3. SubSeq(s, 1, n) \in Seq(S) /\ SubSeq(t, 1, n) \in Seq(S)
    OBVIOUS
<1> QED BY <1>1, <1>2, <1>3

\* Two sequences are the same, or part after n elements.
LEMMA FirstDifference ==
    ASSUME NEW S, NEW s \in Seq(S), NEW t \in Seq(S), s # t
    PROVE  \E n \in Nat : /\ Alike(s, t, n)
                          /\ \/ n = Len(s) /\ n < Len(t)
                             \/ n = Len(t) /\ n < Len(s)
                             \/ n < Len(s) /\ n < Len(t) /\ s[n + 1] # t[n + 1]
<1> DEFINE Shared == {k \in Nat : k < Len(s) /\ k < Len(t)}
           Parted == {k \in Shared : s[k + 1] # t[k + 1]}
<1>1. CASE Parted # {}
    <2>1. PICK n \in Parted : \A k \in Parted : n <= k
        BY <1>1, Smallest
    <2>2. \A i \in 1..n : s[i] = t[i]
        <3> SUFFICES ASSUME NEW i \in 1..n, s[i] # t[i] PROVE FALSE
            OBVIOUS
        <3>1. i - 1 \in Nat /\ i - 1 < n /\ i - 1 + 1 = i
            OBVIOUS
        <3>2. i - 1 \in Parted
            BY <3>1
        <3> QED BY <2>1, <3>1, <3>2
    <2> QED BY <2>1, <2>2 DEF Alike
<1>2. CASE Parted = {}
    <2>1. \A i \in Nat \ {0} : i <= Len(s) /\ i <= Len(t) => s[i] = t[i]
        <3> SUFFICES ASSUME NEW i \in Nat \ {0}, i <= Len(s), i <= Len(t), s[i] # t[i] PROVE FALSE
            OBVIOUS
        <3>1. i - 1 \in Shared /\ i - 1 + 1 = i
            OBVIOUS
        <3> QED BY <1>2, <3>1
    <2>2. Len(s) # Len(t)
        BY <2>1
    <2>3. CASE Len(s) < Len(t)
        BY <2>1, <2>3 DEF Alike
    <2>4. CASE Len(t) < Len(s)
        BY <2>1, <2>4 DEF Alike
    <2> QED BY <2>2, <2>3, <2>4
<1> QED BY <1>1, <1>2

-----------------------------------------------------------------------------
(* Texts                                                                   *)

Text == Seq(Nat)

\* t goes on where s ends, or their first different characters are in order.
Parts(s, t, n)    == n < Len(s) /\ n < Len(t) /\ s[n + 1] < t[n + 1]
Continues(s, t, n) == n = Len(s) /\ n < Len(t)

LEMMA TextLessIs ==
    ASSUME NEW s \in Text, NEW t \in Text
    PROVE  TextLess(s, t) <=> \E n \in Nat : Alike(s, t, n) /\ (Continues(s, t, n) \/ Parts(s, t, n))
<1>1. \A n \in 0..Len(s) : Agree(s, t, n) <=> Alike(s, t, n) /\ n < Len(t)
    BY AgreeIs DEF Text
<1> QED BY <1>1 DEF TextLess, Text, Alike, Continues, Parts

LEMMA TextTotal ==
    ASSUME NEW s \in Text, NEW t \in Text
    PROVE  TextLess(s, t) \/ TextLess(t, s) \/ s = t
<1> SUFFICES ASSUME s # t PROVE TextLess(s, t) \/ TextLess(t, s)
    OBVIOUS
<1>1. PICK n \in Nat : /\ Alike(s, t, n)
                       /\ \/ n = Len(s) /\ n < Len(t)
                          \/ n = Len(t) /\ n < Len(s)
                          \/ n < Len(s) /\ n < Len(t) /\ s[n + 1] # t[n + 1]
    BY FirstDifference DEF Text
<1>2. Alike(t, s, n)
    BY <1>1 DEF Alike
<1>3. \/ Continues(s, t, n) \/ Parts(s, t, n)
      \/ Continues(t, s, n) \/ Parts(t, s, n)
    BY <1>1 DEF Continues, Parts, Text
<1> QED BY <1>1, <1>2, <1>3, TextLessIs

LEMMA TextIrreflexive ==
    ASSUME NEW s \in Text
    PROVE  ~TextLess(s, s)
BY TextLessIs DEF Alike, Continues, Parts, Text

LEMMA TextTransitive ==
    ASSUME NEW s \in Text, NEW t \in Text, NEW u \in Text, TextLess(s, t), TextLess(t, u)
    PROVE  TextLess(s, u)
<1>1. PICK n \in Nat : Alike(s, t, n) /\ (Continues(s, t, n) \/ Parts(s, t, n))
    BY TextLessIs
<1>2. PICK k \in Nat : Alike(t, u, k) /\ (Continues(t, u, k) \/ Parts(t, u, k))
    BY TextLessIs
<1> DEFINE m == IF n <= k THEN n ELSE k
<1>3. m \in Nat /\ Alike(s, u, m)
    BY <1>1, <1>2 DEF Alike
<1>4. Continues(s, u, m) \/ Parts(s, u, m)
    <2>1. CASE n < k
        BY <1>1, <1>2, <2>1 DEF Alike, Continues, Parts, Text
    <2>2. CASE k < n
        BY <1>1, <1>2, <2>2 DEF Alike, Continues, Parts, Text
    <2>3. CASE n = k
        BY <1>1, <1>2, <2>3 DEF Alike, Continues, Parts, Text
    <2> QED BY <2>1, <2>2, <2>3
<1> HIDE DEF m
<1> QED BY <1>3, <1>4, TextLessIs

-----------------------------------------------------------------------------
(* Texts put together                                                      *)

\* The texts have a first difference, so that nothing that follows matters.
Diverge(s, t) == \E n \in Nat : Alike(s, t, n) /\ Parts(s, t, n)

LEMMA DivergedAreOrdered ==
    ASSUME NEW s \in Text, NEW t \in Text, Diverge(s, t)
    PROVE  TextLess(s, t)
BY TextLessIs DEF Diverge

LEMMA Joining ==
    ASSUME NEW s \in Text, NEW a \in Text
    PROVE  /\ s \o a \in Text /\ Len(s \o a) = Len(s) + Len(a)
           /\ \A i \in 1..Len(s) : (s \o a)[i] = s[i]
           /\ \A i \in 1..Len(a) : (s \o a)[Len(s) + i] = a[i]
BY DEF Text

LEMMA JoiningIsAssociative ==
    ASSUME NEW s \in Text, NEW t \in Text, NEW u \in Text
    PROVE  (s \o t) \o u = s \o (t \o u)
BY DEF Text

LEMMA DivergeWhateverFollows ==
    ASSUME NEW s \in Text, NEW t \in Text, NEW a \in Text, NEW b \in Text, Diverge(s, t)
    PROVE  Diverge(s \o a, t \o b)
<1>1. PICK n \in Nat : Alike(s, t, n) /\ Parts(s, t, n)
    BY DEF Diverge
<1>2. Alike(s \o a, t \o b, n) /\ Parts(s \o a, t \o b, n)
    BY <1>1, Joining DEF Alike, Parts, Text
<1> QED BY <1>2 DEF Diverge

LEMMA AlikeAfterTheSame ==
    ASSUME NEW s \in Text, NEW t \in Text, NEW c \in Text, NEW n \in Nat, Alike(s, t, n)
    PROVE  /\ Len(c) + n \in Nat /\ Alike(c \o s, c \o t, Len(c) + n)
           /\ Continues(s, t, n) => Continues(c \o s, c \o t, Len(c) + n)
           /\ Parts(s, t, n) => Parts(c \o s, c \o t, Len(c) + n)
<1> DEFINE x == c \o s
           y == c \o t
<1>1. /\ Len(x) = Len(c) + Len(s) /\ Len(y) = Len(c) + Len(t)
      /\ \A i \in 1..Len(c) : x[i] = c[i] /\ y[i] = c[i]
      /\ \A i \in 1..Len(s) : x[Len(c) + i] = s[i]
      /\ \A i \in 1..Len(t) : y[Len(c) + i] = t[i]
    BY Joining
<1>2. Len(c) \in Nat /\ Len(s) \in Nat /\ Len(t) \in Nat
    BY DEF Text
<1> HIDE DEF x, y
<1>3. \A i \in 1..(Len(c) + n) : x[i] = y[i]
    <2> SUFFICES ASSUME NEW i \in 1..(Len(c) + n), i > Len(c) PROVE x[i] = y[i]
        BY <1>1, <1>2
    <2>1. i - Len(c) \in 1..n /\ Len(c) + (i - Len(c)) = i
        BY <1>2
    <2> HIDE <2>1
    <2> DEFINE j == i - Len(c)
    <2>2. j \in 1..Len(s) /\ j \in 1..Len(t) /\ s[j] = t[j] /\ Len(c) + j = i
        BY <1>2, <2>1 DEF Alike
    <2> QED BY <1>1, <2>2
<1>4. Alike(x, y, Len(c) + n)
    BY <1>1, <1>2, <1>3 DEF Alike
<1>5. ASSUME Parts(s, t, n) PROVE Parts(x, y, Len(c) + n)
    <2>1. n + 1 \in 1..Len(s) /\ n + 1 \in 1..Len(t) /\ Len(c) + n + 1 = Len(c) + (n + 1)
        BY <1>2, <1>5 DEF Parts
    <2>2. x[Len(c) + n + 1] = s[n + 1] /\ y[Len(c) + n + 1] = t[n + 1]
        BY <1>1, <2>1
    <2> QED BY <1>1, <1>2, <1>5, <2>2 DEF Parts
<1>6. Continues(s, t, n) => Continues(x, y, Len(c) + n)
    BY <1>1, <1>2 DEF Continues
<1> QED BY <1>2, <1>4, <1>5, <1>6 DEF x, y

LEMMA DivergeAfterTheSame ==
    ASSUME NEW s \in Text, NEW t \in Text, NEW c \in Text, Diverge(s, t)
    PROVE  Diverge(c \o s, c \o t)
BY AlikeAfterTheSame DEF Diverge

LEMMA OrderedAfterTheSame ==
    ASSUME NEW s \in Text, NEW t \in Text, NEW c \in Text, TextLess(s, t)
    PROVE  TextLess(c \o s, c \o t)
<1>1. PICK n \in Nat : Alike(s, t, n) /\ (Continues(s, t, n) \/ Parts(s, t, n))
    BY TextLessIs
<1>2. c \o s \in Text /\ c \o t \in Text
    BY Joining
<1> QED BY <1>1, <1>2, AlikeAfterTheSame, TextLessIs

\* One character decides.
LEMMA DivergeAtOnce ==
    ASSUME NEW s \in Text, NEW t \in Text, s # <<>>, t # <<>>, s[1] < t[1]
    PROVE  Diverge(s, t)
<1>1. Alike(s, t, 0) /\ Parts(s, t, 0)
    BY DEF Alike, Parts, Text
<1> QED BY <1>1 DEF Diverge

\* A text goes before all that go on from it.
LEMMA TextBeforeLonger ==
    ASSUME NEW s \in Text, NEW a \in Text, a # <<>>
    PROVE  TextLess(s, s \o a)
<1>1. Len(a) > 0 /\ Len(s) \in Nat
    BY DEF Text
<1>2. Alike(s, s \o a, Len(s)) /\ Continues(s, s \o a, Len(s))
    BY <1>1, Joining DEF Alike, Continues
<1> QED BY <1>1, <1>2, Joining, TextLessIs

-----------------------------------------------------------------------------
(* Numbers and identifiers: of two different ones, the keys diverge        *)

LEMMA CharactersAreTexts ==
    /\ Zero \in Text /\ Len(Zero) = 1 /\ Zero[1] = 48
    /\ One \in Text /\ Len(One) = 1 /\ One[1] = 49
    /\ Bang \in Text /\ Len(Bang) = 1 /\ Bang[1] = 33
BY DEF Zero, One, Bang, Text

LEMMA IdentifiersAreTexts ==
    /\ Number \subseteq Text /\ Identifier \subseteq Text
    /\ \A m \in Number : Len(m) \in Nat \ {0} /\ IsNumber(m)
    /\ \A a \in Identifier : /\ Len(a) \in Nat \ {0} /\ \A i \in 1..Len(a) : a[i] > 33
                             /\ IsNumber(a) => a \in Number
<1>1. Digit \subseteq Nat /\ Letter \subseteq Nat /\ \A c \in Digit \cup Letter : c > 33
    BY DEF Digit, Letter
<1>2. Number \subseteq Text /\ Identifier \subseteq Text
    <2>1. ASSUME NEW S, S \subseteq Nat PROVE Seq(S) \subseteq Seq(Nat)
        <3> SUFFICES ASSUME NEW s \in Seq(S) PROVE s \in Seq(Nat)
            OBVIOUS
        <3>1. Len(s) \in Nat /\ s \in [1..Len(s) -> S]
            OBVIOUS
        <3>2. s \in [1..Len(s) -> Nat]
            BY <2>1, <3>1
        <3> QED BY <3>1, <3>2
    <2> QED BY <1>1, <2>1 DEF Number, Identifier, Text
<1>3. \A m \in Number : Len(m) \in Nat \ {0} /\ IsNumber(m)
    BY DEF Number, IsNumber
<1>4. ASSUME NEW a \in Identifier
      PROVE  /\ Len(a) \in Nat \ {0} /\ \A i \in 1..Len(a) : a[i] > 33
             /\ IsNumber(a) => a \in Number
    <2>1. a \in Seq(Digit \cup Letter) /\ a # <<>>
        BY DEF Identifier
    <2>2. Len(a) \in Nat \ {0} /\ \A i \in 1..Len(a) : a[i] \in Digit \cup Letter
        BY <2>1
    <2>3. ASSUME IsNumber(a) PROVE a \in Seq(Digit)
        <3>1. \A i \in 1..Len(a) : a[i] \in Digit
            BY <2>1, <2>3 DEF IsNumber
        <3> QED BY <2>1, <3>1
    <2> QED BY <1>1, <2>1, <2>2, <2>3 DEF Number
<1> QED BY <1>2, <1>3, <1>4

\* A digit text and the sign that ends it: the key of a number behind its length.
LEMMA NumberKeyIs ==
    ASSUME NEW m \in Number
    PROVE  /\ NumberKey(m) \in Text /\ NumberKey(m) = <<Len(m)>> \o (m \o Bang)
           /\ NumberKey(m)[1] = Len(m) /\ NumberKey(m) # <<>>
<1>1. m \in Text /\ Len(m) \in Nat
    BY IdentifiersAreTexts
<1>2. <<Len(m)>> \in Text /\ Len(<<Len(m)>>) = 1 /\ <<Len(m)>>[1] = Len(m)
    BY <1>1 DEF Text
<1>3. NumberKey(m) = <<Len(m)>> \o (m \o Bang)
    BY <1>1, <1>2, CharactersAreTexts, JoiningIsAssociative DEF NumberKey
<1>4. m \o Bang \in Text
    BY <1>1, CharactersAreTexts, Joining
<1>5. NumberKey(m) \in Text /\ NumberKey(m)[1] = Len(m) /\ Len(NumberKey(m)) >= 1
    BY <1>2, <1>3, <1>4, Joining DEF Text
<1> QED BY <1>3, <1>5 DEF Text

LEMMA NumberTotal ==
    ASSUME NEW m \in Number, NEW n \in Number
    PROVE  NumberLess(m, n) \/ NumberLess(n, m) \/ m = n
BY IdentifiersAreTexts, TextTotal DEF NumberLess

LEMMA NumberKeysDiverge ==
    ASSUME NEW m \in Number, NEW n \in Number, NumberLess(m, n)
    PROVE  Diverge(NumberKey(m), NumberKey(n))
<1>1. CASE Len(m) < Len(n)
    BY <1>1, NumberKeyIs, DivergeAtOnce
<1>2. CASE Len(m) = Len(n) /\ TextLess(m, n)
    <2>1. m \in Text /\ n \in Text /\ Len(m) \in Nat
        BY IdentifiersAreTexts
    <2>2. Diverge(m, n)
        BY <1>2, <2>1, TextLessIs DEF Continues, Diverge
    <2>3. Diverge(m \o Bang, n \o Bang)
        BY <2>1, <2>2, DivergeWhateverFollows, CharactersAreTexts
    <2>4. <<Len(m)>> \in Text /\ m \o Bang \in Text /\ n \o Bang \in Text
        BY <2>1, CharactersAreTexts, Joining DEF Text
    <2> QED BY <1>2, <2>3, <2>4, NumberKeyIs, DivergeAfterTheSame
<1> QED BY <1>1, <1>2 DEF NumberLess

LEMMA IdentifierKeyIs ==
    ASSUME NEW a \in Identifier
    PROVE  IdentifierKey(a) \in Text /\ IdentifierKey(a) # <<>>
<1>1. CASE IsNumber(a)
    <2>1. IdentifierKey(a) = Zero \o NumberKey(a)
        BY <1>1 DEF IdentifierKey
    <2>2. Zero \in Text /\ NumberKey(a) \in Text /\ Len(Zero) = 1
        BY <1>1, IdentifiersAreTexts, NumberKeyIs, CharactersAreTexts
    <2>3. IdentifierKey(a) \in Text /\ Len(IdentifierKey(a)) = 1 + Len(NumberKey(a))
        BY <2>1, <2>2, Joining DEF Text
    <2> QED BY <2>2, <2>3 DEF Text
<1>2. CASE ~IsNumber(a)
    <2>1. IdentifierKey(a) = One \o a \o Bang
        BY <1>2 DEF IdentifierKey
    <2>2. a \in Text /\ One \in Text /\ Len(One) = 1
        BY IdentifiersAreTexts, CharactersAreTexts
    <2>3. One \o a \in Text /\ Len(One \o a) = Len(One) + Len(a)
        BY <2>2, Joining
    <2>4. /\ IdentifierKey(a) \in Text
          /\ Len(IdentifierKey(a)) = Len(One \o a) + Len(Bang) /\ Len(Bang) = 1
        BY <2>1, <2>3, CharactersAreTexts, Joining
    <2> QED BY <2>3, <2>4 DEF Text
<1> QED BY <1>1, <1>2

LEMMA IdentifierTotal ==
    ASSUME NEW a \in Identifier, NEW b \in Identifier
    PROVE  IdentifierLess(a, b) \/ IdentifierLess(b, a) \/ a = b
BY IdentifiersAreTexts, NumberTotal, TextTotal DEF IdentifierLess

LEMMA IdentifierKeysDiverge ==
    ASSUME NEW a \in Identifier, NEW b \in Identifier, IdentifierLess(a, b)
    PROVE  Diverge(IdentifierKey(a), IdentifierKey(b))
<1>0. Zero \in Text /\ One \in Text /\ Bang \in Text
    BY CharactersAreTexts
<1>1. a \in Text /\ b \in Text
    BY IdentifiersAreTexts
<1>2. CASE IsNumber(a) /\ ~IsNumber(b)
    <2>1. NumberKey(a) \in Text /\ b \o Bang \in Text
        BY <1>0, <1>1, <1>2, IdentifiersAreTexts, NumberKeyIs, Joining
    <2>2. IdentifierKey(a) = Zero \o NumberKey(a) /\ IdentifierKey(b) = One \o (b \o Bang)
        BY <1>0, <1>1, <1>2, JoiningIsAssociative DEF IdentifierKey
    <2>3. Diverge(Zero, One)
        BY DivergeAtOnce, CharactersAreTexts DEF Text
    <2> QED BY <1>0, <2>1, <2>2, <2>3, DivergeWhateverFollows
<1>3. CASE IsNumber(a) /\ IsNumber(b) /\ NumberLess(a, b)
    <2>1. a \in Number /\ b \in Number
        BY <1>3, IdentifiersAreTexts
    <2>2. IdentifierKey(a) = Zero \o NumberKey(a) /\ IdentifierKey(b) = Zero \o NumberKey(b)
        BY <1>3 DEF IdentifierKey
    <2> QED BY <1>0, <1>3, <2>1, <2>2, NumberKeysDiverge, NumberKeyIs, DivergeAfterTheSame
<1>4. CASE ~IsNumber(a) /\ ~IsNumber(b) /\ TextLess(a, b)
    <2>1. a \o Bang \in Text /\ b \o Bang \in Text
        BY <1>0, <1>1, Joining
    <2>2. IdentifierKey(a) = One \o (a \o Bang) /\ IdentifierKey(b) = One \o (b \o Bang)
        BY <1>0, <1>1, <1>4, JoiningIsAssociative DEF IdentifierKey
    <2>3. PICK n \in Nat : Alike(a, b, n) /\ (Continues(a, b, n) \/ Parts(a, b, n))
        BY <1>1, <1>4, TextLessIs
    <2>4. CASE Parts(a, b, n)
        <3>1. Diverge(a, b)
            BY <2>3, <2>4 DEF Diverge
        <3>2. Diverge(a \o Bang, b \o Bang)
            BY <1>0, <1>1, <3>1, DivergeWhateverFollows
        <3> QED BY <1>0, <2>1, <2>2, <3>2, DivergeAfterTheSame
    <2>5. CASE Continues(a, b, n)
        \* the sign that ends a goes before the character with which b goes on
        <3> DEFINE x == a \o Bang
                   y == b \o Bang
        <3>1. /\ Len(x) = Len(a) + Len(Bang)
              /\ \A i \in 1..Len(a) : x[i] = a[i]
              /\ \A i \in 1..Len(Bang) : x[Len(a) + i] = Bang[i]
            BY <1>0, <1>1, Joining
        <3>2. Len(y) = Len(b) + Len(Bang) /\ \A i \in 1..Len(b) : y[i] = b[i]
            BY <1>0, <1>1, Joining
        <3>3. Len(x) = Len(a) + 1 /\ Len(y) = Len(b) + 1 /\ x[Len(a) + 1] = 33
            BY <3>1, <3>2, CharactersAreTexts
        <3> HIDE DEF x, y
        <3>4. Len(a) \in Nat /\ Len(b) \in Nat /\ b[n + 1] > 33 /\ n = Len(a) /\ n < Len(b)
            BY <1>1, <2>5, IdentifiersAreTexts DEF Continues, Text
        <3>5. x[n + 1] = 33 /\ y[n + 1] = b[n + 1]
            BY <3>2, <3>3, <3>4
        <3>6. Alike(x, y, n)
            BY <2>3, <3>1, <3>2, <3>3, <3>4 DEF Alike
        <3>7. Parts(x, y, n)
            BY <3>3, <3>4, <3>5 DEF Parts
        <3>8. Diverge(x, y)
            BY <3>6, <3>7 DEF Diverge
        <3> QED BY <1>0, <2>1, <2>2, <3>8, DivergeAfterTheSame DEF x, y
    <2> QED BY <2>3, <2>4, <2>5
<1> QED BY <1>2, <1>3, <1>4 DEF IdentifierLess

-----------------------------------------------------------------------------
(* The identifiers of a prerelease, one behind the other                   *)

\* g puts the first n texts of s together.
Gathers(g, s, n) ==
    /\ g \in [1..n -> Text] /\ g[1] = s[1]
    /\ \A i \in 2..n : g[i] = g[i - 1] \o s[i]

\* There is such a function, step by step: the smallest n without one cannot be.
LEMMA GatheringExists ==
    ASSUME NEW s \in Seq(Text), s # <<>>
    PROVE  \E g : Gathers(g, s, Len(s))
<1> DEFINE Bad == {n \in 1..Len(s) : \A g : ~Gathers(g, s, n)}
<1>1. Len(s) \in Nat \ {0} /\ \A i \in 1..Len(s) : s[i] \in Text
    OBVIOUS
<1>2. SUFFICES Bad = {}
    BY <1>1
<1>3. SUFFICES ASSUME Bad # {} PROVE FALSE
    OBVIOUS
<1>4. Bad \subseteq Nat
    OBVIOUS
<1>5. PICK n \in Bad : \A k \in Bad : n <= k
    BY <1>3, <1>4, Smallest
<1>6. n \in 1..Len(s) /\ \A g : ~Gathers(g, s, n)
    BY <1>5
<1>7. n # 1
    <2>1. Gathers([i \in 1..1 |-> s[1]], s, 1)
        BY <1>1 DEF Gathers
    <2> QED BY <1>6, <2>1
<1>8. n - 1 \in 1..Len(s) /\ n - 1 \notin Bad
    BY <1>5, <1>6, <1>7
<1>9. PICK g : Gathers(g, s, n - 1)
    BY <1>8
<1> DEFINE last == g[n - 1] \o s[n]
           h == [i \in 1..n |-> IF i < n THEN g[i] ELSE last]
<1>10. g \in [1..(n - 1) -> Text] /\ g[n - 1] \in Text /\ s[n] \in Text
    BY <1>1, <1>6, <1>8, <1>9 DEF Gathers
<1>11. last \in Text /\ last = g[n - 1] \o s[n]
    BY <1>10, Joining
<1> HIDE DEF last
<1>12. h \in [1..n -> Text]
    BY <1>6, <1>10, <1>11
<1>13. h[1] = s[1]
    BY <1>6, <1>7, <1>9 DEF Gathers
<1>14. ASSUME NEW i \in 2..n PROVE h[i] = h[i - 1] \o s[i]
    <2>1. CASE i < n
        <3>1. i \in 2..(n - 1) /\ i - 1 \in 1..n /\ i - 1 < n /\ i \in 1..n
            BY <1>6, <2>1
        <3>2. g[i] = g[i - 1] \o s[i]
            BY <1>9, <3>1 DEF Gathers
        <3>3. h[i] = g[i] /\ h[i - 1] = g[i - 1]
            BY <2>1, <3>1
        <3> QED BY <3>2, <3>3
    <2>2. CASE i = n
        <3>1. n - 1 \in 1..n /\ n - 1 < n /\ n \in 1..n
            BY <1>6, <1>7
        <3>2. h[n] = last /\ h[n - 1] = g[n - 1]
            BY <3>1
        <3> QED BY <1>11, <2>2, <3>2
    <2>3. n \in Nat
        BY <1>6
    <2>4. i < n \/ i = n
        BY <2>3
    <2> QED BY <2>1, <2>2, <2>4
<1> HIDE DEF h
<1>15. Gathers(h, s, n)
    BY <1>12, <1>13, <1>14 DEF Gathers
<1> QED BY <1>6, <1>15

LEMMA FlatteningIs ==
    ASSUME NEW s \in Seq(Text), s # <<>>
    PROVE  \E g : Gathers(g, s, Len(s)) /\ FlattenSeq(s) = g[Len(s)]
<1> DEFINE Step(f) == [i \in 1..Len(s) |-> IF i = 1 THEN s[i] ELSE f[i - 1] \o s[i]]
           flatten == CHOOSE f : f = Step(f)
<1>1. Len(s) \in Nat \ {0}
    OBVIOUS
<1>2. PICK g : Gathers(g, s, Len(s))
    BY GatheringExists
<1>3. g = Step(g)
    <2>1. g \in [1..Len(s) -> Text]
        BY <1>2 DEF Gathers
    <2>2. ASSUME NEW i \in 1..Len(s) PROVE g[i] = IF i = 1 THEN s[i] ELSE g[i - 1] \o s[i]
        <3>1. CASE i = 1
            BY <1>2, <3>1 DEF Gathers
        <3>2. CASE i # 1
            <4>1. i \in 2..Len(s)
                BY <3>2
            <4> QED BY <1>2, <3>2, <4>1 DEF Gathers
        <3> QED BY <3>1, <3>2
    <2> QED BY <2>1, <2>2
<1>4. flatten = Step(flatten)
    <2> HIDE DEF Step
    <2> QED BY <1>3
<1>5. FlattenSeq(s) = flatten[Len(s)]
    BY <1>1 DEF FlattenSeq
<1> HIDE DEF flatten
<1>6. \A i \in 1..Len(s) : flatten[i] = IF i = 1 THEN s[i] ELSE flatten[i - 1] \o s[i]
    BY <1>4
<1>7. \A i \in 1..Len(s) : g[i] = IF i = 1 THEN s[i] ELSE g[i - 1] \o s[i]
    BY <1>3
\* the smallest number for which they differ cannot be
<1>8. \A i \in 1..Len(s) : flatten[i] = g[i]
    <2> DEFINE Bad == {i \in 1..Len(s) : flatten[i] # g[i]}
    <2> SUFFICES ASSUME Bad # {} PROVE FALSE
        OBVIOUS
    <2>1. PICK i \in Bad : \A k \in Bad : i <= k
        <3>1. Bad \subseteq Nat
            OBVIOUS
        <3> HIDE DEF Bad
        <3> QED BY <3>1, Smallest
    <2>2. i \in 1..Len(s) /\ flatten[i] # g[i]
        BY <2>1
    <2>3. i # 1
        BY <1>6, <1>7, <2>2
    <2>4. i - 1 \in 1..Len(s) /\ i - 1 \notin Bad
        BY <1>1, <2>1, <2>2, <2>3
    <2>5. flatten[i - 1] = g[i - 1]
        BY <2>4
    <2> QED BY <1>6, <1>7, <2>2, <2>5
<1> QED BY <1>1, <1>2, <1>5, <1>8

LEMMA NothingFollows ==
    ASSUME NEW s \in Text
    PROVE  <<>> \in Text /\ s \o <<>> = s
BY DEF Text

\* What is put together goes on from what the first n texts give.
LEMMA GatheringGoesOn ==
    ASSUME NEW s \in Seq(Text), NEW g, Gathers(g, s, Len(s)), NEW n \in 1..Len(s)
    PROVE  \E r \in Text : g[Len(s)] = g[n] \o r
<1> DEFINE Bad == {k \in n..Len(s) : \A r \in Text : g[k] # g[n] \o r}
<1>1. Len(s) \in Nat /\ n \in Nat \ {0} /\ n <= Len(s)
    OBVIOUS
<1>2. \A i \in 1..Len(s) : g[i] \in Text /\ s[i] \in Text
    BY DEF Gathers
<1>3. SUFFICES ASSUME Bad # {} PROVE FALSE
    BY <1>1
<1>4. PICK k \in Bad : \A i \in Bad : k <= i
    <2>1. Bad \subseteq Nat
        BY <1>1
    <2> HIDE DEF Bad
    <2> QED BY <1>3, <2>1, Smallest
<1>5. k \in n..Len(s) /\ \A r \in Text : g[k] # g[n] \o r
    BY <1>4
<1>6. g[n] \in Text
    BY <1>2
<1>7. k # n
    BY <1>5, <1>6, NothingFollows
<1>8. k - 1 \in n..Len(s) /\ k \in 2..Len(s) /\ k - 1 \notin Bad
    <2>1. k - 1 \in n..Len(s) /\ k \in 2..Len(s)
        <3>1. k \in Nat /\ n <= k /\ k <= Len(s)
            BY <1>1, <1>5
        <3> HIDE DEF Bad
        <3> QED BY <1>1, <1>7, <3>1
    <2>2. k \in Nat /\ k - 1 \in Nat /\ ~(k <= k - 1)
        BY <1>1, <2>1
    <2> HIDE DEF Bad
    <2> QED BY <1>4, <2>1, <2>2
<1>9. PICK r \in Text : g[k - 1] = g[n] \o r
    BY <1>8
<1>10. g[k] = g[k - 1] \o s[k] /\ s[k] \in Text
    <2>1. k \in 2..Len(s) /\ k \in 1..Len(s)
        BY <1>8
    <2>2. \A i \in 2..Len(s) : g[i] = g[i - 1] \o s[i]
        BY Zenon DEF Gathers
    <2> QED BY <1>2, <2>1, <2>2
<1>11. g[k] = g[n] \o (r \o s[k]) /\ r \o s[k] \in Text
    <2>1. (g[n] \o r) \o s[k] = g[n] \o (r \o s[k])
        BY <1>6, <1>9, <1>10, JoiningIsAssociative
    <2>2. r \o s[k] \in Text
        BY <1>9, <1>10, Joining
    <2> QED BY <1>9, <1>10, <2>1, <2>2
<1> QED BY <1>5, <1>11

\* ... and with the next text.
LEMMA NextIsGathered ==
    ASSUME NEW s \in Seq(Text), NEW g, Gathers(g, s, Len(s)), NEW n \in 1..Len(s), n < Len(s)
    PROVE  \E r \in Text : g[Len(s)] = (g[n] \o s[n + 1]) \o r
<1>1. n + 1 \in 1..Len(s) /\ n + 1 \in 2..Len(s) /\ n + 1 - 1 = n
    OBVIOUS
<1>2. g[n + 1] = g[n] \o s[n + 1]
    <2> DEFINE m == n + 1
    <2>1. \A i \in 2..Len(s) : g[i] = g[i - 1] \o s[i]
        BY Zenon DEF Gathers
    <2>2. m \in 2..Len(s) /\ m - 1 = n
        BY <1>1
    <2> HIDE DEF m
    <2>3. g[m] = g[m - 1] \o s[m]
        BY <2>1, <2>2, Zenon
    <2>4. g[m] = g[n] \o s[m]
        BY <2>2, <2>3, Zenon
    <2> QED BY <2>4, Zenon DEF m
<1>3. PICK r \in Text : g[Len(s)] = g[n + 1] \o r
    BY <1>1, GatheringGoesOn
<1> QED BY <1>2, <1>3

\* Of the same texts the same is put together.
LEMMA SameIsGathered ==
    ASSUME NEW s \in Seq(Text), NEW t \in Seq(Text), NEW g, NEW h,
           Gathers(g, s, Len(s)), Gathers(h, t, Len(t)), NEW n \in Nat \ {0}, Alike(s, t, n)
    PROVE  g[n] = h[n]
<1> DEFINE Bad == {k \in 1..n : g[k] # h[k]}
<1>1. n <= Len(s) /\ n <= Len(t) /\ Len(s) \in Nat /\ Len(t) \in Nat
    BY DEF Alike
<1>2. SUFFICES ASSUME Bad # {} PROVE FALSE
    OBVIOUS
<1>3. PICK k \in Bad : \A i \in Bad : k <= i
    <2>1. Bad \subseteq Nat
        OBVIOUS
    <2> HIDE DEF Bad
    <2> QED BY <1>2, <2>1, Smallest
<1>4. k \in 1..n /\ g[k] # h[k] /\ s[k] = t[k]
    BY <1>3 DEF Alike
<1>5. k # 1
    BY <1>4 DEF Gathers
<1>6. k - 1 \in 1..n /\ k \in 2..Len(s) /\ k \in 2..Len(t) /\ k - 1 \notin Bad
    BY <1>1, <1>3, <1>4, <1>5
<1>7. g[k - 1] = h[k - 1]
    BY <1>6
<1> QED BY <1>4, <1>6, <1>7 DEF Gathers

-----------------------------------------------------------------------------
(* The parts of the key                                                    *)

KeysOf(p) == [i \in DOMAIN p |-> IdentifierKey(p[i])]

LEMMA KeysOfAre ==
    ASSUME NEW p \in Seq(Identifier), p # <<>>
    PROVE  /\ KeysOf(p) \in Seq(Text) /\ KeysOf(p) # <<>> /\ Len(KeysOf(p)) = Len(p)
           /\ \A i \in 1..Len(p) : /\ KeysOf(p)[i] = IdentifierKey(p[i])
                                   /\ p[i] \in Identifier /\ KeysOf(p)[i] # <<>>
<1>1. Len(p) \in Nat \ {0} /\ DOMAIN p = 1..Len(p) /\ \A i \in 1..Len(p) : p[i] \in Identifier
    OBVIOUS
<1>2. \A i \in 1..Len(p) : IdentifierKey(p[i]) \in Text /\ IdentifierKey(p[i]) # <<>>
    BY <1>1, IdentifierKeyIs
<1>3. /\ KeysOf(p) \in [1..Len(p) -> Text]
      /\ \A i \in 1..Len(p) : KeysOf(p)[i] = IdentifierKey(p[i])
    BY <1>1, <1>2 DEF KeysOf
<1>4. KeysOf(p) \in Seq(Text) /\ Len(KeysOf(p)) = Len(p)
    BY <1>1, <1>3
<1> QED BY <1>1, <1>2, <1>3, <1>4

LEMMA PrereleaseKeysAreOrdered ==
    ASSUME NEW p \in Seq(Identifier), NEW q \in Seq(Identifier), p # <<>>, PrereleaseLess(p, q)
    PROVE  q # <<>> /\ TextLess(FlattenSeq(KeysOf(p)), FlattenSeq(KeysOf(q)))
<1>1. PICK n \in Nat : /\ Alike(p, q, n) /\ n < Len(q)
                       /\ \/ n = Len(p)
                          \/ n < Len(p) /\ IdentifierLess(p[n + 1], q[n + 1])
    <2>1. PICK n \in 0..Len(p) : Agree(p, q, n) /\ (n = Len(p) \/ IdentifierLess(p[n + 1], q[n + 1]))
        BY DEF PrereleaseLess
    <2>2. n \in Nat /\ n <= Len(p) /\ Alike(p, q, n) /\ n < Len(q)
        BY <2>1, AgreeIs
    <2> QED BY <2>1, <2>2
<1>2. q # <<>> /\ Len(p) \in Nat \ {0} /\ Len(q) \in Nat
    BY <1>1
<1> DEFINE s == KeysOf(p)
           t == KeysOf(q)
<1>3. /\ s \in Seq(Text) /\ s # <<>> /\ Len(s) = Len(p)
      /\ t \in Seq(Text) /\ t # <<>> /\ Len(t) = Len(q)
    BY <1>2, KeysOfAre
<1>4. Alike(s, t, n)
    BY <1>1, <1>2, <1>3, KeysOfAre DEF Alike
<1>5. n < Len(p) => Diverge(s[n + 1], t[n + 1])
    <2> SUFFICES ASSUME n < Len(p) PROVE Diverge(s[n + 1], t[n + 1])
        OBVIOUS
    <2>1. n + 1 \in 1..Len(p) /\ n + 1 \in 1..Len(q)
        BY <1>1, <1>2
    <2>2. IdentifierLess(p[n + 1], q[n + 1])
        BY <1>1, <1>2
    <2> QED BY <1>2, <2>1, <2>2, KeysOfAre, IdentifierKeysDiverge
<1>6. t[n + 1] # <<>> /\ t[n + 1] \in Text /\ (n < Len(p) => s[n + 1] \in Text)
    <2>1. n + 1 \in 1..Len(q) /\ (n < Len(p) => n + 1 \in 1..Len(p))
        BY <1>1, <1>2
    <2> QED BY <1>2, <1>3, <2>1, KeysOfAre
<1> HIDE DEF s, t
<1>7. PICK g : Gathers(g, s, Len(s)) /\ FlattenSeq(s) = g[Len(s)]
    BY <1>3, FlatteningIs
<1>8. PICK h : Gathers(h, t, Len(t)) /\ FlattenSeq(t) = h[Len(t)]
    BY <1>3, FlatteningIs
<1>9. CASE n = 0
    <2>1. g[1] = s[1] /\ h[1] = t[1] /\ Diverge(s[1], t[1]) /\ s[1] \in Text /\ t[1] \in Text
        BY <1>2, <1>5, <1>6, <1>7, <1>8, <1>9 DEF Gathers
    <2>0. 1 \in 1..Len(s) /\ 1 \in 1..Len(t)
        BY <1>2, <1>3
    <2>2. PICK a \in Text : g[Len(s)] = g[1] \o a
        BY <1>3, <1>7, <2>0, GatheringGoesOn
    <2>3. PICK b \in Text : h[Len(t)] = h[1] \o b
        BY <1>3, <1>8, <2>0, GatheringGoesOn
    <2>4. Diverge(s[1] \o a, t[1] \o b)
        BY <2>1, DivergeWhateverFollows
    <2> QED BY <1>2, <1>7, <1>8, <2>1, <2>2, <2>3, <2>4, Joining, DivergedAreOrdered DEF s, t
<1>10. CASE n # 0
    <2>1. n \in Nat \ {0} /\ n \in 1..Len(s) /\ n \in 1..Len(t) /\ n < Len(t)
        BY <1>1, <1>2, <1>3, <1>10 DEF Alike
    <2>2. g[n] = h[n] /\ g[n] \in Text
        <3>1. g[n] = h[n]
            BY <1>3, <1>4, <1>7, <1>8, <2>1, SameIsGathered
        <3> QED BY <1>7, <2>1, <3>1 DEF Gathers
    <2>3. PICK b \in Text : h[Len(t)] = (h[n] \o t[n + 1]) \o b
        BY <1>3, <1>8, <2>1, NextIsGathered
    <2>4. CASE n = Len(p)
        <3>1. h[Len(t)] = g[n] \o (t[n + 1] \o b)
            <4>1. (g[n] \o t[n + 1]) \o b = g[n] \o (t[n + 1] \o b)
                BY <1>6, <2>2, JoiningIsAssociative
            <4> QED BY <2>2, <2>3, <4>1
        <3>2. t[n + 1] \o b \in Text /\ t[n + 1] \o b # <<>>
            <4>1. t[n + 1] \o b \in Text /\ Len(t[n + 1] \o b) = Len(t[n + 1]) + Len(b)
                BY <1>6, Joining
            <4> QED BY <1>6, <4>1 DEF Text
        <3>3. TextLess(g[n], h[Len(t)])
            BY <2>2, <3>1, <3>2, TextBeforeLonger
        <3> QED BY <1>2, <1>3, <1>7, <1>8, <2>4, <3>3 DEF s, t
    <2>5. CASE n < Len(p)
        <3>1. PICK a \in Text : g[Len(s)] = (g[n] \o s[n + 1]) \o a
            BY <1>3, <1>7, <2>1, <2>5, NextIsGathered
        <3>2. Diverge(g[n] \o s[n + 1], h[n] \o t[n + 1])
            BY <1>5, <1>6, <2>2, <2>5, DivergeAfterTheSame
        <3>3. g[n] \o s[n + 1] \in Text /\ h[n] \o t[n + 1] \in Text
            BY <1>6, <2>2, <2>5, Joining
        <3>4. Diverge(g[Len(s)], h[Len(t)]) /\ g[Len(s)] \in Text /\ h[Len(t)] \in Text
            BY <2>3, <3>1, <3>2, <3>3, Joining, DivergeWhateverFollows
        <3> QED BY <1>2, <1>7, <1>8, <3>4, DivergedAreOrdered DEF s, t
    <2> QED BY <1>1, <2>4, <2>5
<1> QED BY <1>9, <1>10

LEMMA PrereleaseTotal ==
    ASSUME NEW p \in Seq(Identifier), NEW q \in Seq(Identifier)
    PROVE  PrereleaseLess(p, q) \/ PrereleaseLess(q, p) \/ p = q
<1> SUFFICES ASSUME p # q PROVE PrereleaseLess(p, q) \/ PrereleaseLess(q, p)
    OBVIOUS
<1>1. PICK n \in Nat : /\ Alike(p, q, n)
                       /\ \/ n = Len(p) /\ n < Len(q)
                          \/ n = Len(q) /\ n < Len(p)
                          \/ n < Len(p) /\ n < Len(q) /\ p[n + 1] # q[n + 1]
    BY FirstDifference
<1>2. Alike(q, p, n) /\ n \in 0..Len(p) /\ n \in 0..Len(q)
    BY <1>1 DEF Alike
<1>3. CASE n = Len(p) /\ n < Len(q)
    BY <1>1, <1>2, <1>3, AgreeIs DEF PrereleaseLess
<1>4. CASE n = Len(q) /\ n < Len(p)
    BY <1>1, <1>2, <1>4, AgreeIs DEF PrereleaseLess
<1>5. CASE n < Len(p) /\ n < Len(q) /\ p[n + 1] # q[n + 1]
    <2>1. p[n + 1] \in Identifier /\ q[n + 1] \in Identifier
        BY <1>5
    <2>2. Agree(p, q, n) /\ Agree(q, p, n)
        BY <1>1, <1>2, <1>5, AgreeIs
    <2> QED BY <1>2, <1>5, <2>1, <2>2, IdentifierTotal DEF PrereleaseLess
<1> QED BY <1>1, <1>3, <1>4, <1>5

LEMMA PrereleaseKeyIs ==
    ASSUME NEW p \in Seq(Identifier)
    PROVE  /\ PrereleaseKey(p) \in Text /\ PrereleaseKey(p) # <<>>
           /\ p = <<>> => PrereleaseKey(p) = One
           /\ p # <<>> => /\ FlattenSeq(KeysOf(p)) \in Text
                          /\ PrereleaseKey(p) = Zero \o FlattenSeq(KeysOf(p))
                          /\ PrereleaseKey(p)[1] = 48
<1>1. CASE p = <<>>
    <2>1. PrereleaseKey(p) = One
        BY <1>1 DEF PrereleaseKey
    <2> QED BY <1>1, <2>1, CharactersAreTexts DEF Text
<1>2. CASE p # <<>>
    <2>1. PrereleaseKey(p) = Zero \o FlattenSeq(KeysOf(p))
        BY <1>2 DEF PrereleaseKey, KeysOf
    <2>2. KeysOf(p) \in Seq(Text) /\ KeysOf(p) # <<>>
        BY <1>2, KeysOfAre
    <2> DEFINE s == KeysOf(p)
               x == FlattenSeq(s)
    <2> HIDE DEF s
    <2>3. x \in Text
        <3>1. PICK g : Gathers(g, s, Len(s)) /\ x = g[Len(s)]
            BY <2>2, FlatteningIs DEF s
        <3>2. Len(s) \in 1..Len(s)
            BY <2>2 DEF s
        <3> QED BY <3>1, <3>2 DEF Gathers
    <2> HIDE DEF x
    <2>4. Zero \o x \in Text /\ Len(Zero \o x) = Len(Zero) + Len(x) /\ (Zero \o x)[1] = 48
        <3>1. 1 \in 1..Len(Zero)
            BY CharactersAreTexts
        <3>2. \A i \in 1..Len(Zero) : (Zero \o x)[i] = Zero[i]
            BY <2>3, CharactersAreTexts, Joining
        <3> QED BY <2>3, <3>1, <3>2, CharactersAreTexts, Joining
    <2>5. Zero \o x # <<>>
        BY <2>3, <2>4, CharactersAreTexts DEF Text
    <2> QED BY <1>2, <2>1, <2>3, <2>4, <2>5 DEF x, s
<1> QED BY <1>1, <1>2

\* A prerelease goes before another, or before the release itself.
PreLess(p, q) == p # <<>> /\ (q = <<>> \/ PrereleaseLess(p, q))

LEMMA PreKeysAreOrdered ==
    ASSUME NEW p \in Seq(Identifier), NEW q \in Seq(Identifier), PreLess(p, q)
    PROVE  TextLess(PrereleaseKey(p), PrereleaseKey(q))
<1>1. CASE q = <<>>
    <2>1. PrereleaseKey(p)[1] < PrereleaseKey(q)[1]
        <3>1. PrereleaseKey(p)[1] = 48
            BY PrereleaseKeyIs DEF PreLess
        <3>2. PrereleaseKey(q) = One /\ One[1] = 49
            BY <1>1, PrereleaseKeyIs, CharactersAreTexts
        <3> QED BY <3>1, <3>2
    <2> QED BY <2>1, PrereleaseKeyIs, DivergeAtOnce, DivergedAreOrdered
<1>2. CASE q # <<>>
    <2>1. TextLess(FlattenSeq(KeysOf(p)), FlattenSeq(KeysOf(q)))
        BY <1>2, PrereleaseKeysAreOrdered DEF PreLess
    <2>2. p # <<>> /\ Zero \in Text
        BY CharactersAreTexts DEF PreLess
    <2> QED BY <1>2, <2>1, <2>2, PrereleaseKeyIs, OrderedAfterTheSame
<1> QED BY <1>1, <1>2

LEMMA PreTotal ==
    ASSUME NEW p \in Seq(Identifier), NEW q \in Seq(Identifier)
    PROVE  PreLess(p, q) \/ PreLess(q, p) \/ p = q
BY PrereleaseTotal DEF PreLess

-----------------------------------------------------------------------------
(* The three numbers                                                       *)

LEMMA CoreIs ==
    ASSUME NEW c \in Core
    PROVE  /\ c \in Seq(Number) /\ Len(c) = 3 /\ c # <<>>
           /\ c[1] \in Number /\ c[2] \in Number /\ c[3] \in Number
           /\ c = <<c[1], c[2], c[3]>>
<1>1. PICK x \in Number, y \in Number, z \in Number : c = <<x, y, z>>
    BY DEF Core
<1>2. <<x, y, z>> \in Seq(Number) /\ Len(<<x, y, z>>) = 3
    OBVIOUS
<1> QED BY <1>1, <1>2

LEMMA CoreLessIs ==
    ASSUME NEW c \in Core, NEW d \in Core
    PROVE  CoreLess(c, d) <=> \/ NumberLess(c[1], d[1])
                              \/ c[1] = d[1] /\ NumberLess(c[2], d[2])
                              \/ c[1] = d[1] /\ c[2] = d[2] /\ NumberLess(c[3], d[3])
<1>1. c \in Seq(Number) /\ d \in Seq(Number) /\ Len(c) = 3 /\ Len(d) = 3
    BY CoreIs
<1>2. \A n \in 0..2 : Agree(c, d, n) <=> \A i \in 1..n : c[i] = d[i]
    BY <1>1, AgreeIs DEF Alike
<1>3. Agree(c, d, 0) /\ (Agree(c, d, 1) <=> c[1] = d[1])
      /\ (Agree(c, d, 2) <=> c[1] = d[1] /\ c[2] = d[2])
    BY <1>2
<1>4. CoreLess(c, d) <=> \/ Agree(c, d, 0) /\ NumberLess(c[0 + 1], d[0 + 1])
                         \/ Agree(c, d, 1) /\ NumberLess(c[1 + 1], d[1 + 1])
                         \/ Agree(c, d, 2) /\ NumberLess(c[2 + 1], d[2 + 1])
    BY DEF CoreLess
<1> QED BY <1>3, <1>4

LEMMA CoreTotal ==
    ASSUME NEW c \in Core, NEW d \in Core
    PROVE  CoreLess(c, d) \/ CoreLess(d, c) \/ c = d
BY CoreIs, CoreLessIs, NumberTotal

\* The key of a semantic version, up to its prerelease.
CoreKey(c) == One \o NumberKey(c[1]) \o NumberKey(c[2]) \o NumberKey(c[3])

LEMMA CoreKeyIs ==
    ASSUME NEW c \in Core
    PROVE  CoreKey(c) \in Text /\ CoreKey(c) # <<>> /\ CoreKey(c)[1] = 49
<1> DEFINE x == NumberKey(c[1])
           y == NumberKey(c[2])
           z == NumberKey(c[3])
<1>1. x \in Text /\ y \in Text /\ z \in Text
    BY CoreIs, NumberKeyIs
<1> HIDE DEF x, y, z
<1>2. 1 \in 1..Len(One) /\ One \in Text /\ One[1] = 49
    BY CharactersAreTexts
<1>3. One \o x \in Text /\ Len(One \o x) = Len(One) + Len(x) /\ (One \o x)[1] = 49
    BY <1>1, <1>2, Joining
<1> DEFINE a == One \o x
<1>4. a \in Text /\ Len(a) >= 1 /\ a[1] = 49
    BY <1>1, <1>3, CharactersAreTexts DEF Text
<1> HIDE DEF a
<1>5. a \o y \in Text /\ Len(a \o y) = Len(a) + Len(y) /\ (a \o y)[1] = a[1]
    <2>1. 1 \in 1..Len(a)
        BY <1>4 DEF Text
    <2> QED BY <1>1, <1>4, <2>1, Joining
<1> DEFINE b == a \o y
<1>6. b \in Text /\ Len(b) >= 1 /\ b[1] = 49
    BY <1>1, <1>4, <1>5 DEF Text
<1> HIDE DEF b
<1>7. b \o z \in Text /\ Len(b \o z) = Len(b) + Len(z) /\ (b \o z)[1] = b[1]
    <2>1. 1 \in 1..Len(b)
        BY <1>6 DEF Text
    <2> QED BY <1>1, <1>6, <2>1, Joining
<1>8. b \o z # <<>>
    BY <1>1, <1>6, <1>7 DEF Text
<1> QED BY <1>6, <1>7, <1>8 DEF CoreKey, a, b, x, y, z

LEMMA CoreKeysDiverge ==
    ASSUME NEW c \in Core, NEW d \in Core, CoreLess(c, d)
    PROVE  Diverge(CoreKey(c), CoreKey(d))
<1> DEFINE x(k) == NumberKey(k[1])
           y(k) == NumberKey(k[2])
           z(k) == NumberKey(k[3])
<1>1. /\ x(c) \in Text /\ y(c) \in Text /\ z(c) \in Text
      /\ x(d) \in Text /\ y(d) \in Text /\ z(d) \in Text /\ One \in Text
    BY CoreIs, NumberKeyIs, CharactersAreTexts
<1>2. \/ Diverge(x(c), x(d))
      \/ x(c) = x(d) /\ Diverge(y(c), y(d))
      \/ x(c) = x(d) /\ y(c) = y(d) /\ Diverge(z(c), z(d))
    BY CoreIs, CoreLessIs, NumberKeysDiverge
<1>3. /\ CoreKey(c) = One \o x(c) \o y(c) \o z(c)
      /\ CoreKey(d) = One \o x(d) \o y(d) \o z(d)
    BY DEF CoreKey
<1> HIDE DEF x, y, z
<1>4. /\ One \o x(c) \in Text /\ One \o x(d) \in Text
      /\ One \o x(c) \o y(c) \in Text /\ One \o x(d) \o y(d) \in Text
    BY <1>1, Joining
<1>5. CASE Diverge(x(c), x(d))
    <2>1. Diverge(One \o x(c), One \o x(d))
        BY <1>1, <1>5, DivergeAfterTheSame
    <2>2. Diverge(One \o x(c) \o y(c), One \o x(d) \o y(d))
        BY <1>1, <1>4, <2>1, DivergeWhateverFollows
    <2> QED BY <1>1, <1>3, <1>4, <2>2, DivergeWhateverFollows
<1>6. CASE x(c) = x(d) /\ Diverge(y(c), y(d))
    <2>1. Diverge(One \o x(c) \o y(c), One \o x(c) \o y(d))
        BY <1>1, <1>4, <1>6, DivergeAfterTheSame
    <2> QED BY <1>1, <1>3, <1>4, <1>6, <2>1, DivergeWhateverFollows
<1>7. CASE x(c) = x(d) /\ y(c) = y(d) /\ Diverge(z(c), z(d))
    BY <1>1, <1>3, <1>4, <1>7, DivergeAfterTheSame
<1> QED BY <1>2, <1>5, <1>6, <1>7

-----------------------------------------------------------------------------
(* The key of a version                                                    *)

LEMMA ParsedVersionsAre ==
    ASSUME NEW v \in ParsedVersion
    PROVE  v.pre \in Seq(Identifier) /\ v.text \in Text /\ (IsSemantic(v) => v.core \in Core)
BY DEF ParsedVersion, IsSemantic, Text

LEMMA OrderKeyIs ==
    ASSUME NEW v \in ParsedVersion
    PROVE  /\ OrderKey(v) \in Text /\ OrderKey(v) # <<>>
           /\ IsSemantic(v) => /\ OrderKey(v) = CoreKey(v.core) \o PrereleaseKey(v.pre)
                               /\ OrderKey(v)[1] = 49
           /\ ~IsSemantic(v) => OrderKey(v) = Zero \o v.text /\ OrderKey(v)[1] = 48
<1>1. CASE IsSemantic(v)
    <2> DEFINE x == CoreKey(v.core)
               y == PrereleaseKey(v.pre)
    <2>1. x \in Text /\ y \in Text /\ x # <<>> /\ x[1] = 49
        BY <1>1, ParsedVersionsAre, CoreKeyIs, PrereleaseKeyIs
    <2>2. OrderKey(v) = x \o y
        BY <1>1 DEF OrderKey, CoreKey
    <2> HIDE DEF x, y
    <2>3. 1 \in 1..Len(x)
        BY <2>1 DEF Text
    <2>4. x \o y \in Text /\ Len(x \o y) = Len(x) + Len(y) /\ (x \o y)[1] = 49
        BY <2>1, <2>3, Joining
    <2>5. x \o y # <<>>
        BY <2>1, <2>3, <2>4 DEF Text
    <2> QED BY <1>1, <2>2, <2>4, <2>5 DEF x, y
<1>2. CASE ~IsSemantic(v)
    <2> DEFINE y == v.text
    <2>1. y \in Text /\ Zero \in Text /\ 1 \in 1..Len(Zero) /\ Zero[1] = 48
        BY ParsedVersionsAre, CharactersAreTexts
    <2>2. OrderKey(v) = Zero \o y
        BY <1>2 DEF OrderKey
    <2> HIDE DEF y
    <2>3. Zero \o y \in Text /\ Len(Zero \o y) = Len(Zero) + Len(y) /\ (Zero \o y)[1] = 48
        BY <2>1, Joining
    <2>4. Zero \o y # <<>>
        BY <2>1, <2>3, CharactersAreTexts DEF Text
    <2> QED BY <1>2, <2>2, <2>3, <2>4 DEF y
<1> QED BY <1>1, <1>2

LEMMA OrderKeysAreOrdered ==
    ASSUME NEW v \in ParsedVersion, NEW w \in ParsedVersion, VersionLess(v, w)
    PROVE  TextLess(OrderKey(v), OrderKey(w))
<1>1. CASE IsSemantic(v) /\ IsSemantic(w) /\ SemverLess(v, w)
    <2> DEFINE x == CoreKey(v.core)
               y == CoreKey(w.core)
               a == PrereleaseKey(v.pre)
               b == PrereleaseKey(w.pre)
    <2>1. /\ v.core \in Core /\ w.core \in Core
          /\ v.pre \in Seq(Identifier) /\ w.pre \in Seq(Identifier)
        BY <1>1, ParsedVersionsAre
    <2>2. x \in Text /\ y \in Text /\ a \in Text /\ b \in Text
        BY <2>1, CoreKeyIs, PrereleaseKeyIs
    <2>3. OrderKey(v) = x \o a /\ OrderKey(w) = y \o b
        BY <1>1, OrderKeyIs
    <2>4. CASE CoreLess(v.core, w.core)
        <3>1. Diverge(x, y)
            BY <2>1, <2>4, CoreKeysDiverge
        <3> HIDE DEF x, y, a, b
        <3>2. Diverge(x \o a, y \o b) /\ x \o a \in Text /\ y \o b \in Text
            BY <2>2, <3>1, DivergeWhateverFollows, Joining
        <3> QED BY <2>3, <3>2, DivergedAreOrdered
    <2>5. CASE v.core = w.core /\ PreLess(v.pre, w.pre)
        <3>1. TextLess(a, b) /\ x = y
            BY <2>1, <2>5, PreKeysAreOrdered
        <3> HIDE DEF x, y, a, b
        <3> QED BY <2>2, <2>3, <3>1, OrderedAfterTheSame
    <2> QED BY <1>1, <2>4, <2>5 DEF SemverLess, PreLess
<1>2. CASE ~IsSemantic(v) /\ IsSemantic(w)
    BY <1>2, OrderKeyIs, DivergeAtOnce, DivergedAreOrdered
<1>3. CASE ~IsSemantic(v) /\ ~IsSemantic(w) /\ TextLess(v.text, w.text)
    BY <1>3, OrderKeyIs, ParsedVersionsAre, CharactersAreTexts, OrderedAfterTheSame
<1> QED BY <1>1, <1>2, <1>3 DEF VersionLess

LEMMA VersionsTotal ==
    ASSUME NEW v \in ParsedVersion, NEW w \in ParsedVersion
    PROVE  VersionLess(v, w) \/ VersionLess(w, v) \/ OrderKey(v) = OrderKey(w)
<1>1. CASE IsSemantic(v) /\ IsSemantic(w)
    <2>1. /\ v.core \in Core /\ w.core \in Core
          /\ v.pre \in Seq(Identifier) /\ w.pre \in Seq(Identifier)
        BY <1>1, ParsedVersionsAre
    <2>2. CASE v.core = w.core /\ v.pre = w.pre
        BY <1>1, <2>2 DEF OrderKey
    <2> QED BY <1>1, <2>1, <2>2, CoreTotal, PreTotal DEF VersionLess, SemverLess, PreLess
<1>2. CASE ~IsSemantic(v) /\ ~IsSemantic(w)
    <2>1. v.text = w.text => OrderKey(v) = OrderKey(w)
        BY <1>2 DEF OrderKey
    <2> QED BY <1>2, <2>1, ParsedVersionsAre, TextTotal DEF VersionLess
<1> QED BY <1>1, <1>2 DEF VersionLess

\* The key under which SQL sorts a release orders any two versions exactly as
\* CompareVersions does: numbers of any length, prereleases before their release,
\* and texts that are no semantic versions before all the others.
THEOREM KeysSortVersions ==
    ASSUME NEW v \in ParsedVersion, NEW w \in ParsedVersion
    PROVE  /\ VersionLess(v, w) <=> TextLess(OrderKey(v), OrderKey(w))
           /\ Equivalent(v, w) <=> OrderKey(v) = OrderKey(w)
<1>1. OrderKey(v) \in Text /\ OrderKey(w) \in Text
    BY OrderKeyIs
<1>2. /\ VersionLess(v, w) => TextLess(OrderKey(v), OrderKey(w))
      /\ VersionLess(w, v) => TextLess(OrderKey(w), OrderKey(v))
    BY OrderKeysAreOrdered
<1>3. ~TextLess(OrderKey(v), OrderKey(v))
    BY <1>1, TextIrreflexive
<1>4. ~(TextLess(OrderKey(v), OrderKey(w)) /\ TextLess(OrderKey(w), OrderKey(v)))
    BY <1>1, <1>3, TextTransitive
<1> QED BY <1>2, <1>3, <1>4, VersionsTotal DEF Equivalent

\* CompareVersions is an order: no version goes before itself, what goes before a
\* version goes before all that come after it, and of two versions one goes before
\* the other or they are equivalent, to each other and against every third.
THEOREM VersionsAreOrdered ==
    ASSUME NEW u \in ParsedVersion, NEW v \in ParsedVersion, NEW w \in ParsedVersion
    PROVE  /\ ~VersionLess(u, u)
           /\ VersionLess(u, v) /\ VersionLess(v, w) => VersionLess(u, w)
           /\ Equivalent(u, v) => (VersionLess(u, w) <=> VersionLess(v, w))
<1>1. OrderKey(u) \in Text /\ OrderKey(v) \in Text /\ OrderKey(w) \in Text
    BY OrderKeyIs
<1>2. VersionLess(u, v) /\ VersionLess(v, w) => VersionLess(u, w)
    BY <1>1, KeysSortVersions, TextTransitive
<1> QED BY <1>1, <1>2, KeysSortVersions, TextIrreflexive
===========================================================================
