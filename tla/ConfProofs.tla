----------------------------- MODULE ConfProofs -----------------------------
(***************************************************************************)
(* Proofs about Conf, for files of any length with values of any length.   *)
(***************************************************************************)
EXTENDS Conf, SequenceTheorems, WellFoundedInduction, TLAPS

-----------------------------------------------------------------------------
(* The least and the largest of a set of numbers.                          *)

LEMMA OrderOfNumbers ==
  \E R : IsWellFoundedOn(R, Nat) /\ \A x, y \in Nat : x < y => <<x, y>> \in R
<1>1. IsWellFoundedOn(OpToRel(<, Nat), Nat)
  BY NatLessThanWellFounded
<1>2. \A x, y \in Nat : x < y => <<x, y>> \in OpToRel(<, Nat)
  BY DEF OpToRel
<1> QED
  BY <1>1, <1>2

LEMMA LeastNumber ==
  ASSUME NEW S, S \subseteq Nat, S # {}
  PROVE  Min(S) \in S /\ \A y \in S : Min(S) <= y
<1>1. PICK R : IsWellFoundedOn(R, Nat) /\ \A x, y \in Nat : x < y => <<x, y>> \in R
  BY OrderOfNumbers
<1>2. IsWellFoundedOn(R, Nat)
  BY <1>1
<1>3. \E x \in S : \A y \in S : ~ (<<y, x>> \in R)
  BY ONLY <1>2, S \subseteq Nat, S # {}, WFMin
<1>4. PICK x \in S : \A y \in S : ~ (<<y, x>> \in R)
  BY <1>3
<1>5. ASSUME NEW y \in S
      PROVE  x <= y
  <2>1. x \in Nat /\ y \in Nat
    OBVIOUS
  <2>2. ~ (y < x)
    BY <1>1, <1>4, <2>1
  <2> QED
    BY <2>1, <2>2
<1> QED
  BY <1>5 DEF Min

LEMMA LargestNumber ==
  ASSUME NEW n \in Nat, NEW S, S \subseteq 0 .. n, S # {}
  PROVE  Max(S) \in S /\ \A y \in S : y <= Max(S)
<1> DEFINE T == {k \in 0 .. n : n - k \in S}
<1>1. T \subseteq Nat
  OBVIOUS
<1>2. T # {}
  <2>1. PICK y \in S : TRUE
    OBVIOUS
  <2>2. n - y \in 0 .. n /\ n - (n - y) = y
    OBVIOUS
  <2> QED
    BY <2>1, <2>2
<1>3. PICK k \in T : \A j \in T : k <= j
  <2> HIDE DEF T
  <2> QED
    BY <1>1, <1>2, LeastNumber
<1>4. n - k \in S
  OBVIOUS
<1>5. ASSUME NEW y \in S
      PROVE  y <= n - k
  <2>1. n - y \in 0 .. n /\ n - (n - y) = y
    OBVIOUS
  <2>2. n - y \in T
    BY <2>1
  <2>3. k <= n - y
    BY <1>3, <2>2
  <2> QED
    BY <2>3
<1> QED
  BY <1>4, <1>5 DEF Max

\* A number above all others is the largest.
LEMMA NewLargest ==
  ASSUME NEW n \in Nat, NEW S, S \subseteq 0 .. n
  PROVE  Max(S \cup {n + 1}) = n + 1
<1> DEFINE T == S \cup {n + 1}
<1>1. n + 1 \in T /\ \A y \in T : n + 1 >= y
  OBVIOUS
<1>2. \A x \in T : (\A y \in T : x >= y) => x = n + 1
  OBVIOUS
<1> HIDE DEF T
<1> QED
  BY <1>1, <1>2 DEF Max, T

-----------------------------------------------------------------------------
(* What is kept of a text.                                                 *)

\* The characters, of which two are named because they are put together with
\* others.
Character == STRING \cup {"quote", "C"}
Text == Seq(Character)

LEMMA TextType ==
  ASSUME NEW t \in Text
  PROVE  Len(t) \in Nat /\ DOMAIN t = 1 .. Len(t)
BY DEF Text

LEMMA PartOfText ==
  ASSUME NEW t \in Text, NEW n \in 0 .. Len(t)
  PROVE  /\ SubSeq(t, 1, n) \in Text /\ Len(SubSeq(t, 1, n)) = n
         /\ \A i \in 1 .. n : SubSeq(t, 1, n)[i] = t[i]
BY DEF Text

LEMMA PartOfPart ==
  ASSUME NEW t \in Text, NEW n \in 0 .. Len(t), NEW m \in 0 .. n
  PROVE  SubSeq(SubSeq(t, 1, n), 1, m) = SubSeq(t, 1, m)
<1> DEFINE u == SubSeq(t, 1, n)
           v == SubSeq(u, 1, m)
           w == SubSeq(t, 1, m)
<1>1. u \in Text /\ Len(u) = n /\ \A i \in 1 .. n : u[i] = t[i]
  BY PartOfText
<1>2. m \in 0 .. Len(t) /\ Len(t) \in Nat
  BY TextType
<1>3. w \in Text /\ Len(w) = m /\ \A i \in 1 .. m : w[i] = t[i]
  BY <1>2, PartOfText
<1> HIDE DEF u
<1>4. v \in Text /\ Len(v) = m /\ \A i \in 1 .. m : v[i] = u[i]
  BY <1>1, PartOfText
<1>5. \A i \in 1 .. m : v[i] = w[i]
  BY <1>1, <1>3, <1>4
<1> HIDE DEF v, w
<1>6. v = w
  BY <1>3, <1>4, <1>5, SeqEqual DEF Text
<1> QED
  BY <1>6 DEF u, v, w

\* The text before the first "#".
LEMMA CommentCut ==
  ASSUME NEW t \in Text
  PROVE  \E n \in 0 .. Len(t) :
           /\ UpToComment(t) = SubSeq(t, 1, n)
           /\ \A i \in 1 .. n : t[i] # "hash"
           /\ n < Len(t) => t[n + 1] = "hash"
<1> DEFINE S == {i \in DOMAIN t : t[i] = "hash"} \cup {Len(t) + 1}
           n == Min(S) - 1
<1>1. Len(t) \in Nat /\ DOMAIN t = 1 .. Len(t)
  BY TextType
<1>2. S \subseteq Nat /\ S # {}
  BY <1>1
<1>3. Min(S) \in S /\ \A i \in S : Min(S) <= i
  BY <1>2, LeastNumber
<1>4. n \in 0 .. Len(t) /\ n + 1 = Min(S)
  BY <1>1, <1>3
<1>5. \A i \in 1 .. n : t[i] # "hash"
  <2> SUFFICES ASSUME NEW i \in 1 .. n, t[i] = "hash"
               PROVE  FALSE
    OBVIOUS
  <2>1. i \in S
    BY <1>1, <1>4
  <2>2. Min(S) <= i
    BY <1>3, <2>1
  <2> QED
    BY <1>4, <2>2
<1>6. n < Len(t) => t[n + 1] = "hash"
  BY <1>1, <1>3, <1>4
<1>7. UpToComment(t) = SubSeq(t, 1, n)
  BY DEF UpToComment
<1> HIDE DEF n
<1> QED
  BY <1>4, <1>5, <1>6, <1>7

\* The text without blanks at its end.
LEMMA TrailingCut ==
  ASSUME NEW t \in Text
  PROVE  \E n \in 0 .. Len(t) :
           /\ WithoutTrailing(t) = SubSeq(t, 1, n)
           /\ n > 0 => t[n] # "blank"
           /\ \A i \in n + 1 .. Len(t) : t[i] = "blank"
<1> DEFINE S == {i \in DOMAIN t : t[i] # "blank"} \cup {0}
           n == Max(S)
<1>1. Len(t) \in Nat /\ DOMAIN t = 1 .. Len(t)
  BY TextType
<1>2. S \subseteq 0 .. Len(t) /\ S # {}
  BY <1>1
<1>3. n \in S /\ \A i \in S : i <= n
  BY <1>1, <1>2, LargestNumber
<1>4. n \in 0 .. Len(t) /\ (n > 0 => t[n] # "blank")
  BY <1>2, <1>3
<1>5. \A i \in n + 1 .. Len(t) : t[i] = "blank"
  <2> SUFFICES ASSUME NEW i \in n + 1 .. Len(t), t[i] # "blank"
               PROVE  FALSE
    OBVIOUS
  <2>1. i \in S
    BY <1>1, <1>4
  <2>2. i <= n
    BY <1>3, <2>1
  <2> QED
    BY <1>4, <2>2
<1>6. WithoutTrailing(t) = SubSeq(t, 1, n)
  BY DEF WithoutTrailing
<1> HIDE DEF n
<1> QED
  BY <1>4, <1>5, <1>6

\* What is not quoted loses what follows the longest plain beginning.
LEMMA PlainKept ==
  ASSUME NEW t \in Text, ~ Quoted(t)
  PROVE  \E n \in 0 .. Len(t) :
           /\ Stored(t) = SubSeq(t, 1, n)
           /\ Plain(SubSeq(t, 1, n))
           /\ \A m \in 0 .. Len(t) : Plain(SubSeq(t, 1, m)) => m <= n
<1>0. Len(t) \in Nat
  BY TextType
<1>1. PICK n \in 0 .. Len(t) :
        /\ UpToComment(t) = SubSeq(t, 1, n)
        /\ \A i \in 1 .. n : t[i] # "hash"
        /\ n < Len(t) => t[n + 1] = "hash"
  BY CommentCut
<1> DEFINE u == SubSeq(t, 1, n)
<1>2. u \in Text /\ Len(u) = n /\ \A i \in 1 .. n : u[i] = t[i]
  BY PartOfText
<1> HIDE DEF u
<1>3. PICK k \in 0 .. n :
        /\ WithoutTrailing(u) = SubSeq(u, 1, k)
        /\ k > 0 => u[k] # "blank"
        /\ \A i \in k + 1 .. n : u[i] = "blank"
  BY <1>2, TrailingCut
<1>4. k \in 0 .. Len(t)
  BY <1>0
<1>5. Stored(t) = SubSeq(t, 1, k)
  BY <1>1, <1>3, PartOfPart DEF Stored, u
<1>6. Plain(SubSeq(t, 1, k))
  <2> DEFINE v == SubSeq(t, 1, k)
  <2>1. v \in Text /\ Len(v) = k /\ \A i \in 1 .. k : v[i] = t[i]
    BY <1>4, PartOfText
  <2> HIDE DEF v
  <2>2. DOMAIN v = 1 .. k
    BY <2>1, TextType
  <2>3. \A i \in 1 .. k : v[i] # "hash"
    BY <1>0, <1>1, <2>1
  <2>4. v # <<>> => v[k] # "blank"
    <3>1. v # <<>> => k > 0
      BY <2>1, EmptySeq DEF Text
    <3>2. k > 0 => v[k] = u[k]
      BY <1>0, <1>2, <2>1
    <3> QED
      BY <1>3, <3>1, <3>2
  <2>5. Plain(v)
    BY <2>1, <2>2, <2>3, <2>4 DEF Plain, ToSet, Last
  <2> QED
    BY <2>5 DEF v
<1>7. ASSUME NEW m \in 0 .. Len(t), Plain(SubSeq(t, 1, m)), m > k
      PROVE  FALSE
  <2> DEFINE v == SubSeq(t, 1, m)
  <2>1. v \in Text /\ Len(v) = m /\ \A i \in 1 .. m : v[i] = t[i]
    BY PartOfText
  <2> HIDE DEF v
  <2>2. DOMAIN v = 1 .. m /\ v # <<>>
    BY <1>0, <1>7, <2>1, TextType
  <2>3. Plain(v)
    BY <1>7 DEF v
  <2>4. v[m] # "blank" /\ \A i \in 1 .. m : v[i] # "hash"
    BY <2>1, <2>2, <2>3 DEF Plain, ToSet, Last
  <2>5. CASE m <= n
    <3>1. m \in k + 1 .. n /\ m \in 1 .. n /\ m \in 1 .. m
      BY <1>0, <1>7, <2>5
    <3>2. u[m] = "blank" /\ u[m] = t[m] /\ v[m] = t[m]
      BY <1>2, <1>3, <2>1, <3>1
    <3> QED
      BY <2>4, <3>2
  <2>6. CASE m > n
    <3>1. n < Len(t) /\ n + 1 \in 1 .. m
      BY <1>0, <2>6
    <3>2. t[n + 1] = "hash" /\ v[n + 1] = t[n + 1]
      BY <1>1, <2>1, <3>1
    <3> QED
      BY <2>4, <3>1, <3>2
  <2> QED
    BY <1>0, <2>5, <2>6
<1> QED
  BY <1>0, <1>4, <1>5, <1>6, <1>7

LEMMA JoinedText ==
  ASSUME NEW s \in Text, NEW t \in Text
  PROVE  /\ s \o t \in Text /\ Len(s \o t) = Len(s) + Len(t)
         /\ \A i \in 1 .. Len(s) + Len(t) :
              (s \o t)[i] = IF i <= Len(s) THEN s[i] ELSE t[i - Len(s)]
BY ConcatProperties DEF Text

LEMMA OneQuote ==
  <<"quote">> \in Text /\ Len(<<"quote">>) = 1 /\ <<"quote">>[1] = "quote"
<1>1. "quote" \in Character
  BY DEF Character
<1> QED
  BY <1>1 DEF Text

LEMMA QuotedText ==
  ASSUME NEW t \in Text
  PROVE  /\ InQuotes(t) \in Text /\ Len(InQuotes(t)) = Len(t) + 2
         /\ InQuotes(t)[1] = "quote" /\ InQuotes(t)[Len(t) + 2] = "quote"
         /\ \A i \in 2 .. Len(t) + 1 : InQuotes(t)[i] = t[i - 1]
<1> DEFINE q == <<"quote">>
           u == q \o t
<1>1. q \in Text /\ Len(q) = 1 /\ q[1] = "quote" /\ Len(t) \in Nat
  BY OneQuote, TextType
<1> HIDE DEF q
<1>2. /\ u \in Text /\ Len(u) = Len(t) + 1
      /\ \A i \in 1 .. Len(t) + 1 : u[i] = IF i <= 1 THEN q[i] ELSE t[i - 1]
  <2>1. /\ u \in Text /\ Len(u) = Len(q) + Len(t)
        /\ \A i \in 1 .. Len(q) + Len(t) :
             u[i] = IF i <= Len(q) THEN q[i] ELSE t[i - Len(q)]
    BY <1>1, JoinedText
  <2>2. Len(q) + Len(t) = Len(t) + 1
    BY <1>1
  <2> QED
    BY <1>1, <2>1, <2>2
<1> HIDE DEF u
<1>3. /\ u \o q \in Text /\ Len(u \o q) = Len(t) + 2
      /\ \A i \in 1 .. Len(t) + 2 :
           (u \o q)[i] = IF i <= Len(t) + 1 THEN u[i] ELSE q[i - (Len(t) + 1)]
  <2>1. /\ u \o q \in Text /\ Len(u \o q) = Len(u) + Len(q)
        /\ \A i \in 1 .. Len(u) + Len(q) :
             (u \o q)[i] = IF i <= Len(u) THEN u[i] ELSE q[i - Len(u)]
    BY <1>1, <1>2, JoinedText
  <2> QED
    BY <1>1, <1>2, <2>1
<1>4. InQuotes(t) = u \o q
  BY DEF InQuotes, u, q
<1>5. (u \o q)[1] = "quote" /\ (u \o q)[Len(t) + 2] = "quote"
  <2>1. 1 \in 1 .. Len(t) + 2 /\ Len(t) + 2 \in 1 .. Len(t) + 2 /\ 1 \in 1 .. Len(t) + 1
    BY <1>1
  <2>2. (u \o q)[1] = u[1] /\ u[1] = q[1]
    BY <1>1, <1>2, <1>3, <2>1
  <2>3. (u \o q)[Len(t) + 2] = q[(Len(t) + 2) - (Len(t) + 1)]
    BY <1>1, <1>3, <2>1
  <2>4. (Len(t) + 2) - (Len(t) + 1) = 1
    BY <1>1
  <2> QED
    BY <1>1, <2>2, <2>3, <2>4
<1>6. \A i \in 2 .. Len(t) + 1 : (u \o q)[i] = t[i - 1]
  <2> SUFFICES ASSUME NEW i \in 2 .. Len(t) + 1
               PROVE  (u \o q)[i] = t[i - 1]
    OBVIOUS
  <2>1. i \in 1 .. Len(t) + 2 /\ i \in 1 .. Len(t) + 1 /\ ~ (i <= 1)
    BY <1>1
  <2> QED
    BY <1>1, <1>2, <1>3, <2>1
<1> QED
  BY <1>3, <1>4, <1>5, <1>6

LEMMA SubSeqsHas ==
  ASSUME NEW t, NEW i \in 0 .. Len(t), NEW j \in 0 .. Len(t), NEW k, i + 1 = k
  PROVE  SubSeq(t, k, j) \in SubSeqs(t)
<1>1. SubSeq(t, i + 1, j) = SubSeq(t, k, j)
  OBVIOUS
<1>2. \E a, b \in 0 .. Len(t) : SubSeq(t, k, j) = SubSeq(t, a + 1, b)
  <2> WITNESS i \in 0 .. Len(t), j \in 0 .. Len(t)
  <2> QED
    BY ONLY <1>1
<1> QED
  BY ONLY <1>2 DEF SubSeqs

\* What is quoted is kept as it is between the quotes.
LEMMA QuotedKept ==
  ASSUME NEW t \in Text
  PROVE  /\ Quoted(t) => t = InQuotes(Stored(t)) /\ Stored(t) \in SubSeqs(t)
         /\ (\E u \in SubSeqs(t) : t = InQuotes(u)) => Quoted(t)
<1>0. Len(t) \in Nat
  BY TextType
<1>1. ASSUME Quoted(t)
      PROVE  t = InQuotes(Stored(t)) /\ Stored(t) \in SubSeqs(t)
  <2> DEFINE u == SubSeq(t, 2, Len(t) - 1)
  <2>1. Len(t) > 1 /\ t[1] = "quote" /\ t[Len(t)] = "quote"
    BY <1>1 DEF Quoted, Last, Text
  <2>2. /\ u \in Text /\ Len(u) = Len(t) - 2
        /\ \A i \in 1 .. Len(t) - 2 : u[i] = t[i + 1]
    <3>1. \A i \in 2 .. Len(t) - 1 : t[i] \in Character
      BY <1>0, ElementOfSeq DEF Text
    <3>2. /\ u \in Text /\ Len(u) = (IF 2 <= Len(t) - 1 THEN (Len(t) - 1) - 2 + 1 ELSE 0)
          /\ \A i \in 1 .. (Len(t) - 1) - 2 + 1 : u[i] = t[2 + i - 1]
      BY <1>0, <3>1, SubSeqProperties DEF Text
    <3> HIDE DEF u
    <3>3. Len(u) = Len(t) - 2
      <4>1. Len(u) = (IF 2 <= Len(t) - 1 THEN (Len(t) - 1) - 2 + 1 ELSE 0)
        BY <3>2
      <4>2. Len(t) > 1
        BY <2>1
      <4>3. CASE Len(t) = 2
        BY <4>1, <4>3
      <4>4. CASE Len(t) > 2
        BY <1>0, <4>1, <4>4
      <4>5. Len(t) = 2 \/ Len(t) > 2
        BY ONLY <1>0, <4>2
      <4> QED
        BY <4>3, <4>4, <4>5
    <3>4. \A i \in 1 .. Len(t) - 2 : u[i] = t[i + 1]
      <4> SUFFICES ASSUME NEW i \in 1 .. Len(t) - 2
                   PROVE  u[i] = t[i + 1]
        OBVIOUS
      <4>1. i \in 1 .. (Len(t) - 1) - 2 + 1 /\ 2 + i - 1 = i + 1
        BY <1>0
      <4> QED
        BY <3>2, <4>1
    <3> QED
      BY <3>2, <3>3, <3>4
  <2>3. Stored(t) = u
    BY <1>1 DEF Stored
  <2>4. u \in SubSeqs(t)
    <3>1. 1 \in 0 .. Len(t) /\ Len(t) - 1 \in 0 .. Len(t) /\ 1 + 1 = 2
      BY <1>0, <2>1
    <3> QED
      BY ONLY <3>1, SubSeqsHas
  <2> HIDE DEF u
  <2>5. /\ InQuotes(u) \in Text /\ Len(InQuotes(u)) = Len(t)
        /\ InQuotes(u)[1] = "quote" /\ InQuotes(u)[Len(t)] = "quote"
        /\ \A i \in 2 .. Len(t) - 1 : InQuotes(u)[i] = u[i - 1]
    <3>1. Len(u) + 2 = Len(t) /\ Len(u) + 1 = Len(t) - 1
      BY <1>0, <2>2
    <3> QED
      BY <2>2, <3>1, QuotedText
  <2>6. \A i \in 1 .. Len(t) : t[i] = InQuotes(u)[i]
    <3> SUFFICES ASSUME NEW i \in 1 .. Len(t)
                 PROVE  t[i] = InQuotes(u)[i]
      OBVIOUS
    <3>1. CASE i = 1 \/ i = Len(t)
      BY <2>1, <2>5, <3>1
    <3>2. CASE i \in 2 .. Len(t) - 1
      <4>1. i - 1 \in 1 .. Len(t) - 2 /\ (i - 1) + 1 = i
        BY <1>0, <3>2
      <4> QED
        BY <2>2, <2>5, <3>2, <4>1
    <3> QED
      BY <1>0, <3>1, <3>2
  <2>7. t = InQuotes(u)
    BY <2>5, <2>6, SeqEqual DEF Text
  <2> QED
    BY <2>3, <2>4, <2>7
<1>2. ASSUME NEW u \in SubSeqs(t), t = InQuotes(u)
      PROVE  Quoted(t)
  <2>1. PICK i \in 0 .. Len(t), j \in 0 .. Len(t) : u = SubSeq(t, i + 1, j)
    BY DEF SubSeqs
  <2>2. u \in Text
    BY <1>0, <2>1 DEF Text
  <2>3. Len(u) \in Nat /\ Len(t) = Len(u) + 2 /\ t[1] = "quote" /\ t[Len(t)] = "quote"
    BY <1>2, <2>2, QuotedText, TextType
  <2> QED
    BY <2>3 DEF Quoted, Last, Text
<1> QED
  BY <1>1, <1>2

LEMMA StoredType ==
  ASSUME NEW t \in Text
  PROVE  Stored(t) \in Text
<1>1. CASE Quoted(t)
  BY <1>1 DEF Quoted, Stored, Text
<1>2. CASE ~ Quoted(t)
  BY <1>2, PlainKept, PartOfText
<1> QED
  BY <1>1, <1>2

-----------------------------------------------------------------------------
(* The lines that are read.                                                *)

LEMMA FileType ==
  ASSUME NEW f \in Files
  PROVE  /\ Len(f) \in Nat /\ DOMAIN f = 1 .. Len(f)
         /\ \A i \in 1 .. Len(f) :
              /\ LineType(f[i])
              /\ f[i].kind = "section" => f[i].section \in Sections
              /\ f[i].kind = "entry" => f[i].rest \in Text
<1>1. Seq(STRING) \subseteq Text
  BY DEF Text, Character
<1> QED
  BY <1>1, ConfAssumption DEF LineType

FileInv == file \in Files

(* However long a value, what is kept of it is what stands between its     *)
(* quotes, or its longest beginning without "#" that does not end with a   *)
(* blank (Conf.cpp:99-114).                                                *)
THEOREM ValuesAreKept == Spec => []ValueKept
<1>1. Init => FileInv
  BY DEF Init, FileInv
<1>2. FileInv /\ [Next]_vars => FileInv'
  BY DEF Next, vars, FileInv
<1>3. FileInv => ValueKept
  <2> SUFFICES ASSUME file \in Files, NEW i \in 1 .. Len(file), file[i].kind = "entry"
               PROVE  LET rest == file[i].rest
                      IN  IF \E t \in SubSeqs(rest) : rest = InQuotes(t)
                            THEN rest = InQuotes(Stored(rest))
                            ELSE /\ Stored(rest) \in Prefixes(rest) /\ Plain(Stored(rest))
                                 /\ \A p \in Prefixes(rest) :
                                      Plain(p) => Len(p) <= Len(Stored(rest))
    BY FileType DEF ValueKept, FileInv
  <2> DEFINE rest == file[i].rest
  <2>1. rest \in Text
    BY FileType
  <2> HIDE DEF rest
  <2>2. CASE Quoted(rest)
    BY <2>1, <2>2, QuotedKept DEF rest
  <2>3. CASE ~ Quoted(rest)
    <3>1. ~ \E t \in SubSeqs(rest) : rest = InQuotes(t)
      BY <2>1, <2>3, QuotedKept
    <3>2. PICK n \in 0 .. Len(rest) :
            /\ Stored(rest) = SubSeq(rest, 1, n)
            /\ Plain(SubSeq(rest, 1, n))
            /\ \A m \in 0 .. Len(rest) : Plain(SubSeq(rest, 1, m)) => m <= n
      BY <2>1, <2>3, PlainKept
    <3>3. Stored(rest) \in Prefixes(rest) /\ Plain(Stored(rest)) /\ Len(Stored(rest)) = n
      BY <2>1, <3>2, PartOfText DEF Prefixes
    <3>4. \A p \in Prefixes(rest) : Plain(p) => Len(p) <= Len(Stored(rest))
      <4> SUFFICES ASSUME NEW m \in 0 .. Len(rest), Plain(SubSeq(rest, 1, m))
                   PROVE  Len(SubSeq(rest, 1, m)) <= Len(Stored(rest))
        BY DEF Prefixes
      <4> QED
        BY <2>1, <3>2, <3>3, PartOfText
    <3> QED
      BY <3>1, <3>3, <3>4 DEF rest
  <2> QED
    BY <2>2, <2>3
<1> QED
  BY <1>1, <1>2, <1>3, PTL DEF Spec

-----------------------------------------------------------------------------
(* The members and their defaults.                                         *)

LEMMA DefaultValues ==
  /\ DOMAIN Default = Members
  /\ Default[<<"MQTT", "Address">>] # <<>> /\ Default[<<"MQTT", "Name">>] # <<>>
  /\ Default[<<"MQTT", "Port">>] = 1883 /\ Default[<<"MQTT", "Keepalive">>] = 60
<1>1. DOMAIN Default = Members
  BY DEF Default
<1>2. Default[<<"MQTT", "Address">>] # <<>> /\ Default[<<"MQTT", "Name">>] # <<>>
  BY DEF Default, Members, Texts, Flags, Numbers, Ports
<1>3. Default[<<"MQTT", "Port">>] = 1883 /\ Default[<<"MQTT", "Keepalive">>] = 60
  BY DEF Default, Members, Texts, Flags, Numbers, Ports
<1> QED
  BY <1>1, <1>2, <1>3

\* The section behind one more line.
LEMMA SectionStep ==
  ASSUME NEW n \in Nat
  PROVE  SectionOf(n + 1) = IF file[n + 1].kind = "section" THEN file[n + 1].section
                                                           ELSE SectionOf(n)
<1> DEFINE Heads(k) == {j \in 1 .. k : file[j].kind = "section"}
<1>1. CASE file[n + 1].kind = "section"
  <2>1. Heads(n + 1) = Heads(n) \cup {n + 1} /\ Heads(n + 1) # {} /\ Heads(n) \subseteq 0 .. n
    BY <1>1
  <2>2. Max(Heads(n + 1)) = n + 1
    <3> HIDE DEF Heads
    <3> QED
      BY <2>1, NewLargest
  <2> QED
    BY <1>1, <2>1, <2>2 DEF SectionOf
<1>2. CASE file[n + 1].kind # "section"
  <2>1. Heads(n + 1) = Heads(n)
    BY <1>2
  <2> QED
    BY <1>2, <2>1 DEF SectionOf
<1> QED
  BY <1>1, <1>2

LEMMA SectionKept ==
  ASSUME file' = file
  PROVE  \A i : SectionOf(i)' = SectionOf(i)
BY DEF SectionOf

\* A line is one of those that give a member its value.
Gives(i, m) ==
  /\ file[i].kind = "entry"
  /\ <<SectionOf(i), file[i].key>> = m
  /\ file[i].rest # <<>>

LEMMA GivenStep ==
  ASSUME NEW m, lines \in Nat, lines' = lines + 1, file' = file
  PROVE  /\ Gives(lines + 1, m) => Given(m)' = Given(m) \cup {lines + 1}
         /\ ~ Gives(lines + 1, m) => Given(m)' = Given(m)
<1>1. Given(m)' = {i \in 1 .. lines + 1 : Gives(i, m)}
  BY SectionKept DEF Given, Gives
<1>2. Given(m) = {i \in 1 .. lines : Gives(i, m)}
  BY DEF Given, Gives
<1> QED
  BY <1>1, <1>2

LEMMA NoLine ==
  ASSUME lines' = lines, file' = file
  PROVE  SectionOf(lines)' = SectionOf(lines) /\ \A m : Given(m)' = Given(m)
<1>1. SectionOf(lines)' = SectionOf(lines)
  BY DEF SectionOf
<1>2. \A m : Given(m)' = {i \in 1 .. lines : Gives(i, m)}
  BY SectionKept DEF Given, Gives
<1>3. \A m : Given(m) = {i \in 1 .. lines : Gives(i, m)}
  BY DEF Given, Gives
<1> QED
  BY <1>1, <1>2, <1>3

LEMMA GivenType ==
  ASSUME NEW m, lines \in Nat
  PROVE  Given(m) \subseteq 0 .. lines /\ Given(m) \subseteq 1 .. lines
BY DEF Given

-----------------------------------------------------------------------------
(* What the members hold.                                                  *)

LEMMA TypeInit == Init => TypeOK /\ LastWins
<1> SUFFICES ASSUME Init
             PROVE  TypeOK /\ LastWins
  OBVIOUS
<1>1. section = SectionOf(lines) /\ \A m \in Members : Given(m) = {}
  BY DEF Init, SectionOf, Given
<1>2. file \in Files /\ lines \in 0 .. Len(file) /\ section \in Sections
  BY FileType DEF Init, Sections
<1> QED
  BY <1>1, <1>2, DefaultValues DEF Init, TypeOK, LastWins

LEMMA LineStep ==
  ASSUME TypeOK, LastWins, Line, file' = file
  PROVE  TypeOK' /\ LastWins'
<1> DEFINE l == file[lines + 1]
<1>0. /\ file \in Files /\ lines \in Nat /\ lines + 1 \in 1 .. Len(file)
      /\ lines' = lines + 1 /\ state' = state /\ DOMAIN member = Members
      /\ section = SectionOf(lines) /\ section \in Sections
      /\ Comment(l) \/ SectionHead(l) \/ Entry(l)
  BY FileType DEF Line, TypeOK
<1>1. /\ LineType(l)
      /\ section' = (IF l.kind = "section" THEN l.section ELSE section)
  BY <1>0, FileType DEF Comment, SectionHead, Entry
<1>2. section' = SectionOf(lines)'
  <2>1. SectionOf(lines)' = SectionOf(lines + 1)
    BY <1>0 DEF SectionOf
  <2> QED
    BY <1>0, <1>1, <2>1, SectionStep
<1>3. section' \in Sections
  BY <1>0, <1>1, FileType
<1> HIDE DEF l
<1>4. TypeOK' /\ \A m \in Members : 
        member'[m] = IF Gives(lines + 1, m) THEN Convert(m, Stored(l.rest)) ELSE member[m]
  <2>1. CASE l.kind # "entry"
    <3>1. member' = member
      BY <1>0, <2>1 DEF Comment, SectionHead, Entry
    <3>2. \A m \in Members : ~ Gives(lines + 1, m)
      BY <2>1 DEF Gives, l
    <3> QED
      BY <1>0, <1>2, <1>3, <3>1, <3>2, FileType DEF TypeOK
  <2>2. CASE l.kind = "entry"
    <3>1. Entry(l)
      BY <1>0, <2>2 DEF Comment, SectionHead
    <3>2. SectionOf(lines + 1) = section
      BY <1>0, <2>2, SectionStep DEF l
    <3>3. \A m : Gives(lines + 1, m) <=> l.rest # <<>> /\ m = <<section, l.key>>
      BY <2>2, <3>2 DEF Gives, l
    <3>4. member' = (IF l.rest # <<>> /\ <<section, l.key>> \in Members
                       THEN [member EXCEPT ![<<section, l.key>>] =
                               Convert(<<section, l.key>>, Stored(l.rest))]
                       ELSE member)
      BY <3>1 DEF Entry
    <3>5. \A m \in Members :
            member'[m] = IF Gives(lines + 1, m) THEN Convert(m, Stored(l.rest)) ELSE member[m]
      BY <1>0, <3>3, <3>4
    <3>6. DOMAIN member' = Members
      BY <1>0, <3>4
    <3>7. lines' \in 0 .. Len(file')
      BY <1>0, FileType
    <3>8. TypeOK'
      BY <1>0, <1>2, <1>3, <3>6, <3>7 DEF TypeOK
    <3> QED
      BY <3>5, <3>8
  <2> QED
    BY <2>1, <2>2
<1>5. ASSUME NEW m \in Members
      PROVE  member'[m] = IF Given(m)' = {} THEN Default[m]
                          ELSE Convert(m, Stored(file[Max(Given(m)')].rest))
  <2>1. CASE Gives(lines + 1, m)
    <3>1. Given(m)' = Given(m) \cup {lines + 1}
      BY <1>0, <2>1, GivenStep
    <3>2. Max(Given(m)') = lines + 1
      BY <1>0, <3>1, GivenType, NewLargest
    <3> QED
      BY <1>4, <2>1, <3>1, <3>2 DEF l
  <2>2. CASE ~ Gives(lines + 1, m)
    <3>1. Given(m)' = Given(m)
      BY <1>0, <2>2, GivenStep
    <3> QED
      BY <1>4, <2>2, <3>1 DEF LastWins
  <2> QED
    BY <2>1, <2>2
<1> QED
  BY <1>4, <1>5 DEF LastWins

LEMMA MembersStep == TypeOK /\ LastWins /\ [Next]_vars => (TypeOK /\ LastWins)'
<1> SUFFICES ASSUME TypeOK, LastWins, [Next]_vars
             PROVE  TypeOK' /\ LastWins'
  OBVIOUS
<1>1. CASE Line /\ UNCHANGED file
  BY <1>1, LineStep
<1>2. CASE (Open \/ Construct \/ Login) /\ UNCHANGED file
  <2>1. /\ UNCHANGED <<section, member, file, lines>>
        /\ state' \in {"reading", "unread", "aborted", "started", "loggedIn", "overrun"}
    BY <1>2 DEF Open, Construct, Login
  <2> QED
    BY <2>1, NoLine DEF TypeOK, LastWins
<1>3. CASE UNCHANGED vars
  BY <1>3, NoLine DEF vars, TypeOK, LastWins
<1> QED
  BY <1>1, <1>2, <1>3 DEF Next

(* For files of any length, read() keeps to the types of the model, and is *)
(* in the section whose head it has read last (Conf.cpp:76-89).            *)
THEOREM ConfTypes == Spec => []TypeOK
BY TypeInit, MembersStep, PTL DEF Spec

(* For files of any length, with sections and keys in any order, each      *)
(* member has the value of the last entry that gives it one, or else its   *)
(* default (Conf.cpp:37-56, 76-89, 116-154).                               *)
THEOREM LastEntryWins == Spec => []LastWins
BY TypeInit, MembersStep, PTL DEF Spec

-----------------------------------------------------------------------------
(* What ends the program.                                                  *)

LEMMA UpperType ==
  ASSUME NEW t \in Text
  PROVE  Upper(t) \in Text /\ Len(Upper(t)) = Len(t)
<1>1. Len(t) \in Nat /\ DOMAIN t = 1 .. Len(t) /\ "C" \in Character
  BY TextType DEF Character
<1>2. \A i \in 1 .. Len(t) : t[i] \in Character
  BY ElementOfSeq DEF Text
<1>3. Upper(t) \in [1 .. Len(t) -> Character]
  BY <1>1, <1>2 DEF Upper
<1>4. Upper(t) \in Text
  BY <1>1, <1>3, SeqDef DEF Text
<1>5. DOMAIN Upper(t) = 1 .. Len(Upper(t)) /\ Len(Upper(t)) \in Nat
  BY <1>4, TextType
<1> QED
  BY <1>1, <1>3, <1>4, <1>5

LEMMA EmptyUpper ==
  ASSUME NEW t \in Text, Upper(t) = <<>>
  PROVE  t = <<>>
BY UpperType, EmptySeq DEF Text

LEMMA LastTextType ==
  ASSUME TypeOK, NEW m \in Members, Given(m) # {}
  PROVE  LastText(m) \in Text
<1>1. file \in Files /\ lines \in Nat /\ lines <= Len(file)
  BY FileType DEF TypeOK
<1>2. Max(Given(m)) \in Given(m)
  BY <1>1, GivenType, LargestNumber
<1>3. Max(Given(m)) \in 1 .. Len(file) /\ file[Max(Given(m))].kind = "entry"
  BY <1>1, <1>2, GivenType, FileType DEF Given
<1> QED
  BY <1>1, <1>3, FileType, StoredType DEF LastText

\* What the constructors refuse, by what the file has given.
LEMMA RefusedExplained ==
  ASSUME TypeOK, LastWins, Refused
  PROVE  \/ \E m \in Needed : Given(m) = {}
         \/ \E m \in Members : Given(m) # {} /\ NoUse(m)
<1>0. \A m \in Members : member[m] = IF Given(m) = {} THEN Default[m]
                                     ELSE Convert(m, LastText(m))
  BY DEF LastWins, LastText
<1>1. ASSUME NEW m \in {<<"General", "Callsign">>, <<"APRS-IS", "Password">>,
                        <<"APRS-IS", "Server">>, <<"MQTT", "Address">>,
                        <<"MQTT", "Name">>},
             member[m] = <<>>
      PROVE  \/ m \in Needed /\ Given(m) = {}
             \/ Given(m) # {} /\ LastText(m) = <<>>
  <2>1. m \in Texts /\ m \in Members
    BY DEF Members, Texts
  <2>2. CASE Given(m) = {}
    <3>1. m # <<"MQTT", "Address">> /\ m # <<"MQTT", "Name">>
      BY <1>0, <1>1, <2>1, <2>2, DefaultValues
    <3> QED
      BY <2>2, <3>1 DEF Needed
  <2>3. CASE Given(m) # {}
    <3>1. member[m] = Convert(m, LastText(m)) /\ LastText(m) \in Text
      BY <1>0, <2>1, <2>3, LastTextType
    <3>2. Convert(m, LastText(m)) = IF m = <<"General", "Callsign">>
                                      THEN Upper(LastText(m)) ELSE LastText(m)
      BY DEF Convert, Texts, Flags, Numbers, Ports
    <3> QED
      BY <1>1, <2>3, <3>1, <3>2, EmptyUpper
  <2> QED
    BY <2>2, <2>3
<1>2. ASSUME NEW m \in Ports, member[m] = 0
      PROVE  \/ m \in Needed /\ Given(m) = {}
             \/ Given(m) # {} /\ Unsigned(Atoi(LastText(m)), 16) = 0
  <2>1. m \in Members /\ (m = <<"APRS-IS", "Port">> \/ m = <<"MQTT", "Port">>)
    BY DEF Members, Ports
  <2>2. CASE Given(m) = {}
    <3>1. m # <<"MQTT", "Port">>
      BY <1>0, <1>2, <2>1, <2>2, DefaultValues
    <3> QED
      BY <2>1, <2>2, <3>1 DEF Needed
  <2>3. CASE Given(m) # {}
    <3>1. Convert(m, LastText(m)) = Unsigned(Atoi(LastText(m)), 16)
      BY <2>1 DEF Convert, Texts, Flags, Numbers, Ports
    <3> QED
      BY <1>0, <1>2, <2>1, <2>3, <3>1
  <2> QED
    BY <2>2, <2>3
<1>3. ASSUME NEW m, m = <<"MQTT", "Keepalive">>, member[m] < 5
      PROVE  Given(m) # {} /\ Unsigned(Atoi(LastText(m)), IntWidth) < 5
  <2>1. m \in Members
    BY <1>3 DEF Members, Numbers
  <2>2. Given(m) # {}
    BY <1>0, <1>3, <2>1, DefaultValues
  <2>3. Convert(m, LastText(m)) = Unsigned(Atoi(LastText(m)), IntWidth)
    BY <1>3 DEF Convert, Texts, Flags, Numbers, Ports
  <2> QED
    BY <1>0, <1>3, <2>1, <2>2, <2>3
<1>4. CASE \E m \in {<<"General", "Callsign">>, <<"APRS-IS", "Password">>,
                     <<"APRS-IS", "Server">>, <<"MQTT", "Address">>,
                     <<"MQTT", "Name">>} : member[m] = <<>>
  <2>1. {<<"General", "Callsign">>, <<"APRS-IS", "Password">>, <<"APRS-IS", "Server">>,
         <<"MQTT", "Address">>, <<"MQTT", "Name">>} \subseteq Texts \cap Members
    BY DEF Members, Texts
  <2> QED
    BY <1>1, <1>4, <2>1 DEF NoUse
<1>5. CASE \E m \in Ports : member[m] = 0
  BY <1>2, <1>5 DEF Members, NoUse
<1>6. CASE member[<<"MQTT", "Keepalive">>] < 5
  <2>1. <<"MQTT", "Keepalive">> \in Members
    BY DEF Members, Numbers
  <2> QED
    BY <1>3, <1>6, <2>1 DEF NoUse
<1> QED
  BY <1>4, <1>5, <1>6 DEF Refused

\* What the login line holds of callsign and password.
LEMMA LoginLine ==
  ASSUME TypeOK, LastWins
  PROVE  LET p == <<"APRS-IS", "Password">>
         IN  /\ Len(Username) \in Nat /\ Len(Username) <= CallsignLength
             /\ member[p] = IF Given(p) = {} THEN <<>> ELSE LastText(p)
             /\ Len(member[p]) \in Nat
<1> DEFINE c == <<"General", "Callsign">>
           p == <<"APRS-IS", "Password">>
           u == SubSeq(member[c], 1, Min({Len(member[c]), CallsignLength}))
<1>0. c \in Members /\ p \in Members
  BY DEF Members, Texts
<1>1. \A m \in Members : member[m] = IF Given(m) = {} THEN Default[m]
                                     ELSE Convert(m, LastText(m))
  BY DEF LastWins, LastText
<1>2. Default[c] = <<>> /\ Default[p] = <<>>
  <2>1. \A m \in Texts \ Flags : Nothing(m) = <<>>
    BY DEF Nothing
  <2>2. c \in Texts \ Flags /\ p \in Texts \ Flags
    BY DEF Texts, Flags
  <2>3. Default[c] = Nothing(c) /\ Default[p] = Nothing(p)
    <3>1. \A m \in Members : m \notin {<<"MQTT", "Address">>, <<"MQTT", "Name">>,
                                       <<"MQTT", "Port">>, <<"MQTT", "Keepalive">>}
                              => Default[m] = Nothing(m)
      BY DEF Default
    <3> QED
      BY <1>0, <3>1
  <2> HIDE DEF c, p
  <2> QED
    BY <2>1, <2>2, <2>3
<1>3. \A s : Convert(c, s) = Upper(s) /\ Convert(p, s) = s
  BY DEF Convert, Texts, Flags, Numbers, Ports
<1>4. <<>> \in Text
  BY DEF Text
<1>5. member[c] \in Text
  BY <1>0, <1>1, <1>2, <1>3, <1>4, LastTextType, UpperType
<1>6. /\ member[p] = IF Given(p) = {} THEN <<>> ELSE LastText(p)
      /\ Len(member[p]) \in Nat
  <2>1. member[p] \in Text
    BY <1>0, <1>1, <1>2, <1>3, <1>4, LastTextType
  <2> QED
    BY <1>0, <1>1, <1>2, <1>3, <2>1, TextType
<1>7. Min({Len(member[c]), CallsignLength}) \in 0 .. Len(member[c])
      /\ Min({Len(member[c]), CallsignLength}) <= CallsignLength
  <2> DEFINE S == {Len(member[c]), CallsignLength}
  <2>1. S \subseteq Nat /\ S # {}
    BY <1>5, TextType, WidthAssumption
  <2>2. Min(S) \in S /\ Min(S) <= Len(member[c]) /\ Min(S) <= CallsignLength
    <3>1. Min(S) \in S /\ \A y \in S : Min(S) <= y
      BY ONLY <2>1, LeastNumber
    <3> QED
      BY <3>1
  <2> HIDE DEF c
  <2> QED
    BY <2>1, <2>2
<1>8. u \in Text /\ Len(u) <= CallsignLength /\ Len(u) \in Nat
  BY <1>5, <1>7, PartOfText
<1> HIDE DEF u
<1>9. PICK k \in 0 .. Len(u) : WithoutTrailing(u) = SubSeq(u, 1, k)
  BY <1>8, TrailingCut
<1>10. Len(WithoutTrailing(u)) = k
  BY <1>8, <1>9, PartOfText
<1>11. Username = WithoutTrailing(u)
  BY DEF Username, u
<1>12. Len(Username) \in Nat /\ Len(Username) <= CallsignLength
  BY <1>8, <1>10, <1>11, WidthAssumption
<1> QED
  BY <1>6, <1>12

Overruns ==
  Len(Username) + Len(member[<<"APRS-IS", "Password">>]) > LoginRoom

AbortInv ==
  /\ state = "aborted" => Refused
  /\ state \in {"started", "overrun"} => ~Refused
  /\ state = "overrun" => Overruns

LEMMA AbortStep == AbortInv /\ [Next]_vars => AbortInv'
<1> SUFFICES ASSUME AbortInv, [Next]_vars
             PROVE  AbortInv'
  OBVIOUS
<1>1. ASSUME UNCHANGED member
      PROVE  (Refused' <=> Refused) /\ (Overruns' <=> Overruns)
  BY <1>1 DEF Refused, Overruns, Username
<1>2. CASE Open \/ Line
  BY <1>2 DEF AbortInv, Open, Line
<1>3. CASE Construct
  BY <1>1, <1>3 DEF AbortInv, Construct
<1>4. CASE Login
  <2>1. state = "started" /\ UNCHANGED member
        /\ state' = IF Overruns THEN "overrun" ELSE "loggedIn"
    BY <1>4 DEF Login, Overruns
  <2> QED
    BY <1>1, <2>1 DEF AbortInv
<1>5. CASE UNCHANGED vars
  BY <1>1, <1>5 DEF AbortInv, vars
<1> QED
  BY <1>2, <1>3, <1>4, <1>5 DEF Next

(* Whatever the file and the widths of int and long, the constructors      *)
(* refuse one that could be read only for the lack of one of four entries  *)
(* or for a value that is no use, and the login line is too long only for  *)
(* a password that with a full callsign is (Conf.cpp:37-56, 123-145,       *)
(* APRSWriterThread.cpp:50-56, 220-221, TCPSocket.cpp:39-40,               *)
(* MQTTConnection.cpp:44-47).                                              *)
THEOREM AbortsAreExplained == Spec => []AbortExplained
<1>1. Init => AbortInv
  BY DEF Init, AbortInv
<1>2. TypeOK /\ LastWins /\ AbortInv => AbortExplained
  <2> SUFFICES ASSUME TypeOK, LastWins, AbortInv
               PROVE  AbortExplained
    OBVIOUS
  <2>1. ASSUME state = "aborted"
        PROVE  \/ \E m \in Needed : Given(m) = {}
               \/ \E m \in Members : Given(m) # {} /\ NoUse(m)
    BY <2>1, RefusedExplained DEF AbortInv
  <2>2. ASSUME state = "overrun"
        PROVE  LET p == <<"APRS-IS", "Password">>
               IN  Given(p) # {} /\ Len(LastText(p)) + CallsignLength > LoginRoom
    <3> DEFINE p == <<"APRS-IS", "Password">>
    <3>1. ~Refused /\ Len(Username) + Len(member[p]) > LoginRoom
      BY <2>2 DEF AbortInv, Overruns
    <3>2. member[p] # <<>>
      BY <3>1 DEF Refused
    <3>3. /\ Len(Username) \in Nat /\ Len(Username) <= CallsignLength
          /\ member[p] = IF Given(p) = {} THEN <<>> ELSE LastText(p)
          /\ Len(member[p]) \in Nat
      BY LoginLine
    <3> HIDE DEF p
    <3>4. Given(p) # {} /\ member[p] = LastText(p)
      BY <3>2, <3>3
    <3>5. Len(member[p]) + CallsignLength > LoginRoom
      BY <3>1, <3>3, WidthAssumption
    <3> QED
      BY <3>4, <3>5 DEF p
  <2> QED
    BY <2>1, <2>2 DEF AbortExplained
<1> QED
  BY <1>1, <1>2, AbortStep, ConfTypes, LastEntryWins, PTL DEF Spec

=============================================================================
