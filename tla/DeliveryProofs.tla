--------------------------- MODULE DeliveryProofs ---------------------------
(***************************************************************************)
(* Proofs about the way of the messages to the server, for every size of   *)
(* the login line and of a frame and for any number of messages, bytes and *)
(* connections.                                                            *)
(***************************************************************************)
EXTENDS Delivery, SequenceTheorems, FiniteSetTheorems, WellFoundedInduction, TLAPS

-----------------------------------------------------------------------------
(* Induction.  A set of numbers has a least one, which is what induction   *)
(* over the length of a sequence comes down to.                            *)

LEMMA OrderOfNumbers ==
  \E R : IsWellFoundedOn(R, Nat) /\ \A x, y \in Nat : x < y => <<x, y>> \in R
<1>1. IsWellFoundedOn(OpToRel(<, Nat), Nat)
  BY NatLessThanWellFounded
<1>2. \A x, y \in Nat : x < y => <<x, y>> \in OpToRel(<, Nat)
  BY DEF OpToRel
<1> QED
  BY <1>1, <1>2

LEMMA LeastNumber ==
  ASSUME NEW T, T \subseteq Nat, T # {}
  PROVE  \E x \in T : \A y \in T : x <= y
<1>1. PICK R : IsWellFoundedOn(R, Nat) /\ \A x, y \in Nat : x < y => <<x, y>> \in R
  BY OrderOfNumbers
<1>2. IsWellFoundedOn(R, Nat)
  BY <1>1
<1>3. \E x \in T : \A y \in T : ~ (<<y, x>> \in R)
  BY ONLY <1>2, T \subseteq Nat, T # {}, WFMin
<1>4. PICK x \in T : \A y \in T : ~ (<<y, x>> \in R)
  BY <1>3
<1>5. ASSUME NEW y \in T
      PROVE  x <= y
  <2>1. x \in Nat /\ y \in Nat
    OBVIOUS
  <2>2. ~ (y < x)
    BY <1>1, <1>4, <2>1
  <2> QED
    BY <2>1, <2>2
<1> QED
  BY <1>5

\* A set that has 0, and n + 1 with every n, has all numbers.
LEMMA AllNumbers ==
  ASSUME NEW S, 0 \in S, \A n \in Nat : n \in S => n + 1 \in S
  PROVE  \A n \in Nat : n \in S
<1> DEFINE T == {n \in Nat : n \notin S}
<1>1. CASE T = {}
  BY <1>1
<1>2. CASE T # {}
  <2>1. PICK x \in T : \A y \in T : x <= y
    <3> T \subseteq Nat
      OBVIOUS
    <3> HIDE DEF T
    <3> QED
      BY <1>2, LeastNumber
  <2>2. x # 0 /\ x \in Nat /\ x \notin S
    OBVIOUS
  <2>3. x - 1 \in Nat /\ x - 1 \notin T
    BY <2>1, <2>2
  <2>4. x - 1 \in S
    BY <2>3
  <2>5. (x - 1) + 1 \in S
    BY <2>3, <2>4
  <2> QED
    BY <2>2, <2>5
<1> QED
  BY <1>1, <1>2

-----------------------------------------------------------------------------
(* FlattenSeq, by its equation.                                            *)

Flattens(f, s, n) ==
  f = [i \in 1 .. n |-> IF i = 1 THEN s[i] ELSE f[i - 1] \o s[i]]

LEMMA FlattensExists ==
  ASSUME NEW s
  PROVE  \A n \in Nat : \E f : Flattens(f, s, n)
<1> DEFINE S == {n \in Nat : \E f : Flattens(f, s, n)}
<1>1. 0 \in S
  <2>1. Flattens([i \in {} |-> 0], s, 0)
    BY DEF Flattens
  <2> QED
    BY <2>1
<1>2. ASSUME NEW n \in Nat, n \in S
      PROVE  n + 1 \in S
  <2>1. PICK f : Flattens(f, s, n)
    BY <1>2
  <2> DEFINE g == [i \in 1 .. n + 1 |-> IF i = 1 THEN s[i] ELSE f[i - 1] \o s[i]]
  <2>2. ASSUME NEW i \in 1 .. n
        PROVE  g[i] = f[i]
    <3>1. f[i] = IF i = 1 THEN s[i] ELSE f[i - 1] \o s[i]
      BY <2>1 DEF Flattens
    <3>2. i \in 1 .. n + 1
      OBVIOUS
    <3> QED
      BY <3>1, <3>2
  <2>3. \A i \in 1 .. n + 1 : i # 1 => i - 1 \in 1 .. n
    OBVIOUS
  <2>4. Flattens(g, s, n + 1)
    <3> \A i \in 1 .. n + 1 : i # 1 => g[i - 1] = f[i - 1]
      BY <2>2, <2>3
    <3> QED
      BY DEF Flattens
  <2> HIDE DEF g
  <2> QED
    BY <2>4
<1> HIDE DEF S
<1>3. \A n \in Nat : n \in S
  BY <1>1, <1>2, AllNumbers
<1> QED
  BY <1>3 DEF S

LEMMA FlattenDef ==
  ASSUME NEW s, Len(s) \in Nat \ {0}
  PROVE  \E f : Flattens(f, s, Len(s)) /\ FlattenSeq(s) = f[Len(s)]
<1> DEFINE F == CHOOSE f : Flattens(f, s, Len(s))
<1>1. Flattens(F, s, Len(s))
  BY FlattensExists
<1>2. FlattenSeq(s) = F[Len(s)]
  BY DEF FlattenSeq, Flattens
<1> QED
  BY <1>1, <1>2

\* Two sequences with the same beginning are flattened in the same way there.
LEMMA FlattensUnique ==
  ASSUME NEW s, NEW t, NEW f, NEW g, NEW n \in Nat, NEW m \in Nat, n <= m,
         Flattens(f, s, n), Flattens(g, t, m), \A i \in 1 .. n : s[i] = t[i]
  PROVE  \A i \in 1 .. n : f[i] = g[i]
<1> DEFINE S == {i \in Nat : i \in 1 .. n => f[i] = g[i]}
<1>1. 0 \in S
  OBVIOUS
<1>2. ASSUME NEW i \in Nat, i \in S
      PROVE  i + 1 \in S
  <2>1. SUFFICES ASSUME i + 1 \in 1 .. n
                 PROVE  f[i + 1] = g[i + 1]
    OBVIOUS
  <2>2. i + 1 \in 1 .. m
    BY <2>1
  <2>3. f[i + 1] = IF i + 1 = 1 THEN s[i + 1] ELSE f[(i + 1) - 1] \o s[i + 1]
    BY <2>1 DEF Flattens
  <2>4. g[i + 1] = IF i + 1 = 1 THEN t[i + 1] ELSE g[(i + 1) - 1] \o t[i + 1]
    BY <2>2 DEF Flattens
  <2>5. i + 1 # 1 => f[(i + 1) - 1] = g[(i + 1) - 1]
    <3> SUFFICES ASSUME i # 0
                 PROVE  f[i] = g[i]
      OBVIOUS
    <3>1. i \in 1 .. n
      BY <2>1
    <3> QED
      BY <1>2, <3>1
  <2> QED
    BY <2>1, <2>3, <2>4, <2>5
<1> HIDE DEF S
<1>3. \A i \in Nat : i \in S
  BY <1>1, <1>2, AllNumbers
<1> QED
  BY <1>3 DEF S

\* What a sequence of sequences is flattened to is a sequence.
LEMMA FlattenType ==
  ASSUME NEW X, NEW s \in Seq(Seq(X))
  PROVE  FlattenSeq(s) \in Seq(X)
<1>1. CASE s = <<>>
  BY <1>1 DEF FlattenSeq
<1>2. CASE s # <<>>
  <2>0. Len(s) \in Nat \ {0}
    BY <1>2
  <2>1. PICK f : Flattens(f, s, Len(s)) /\ FlattenSeq(s) = f[Len(s)]
    BY <2>0, FlattenDef
  <2> DEFINE S == {i \in Nat : i \in 1 .. Len(s) => f[i] \in Seq(X)}
  <2>2. 0 \in S
    OBVIOUS
  <2>3. ASSUME NEW i \in Nat, i \in S
        PROVE  i + 1 \in S
    <3>1. SUFFICES ASSUME i + 1 \in 1 .. Len(s)
                   PROVE  f[i + 1] \in Seq(X)
      OBVIOUS
    <3>2. f[i + 1] = IF i + 1 = 1 THEN s[i + 1] ELSE f[(i + 1) - 1] \o s[i + 1]
      BY <2>1, <3>1 DEF Flattens
    <3>3. s[i + 1] \in Seq(X)
      BY <3>1
    <3>4. CASE i = 0
      BY <3>2, <3>3, <3>4
    <3>5. CASE i # 0
      <4>1. i \in 1 .. Len(s) /\ (i + 1) - 1 = i /\ i + 1 # 1
        BY <3>1, <3>5
      <4>2. f[i] \in Seq(X)
        BY <2>3, <4>1
      <4>3. f[i + 1] = f[i] \o s[i + 1]
        BY <3>2, <4>1
      <4> QED
        BY <3>3, <4>2, <4>3
    <3> QED
      BY <3>4, <3>5
  <2> HIDE DEF S
  <2>4. \A i \in Nat : i \in S
    BY <2>2, <2>3, AllNumbers
  <2>5. Len(s) \in S
    BY <2>4
  <2> QED
    BY <2>0, <2>1, <2>5 DEF S
<1> QED
  BY <1>1, <1>2

LEMMA FlattenEmpty == FlattenSeq(<<>>) = <<>>
BY DEF FlattenSeq

LEMMA FlattenAppend ==
  ASSUME NEW X, NEW s \in Seq(Seq(X)), NEW e \in Seq(X)
  PROVE  FlattenSeq(Append(s, e)) = FlattenSeq(s) \o e
<1> DEFINE t == Append(s, e)
           n == Len(s)
<1>1. /\ Len(t) = n + 1 /\ n \in Nat /\ n + 1 \in Nat \ {0}
      /\ t[n + 1] = e
      /\ \A i \in 1 .. n : s[i] = t[i]
  OBVIOUS
<1> HIDE DEF t
<1>2. PICK g : Flattens(g, t, n + 1) /\ FlattenSeq(t) = g[n + 1]
  BY <1>1, FlattenDef
<1>3. g[n + 1] = IF n + 1 = 1 THEN t[n + 1] ELSE g[(n + 1) - 1] \o t[n + 1]
  <2>1. n + 1 \in 1 .. n + 1
    BY <1>1
  <2> HIDE DEF n
  <2> QED
    BY <1>2, <2>1 DEF Flattens
<1>4. CASE n = 0
  <2>1. s = <<>>
    BY <1>4
  <2>2. FlattenSeq(s) = <<>>
    BY <2>1, FlattenEmpty
  <2> QED
    BY <1>1, <1>2, <1>3, <1>4, <2>2 DEF t
<1>5. CASE n # 0
  <2>1. n \in Nat \ {0} /\ n \in 1 .. n /\ n + 1 # 1 /\ (n + 1) - 1 = n
    BY <1>1, <1>5
  <2>2. PICK f : Flattens(f, s, n) /\ FlattenSeq(s) = f[n]
    BY <2>1, FlattenDef
  <2>3. f[n] = g[n]
    <3>1. n \in Nat /\ n + 1 \in Nat /\ n <= n + 1
      BY <1>1
    <3> HIDE DEF n
    <3>2. \A i \in 1 .. n : f[i] = g[i]
      <4>1. Flattens(g, t, n + 1)
        BY <1>2
      <4>2. Flattens(f, s, n)
        BY <2>2
      <4>3. \A i \in 1 .. n : s[i] = t[i]
        BY <1>1
      <4> QED
        BY ONLY <3>1, <4>1, <4>2, <4>3, FlattensUnique
    <3> QED
      BY <2>1, <3>2
  <2>4. g[n + 1] = g[n] \o t[n + 1]
    BY <1>3, <2>1
  <2> QED
    BY <1>1, <1>2, <2>2, <2>3, <2>4 DEF t
<1> QED
  BY <1>4, <1>5

-----------------------------------------------------------------------------
(* Types.  What the connection, the two directions and the server hold.    *)

LinkType ==
  /\ fd \in BOOLEAN /\ (fd <=> pc # "closed")
  /\ pc \in {"closed", "connecting", "banner", "login", "response", "round",
             "reading"}
  /\ server \in {"none", "up", "done"} /\ conns \in 0 .. MaxConns
  /\ server # "none" => pc \notin {"closed", "connecting"}
Pieces == Seq([returned : BOOLEAN, bytes : Seq(Byte)])
InType == line \in Seq(Byte) /\ inbox \in Seq(Byte) /\ got \in Seq(Byte) /\ pieces \in Pieces
Unit == (0 .. MaxFrames) \X Nat
OutType == written \in 0 .. LoginSize /\ stream \in Seq(Unit) /\ frames \in 0 .. MaxFrames

LEMMA TypeParts == TypeOK <=> LinkType /\ InType /\ OutType
BY DEF TypeOK, LinkType, InType, OutType, Pieces, Unit

LEMMA FrameType ==
  /\ Login \in Seq(Unit) /\ Len(Login) = LoginSize
  /\ \A k \in 0 .. MaxFrames : Frame(k) \in Seq(Unit) /\ Len(Frame(k)) = FrameSize
BY SizesAssumption DEF Login, Frame, Unit

\* The steps that read, write, or belong to the server, and what each of them
\* leaves alone.
Connecting == Open \/ Connect \/ ConnectFails
Receiving == ReadByte \/ ReadTimeout \/ ReadEnd \/ ReadFails
Writing ==
  LoginByte \/ LoginDone \/ LoginFails \/ SendFrame \/ NoFrame \/ FrameFails

LEMMA NextParts == Next <=> Connecting \/ Receiving \/ Writing \/ Server
BY DEF Next, Progress, Failure, Connecting, Receiving, Writing

LEMMA LinkTypeStep == LinkType /\ [Next]_vars => LinkType'
<1> SUFFICES ASSUME LinkType, [Next]_vars
             PROVE  LinkType'
  OBVIOUS
<1>1. CASE Connecting
  <2>1. CASE Open
    BY <2>1 DEF LinkType, Open
  <2>2. CASE Connect
    BY <2>2, SizesAssumption DEF LinkType, Connect
  <2>3. CASE ConnectFails
    BY <2>3 DEF LinkType, ConnectFails, Close
  <2> QED
    BY <1>1, <2>1, <2>2, <2>3 DEF Connecting
<1>2. CASE Receiving
  BY <1>2 DEF LinkType, Receiving, ReadByte, ReadTimeout, ReadEnd, ReadFails, Reading,
     Behind, Close
<1>3. CASE Writing
  BY <1>3 DEF LinkType, Writing, LoginByte, LoginDone, LoginFails, SendFrame, NoFrame,
     FrameFails, Close
<1>4. CASE Server
  BY <1>4 DEF LinkType, Server, EndArrives, ByteArrives
<1>5. CASE UNCHANGED vars
  BY <1>5 DEF LinkType, vars
<1> QED
  BY <1>1, <1>2, <1>3, <1>4, <1>5, NextParts

LEMMA EmptyLines ==
  line' = <<>> /\ inbox' = <<>> /\ got' = <<>> /\ pieces' = <<>> => InType'
BY DEF InType, Pieces

LEMMA AddType ==
  ASSUME InType, NEW r \in BOOLEAN, NEW b \in Seq(Byte)
  PROVE  Add(r, b) \in Pieces
BY DEF InType, Pieces, Add

LEMMA KeptType == \A b \in Byte : Kept(b) \in Seq(Byte)
BY DEF Kept

LEMMA InTypeStep == InType /\ [Next]_vars => InType'
<1> SUFFICES ASSUME InType, [Next]_vars
             PROVE  InType'
  OBVIOUS
<1>1. CASE Close
  BY <1>1, EmptyLines DEF Close
<1>2. CASE Connecting
  BY <1>1, <1>2, EmptyLines DEF Connecting, Open, Connect, ConnectFails, InType, incoming
<1>3. CASE ReadByte
  <2> DEFINE kept == line \o Kept(Head(inbox))
  <2>1. inbox # <<>> /\ inbox' = Tail(inbox) /\ got' = Append(got, Head(inbox))
    BY <1>3 DEF ReadByte
  <2>2. Head(inbox) \in Byte /\ Tail(inbox) \in Seq(Byte) /\ got' \in Seq(Byte)
    BY <2>1 DEF InType
  <2>3. kept \in Seq(Byte)
    BY <2>2, KeptType DEF InType
  <2>4. Add(TRUE, kept) \in Pieces
    BY <2>3, AddType
  <2>5. \/ pieces' = Add(TRUE, kept) /\ line' = <<>>
        \/ pieces' = pieces /\ line' = kept
    BY <1>3 DEF ReadByte
  <2>6. line' \in Seq(Byte) /\ pieces' \in Pieces
    <3> HIDE DEF kept
    <3>1. line \in Seq(Byte) /\ pieces \in Pieces
      BY DEF InType
    <3>2. <<>> \in Seq(Byte)
      OBVIOUS
    <3> QED
      BY <2>3, <2>4, <2>5, <3>1, <3>2
  <2> QED
    BY <2>1, <2>2, <2>6 DEF InType
<1>4. CASE ReadTimeout
  <2>1. CASE pc = "reading"
    <3>1. Add(FALSE, line) \in Pieces
      BY AddType DEF InType
    <3> QED
      BY <1>4, <2>1, <3>1 DEF ReadTimeout, InType
  <2> QED
    BY <1>1, <1>4, <2>1 DEF ReadTimeout
<1>5. CASE ReadEnd \/ ReadFails
  BY <1>1, <1>5 DEF ReadEnd, ReadFails
<1>6. CASE Writing
  BY <1>1, <1>6 DEF Writing, LoginByte, LoginDone, LoginFails, SendFrame, NoFrame,
     FrameFails, InType, incoming
<1>7. CASE Server
  <2>1. ASSUME NEW b \in Byte, ByteArrives(b)
        PROVE  InType'
    BY <2>1 DEF ByteArrives, InType
  <2>2. CASE EndArrives
    BY <2>2 DEF EndArrives, InType, incoming
  <2> QED
    BY <1>7, <2>1, <2>2 DEF Server
<1>8. CASE UNCHANGED vars
  BY <1>8 DEF InType, vars, incoming
<1> QED
  BY <1>2, <1>3, <1>4, <1>5, <1>6, <1>7, <1>8, NextParts DEF Receiving

LEMMA OutTypeStep == OutType /\ [Next]_vars => OutType'
<1> SUFFICES ASSUME OutType, [Next]_vars
             PROVE  OutType'
  OBVIOUS
<1> USE SizesAssumption
<1>1. CASE Connecting
  <2>1. CASE Open \/ ConnectFails
    BY <2>1 DEF OutType, Open, ConnectFails, outgoing
  <2>2. CASE Connect
    BY <2>2 DEF OutType, Connect
  <2> QED
    BY <1>1, <2>1, <2>2 DEF Connecting
<1>2. CASE Receiving
  BY <1>2 DEF OutType, Receiving, ReadByte, ReadTimeout, ReadEnd, ReadFails, outgoing
<1>3. CASE Server
  BY <1>3 DEF OutType, Server, EndArrives, ByteArrives, outgoing
<1>4. CASE LoginByte
  <2>1. written' \in 1 .. LoginSize /\ written' \in 0 .. LoginSize
    BY <1>4 DEF LoginByte, OutType
  <2>2. Login[written'] \in Unit
    BY <2>1 DEF Login, Unit
  <2> QED
    BY <1>4, <2>1, <2>2 DEF LoginByte, OutType
<1>5. CASE LoginDone \/ LoginFails \/ NoFrame
  BY <1>5 DEF OutType, LoginDone, LoginFails, NoFrame, outgoing
<1>6. CASE SendFrame
  <2>1. frames + 1 \in 0 .. MaxFrames
    BY <1>6 DEF SendFrame, OutType
  <2> QED
    BY <1>6, <2>1, FrameType DEF SendFrame, OutType
<1>7. CASE FrameFails
  <2>1. frames + 1 \in 0 .. MaxFrames
    BY <1>7 DEF FrameFails, OutType
  <2>2. PICK n \in 0 .. FrameSize - 1 :
          stream' = stream \o SubSeq(Frame(frames + 1), 1, n)
    BY <1>7 DEF FrameFails
  <2>3. SubSeq(Frame(frames + 1), 1, n) \in Seq(Unit)
    BY <2>1, FrameType
  <2>4. stream' \in Seq(Unit)
    BY <2>2, <2>3 DEF OutType
  <2> QED
    BY <1>7, <2>4 DEF FrameFails, OutType
<1>8. CASE UNCHANGED vars
  BY <1>8 DEF OutType, vars, outgoing
<1> QED
  BY <1>1, <1>2, <1>3, <1>4, <1>5, <1>6, <1>7, <1>8, NextParts DEF Writing

LEMMA TypeInit == Init => TypeOK
<1> SUFFICES ASSUME Init
             PROVE  LinkType /\ InType /\ OutType
  BY TypeParts
<1>1. LinkType
  <2>1. fd = FALSE /\ pc = "closed" /\ server = "none" /\ conns = 0
    BY DEF Init
  <2>2. 0 \in 0 .. MaxConns
    BY SizesAssumption
  <2> QED
    BY <2>1, <2>2 DEF LinkType
<1>2. InType
  BY DEF Init, InType, Pieces
<1>3. OutType
  BY SizesAssumption DEF Init, OutType
<1> QED
  BY <1>1, <1>2, <1>3

(* A descriptor is open everywhere but between two attempts, and what      *)
(* passes is bytes, for every size of the login line and of a frame        *)
(* (TCPSocket.cpp:59-190).                                                 *)
THEOREM TypeCorrect == Spec => []TypeOK
<1>1. LinkType' /\ InType' /\ OutType' => TypeOK'
  BY DEF TypeOK, LinkType, InType, OutType, Pieces, Unit
<1>2. TypeOK /\ [Next]_vars => TypeOK'
  BY <1>1, TypeParts, LinkTypeStep, InTypeStep, OutTypeStep
<1> QED
  BY <1>2, TypeInit, PTL DEF Spec

-----------------------------------------------------------------------------
(* What recv() returns: readLine() loses nothing but NUL bytes by itself.  *)

LEMMA NoBytes == WithoutNul(<<>>) = <<>>
BY FlattenEmpty DEF WithoutNul

LEMMA WithoutNulAppend ==
  ASSUME NEW s \in Seq(Byte), NEW b \in Byte
  PROVE  WithoutNul(Append(s, b)) = WithoutNul(s) \o Kept(b)
<1> DEFINE K(t) == [j \in DOMAIN t |-> Kept(t[j])]
<1>1. K(s) \in Seq(Seq(Byte)) /\ Kept(b) \in Seq(Byte)
  <2>1. /\ DOMAIN s = 1 .. Len(s) /\ Len(s) \in Nat
        /\ \A j \in 1 .. Len(s) : s[j] \in Byte
    OBVIOUS
  <2>2. K(s) \in [1 .. Len(s) -> Seq(Byte)]
    BY <2>1, KeptType
  <2> QED
    BY <2>1, <2>2, KeptType, SeqDef
<1>2. K(Append(s, b)) = Append(K(s), Kept(b))
  OBVIOUS
<1>3. FlattenSeq(K(Append(s, b))) = FlattenSeq(K(s)) \o Kept(b)
  <2> HIDE DEF K
  <2> QED
    BY <1>1, <1>2, FlattenAppend
<1> QED
  BY <1>3 DEF WithoutNul

Texts == [k \in DOMAIN pieces |-> pieces[k].bytes]
Text == FlattenSeq(Texts)

LEMMA TextsType == InType => Texts \in Seq(Seq(Byte))
<1> SUFFICES ASSUME InType
             PROVE  Texts \in Seq(Seq(Byte))
  OBVIOUS
<1>1. Len(pieces) \in Nat /\ DOMAIN pieces = 1 .. Len(pieces)
  BY DEF InType, Pieces
<1>2. ASSUME NEW k \in 1 .. Len(pieces)
      PROVE  pieces[k].bytes \in Seq(Byte)
  <2>1. pieces[k] \in [returned : BOOLEAN, bytes : Seq(Byte)]
    <3>1. pieces \in Seq([returned : BOOLEAN, bytes : Seq(Byte)])
      BY DEF InType, Pieces
    <3> QED
      BY ONLY <3>1, k \in 1 .. Len(pieces), ElementOfSeq
  <2> QED
    BY <2>1
<1>3. Texts \in [1 .. Len(pieces) -> Seq(Byte)]
  BY <1>1, <1>2 DEF Texts
<1> QED
  BY <1>1, <1>3, SeqDef

LEMMA TextType == InType => Text \in Seq(Byte)
BY TextsType, FlattenType DEF Text

LEMMA TextAdd ==
  ASSUME InType, NEW r \in BOOLEAN, NEW b \in Seq(Byte), pieces' = Add(r, b)
  PROVE  Text' = Text \o b
<1>1. pieces' = Append(pieces, [returned |-> r, bytes |-> b])
  BY DEF Add
<1>2. Texts' = Append(Texts, b)
  BY <1>1 DEF InType, Pieces, Texts
<1> QED
  BY <1>2, TextsType, FlattenAppend DEF Text

\* The line that readLine() is in has no newline yet.
LineInv == \A j \in DOMAIN line : line[j] # "nl"

\* One piece: a line, or what a timeout has dropped.
GoodPiece(p) ==
  /\ p.returned <=> "nl" \in ToSet(p.bytes)
  /\ p.returned => \A j \in DOMAIN p.bytes : p.bytes[j] = "nl" <=> j = Len(p.bytes)

InInv ==
  /\ LineInv
  /\ WithoutNul(got) = Text \o line
  /\ \A k \in DOMAIN pieces : GoodPiece(pieces[k])

LEMMA NoText == pieces = <<>> => Text = <<>>
BY FlattenEmpty DEF Text, Texts

LEMMA AddGood ==
  ASSUME InType, InInv, NEW r \in BOOLEAN, NEW b \in Seq(Byte), pieces' = Add(r, b),
         GoodPiece([returned |-> r, bytes |-> b])
  PROVE  \A k \in DOMAIN pieces' : GoodPiece(pieces'[k])
<1> DEFINE p == [returned |-> r, bytes |-> b]
<1> HIDE DEF p
<1>1. pieces' = Append(pieces, p)
  BY DEF Add, p
<1>2. GoodPiece(p)
  BY DEF p
<1>3. ASSUME NEW k \in DOMAIN pieces'
      PROVE  GoodPiece(pieces'[k])
  <2>1. \/ k \in DOMAIN pieces /\ pieces'[k] = pieces[k]
        \/ pieces'[k] = p
    BY <1>1, <1>3 DEF InType, Pieces
  <2> QED
    BY <1>2, <2>1 DEF InInv
<1> QED
  BY <1>3

LEMMA InInvRead ==
  ASSUME InType, InInv, ReadByte
  PROVE  InInv'
<1> DEFINE h == Head(inbox)
           kept == line \o Kept(h)
<1>1. h \in Byte /\ got' = Append(got, h) /\ Kept(h) \in Seq(Byte)
  BY KeptType DEF ReadByte, InType
<1>2. kept \in Seq(Byte) /\ Text \in Seq(Byte) /\ line \in Seq(Byte)
  BY <1>1, TextType DEF InType
<1>3. WithoutNul(got') = Text \o kept
  <2> HIDE DEF h
  <2>1. WithoutNul(got') = (Text \o line) \o Kept(h)
    BY <1>1, WithoutNulAppend DEF InType, InInv
  <2>2. (Text \o line) \o Kept(h) = Text \o (line \o Kept(h))
    BY <1>1, <1>2
  <2> QED
    BY <2>1, <2>2
<1>4. CASE h = "nl"
  <2>1. pieces' = Add(TRUE, kept) /\ line' = <<>>
    BY <1>4 DEF ReadByte
  <2>2. Text' = Text \o kept
    BY <1>2, <2>1, TextAdd
  <2>3. WithoutNul(got') = Text' \o line'
    <3>1. Text \o kept \in Seq(Byte)
      BY <1>2
    <3>2. (Text \o kept) \o <<>> = Text \o kept
      BY <3>1
    <3> QED
      BY <1>3, <2>1, <2>2, <3>2
  <2>4. GoodPiece([returned |-> TRUE, bytes |-> kept])
    <3>1. kept = Append(line, "nl")
      BY <1>2, <1>4 DEF Kept
    <3>2. \A j \in DOMAIN kept : kept[j] = "nl" <=> j = Len(kept)
      BY <1>2, <3>1 DEF InInv, LineInv
    <3>3. Len(kept) \in DOMAIN kept
      BY <1>2, <3>1
    <3>4. "nl" \in ToSet(kept)
      BY <3>2, <3>3 DEF ToSet
    <3> HIDE DEF kept
    <3> QED
      BY <3>2, <3>4 DEF GoodPiece
  <2>5. \A k \in DOMAIN pieces' : GoodPiece(pieces'[k])
    BY <1>2, <2>1, <2>4, AddGood
  <2>6. LineInv'
    BY <2>1 DEF LineInv
  <2> QED
    BY <2>3, <2>5, <2>6 DEF InInv
<1>5. CASE h # "nl"
  <2>1. pieces' = pieces /\ line' = kept
    BY <1>5 DEF ReadByte
  <2>2. Text' = Text
    BY <2>1 DEF Text, Texts
  <2>3. LineInv'
    <3>1. kept = line \/ kept = Append(line, h)
      BY <1>2 DEF Kept
    <3>2. \A j \in DOMAIN line : line[j] # "nl"
      BY DEF InInv, LineInv
    <3> HIDE DEF h, kept
    <3>3. \A j \in DOMAIN kept : kept[j] # "nl"
      <4>1. CASE kept = line
        BY <3>2, <4>1
      <4>2. CASE kept = Append(line, h)
        BY <1>1, <1>2, <1>5, <3>2, <4>2
      <4> QED
        BY <3>1, <4>1, <4>2
    <3> QED
      BY <2>1, <3>3 DEF LineInv
  <2> HIDE DEF kept, h
  <2> QED
    BY <1>3, <2>1, <2>2, <2>3 DEF InInv
<1> QED
  BY <1>4, <1>5

LEMMA InInvStep == InType /\ InInv /\ [Next]_vars => InInv'
<1> SUFFICES ASSUME InType, InInv, [Next]_vars
             PROVE  InInv'
  OBVIOUS
<1>1. ASSUME line' = <<>>, got' = <<>>, pieces' = <<>>
      PROVE  InInv'
  <2>1. Text' = <<>>
    BY <1>1, FlattenEmpty DEF Text, Texts
  <2> QED
    BY <1>1, <2>1, NoBytes DEF InInv, LineInv
<1>2. ASSUME UNCHANGED <<line, got, pieces>>
      PROVE  InInv'
  <2>1. Text' = Text
    BY <1>2 DEF Text, Texts
  <2> QED
    BY <1>2, <2>1 DEF InInv, LineInv
<1>3. CASE Close
  BY <1>1, <1>3 DEF Close
<1>4. CASE Connecting
  BY <1>1, <1>2, <1>3, <1>4 DEF Connecting, Open, Connect, ConnectFails, incoming
<1>5. CASE ReadByte
  BY <1>5, InInvRead
<1>6. CASE ReadTimeout
  <2>1. CASE pc = "reading" /\ line # <<>>
    <3>1. /\ pieces' = Add(FALSE, line) /\ line' = <<>>
          /\ UNCHANGED got
      BY <1>6, <2>1 DEF ReadTimeout
    <3>2. Text' = Text \o line
      BY <3>1, TextAdd DEF InType
    <3>3. WithoutNul(got') = Text' \o line'
      <4>1. (Text \o line) \o <<>> = Text \o line
        BY TextType DEF InType
      <4> QED
        BY <3>1, <3>2, <4>1 DEF InInv
    <3>4. GoodPiece([returned |-> FALSE, bytes |-> line])
      <4>1. "nl" \notin ToSet(line)
        BY DEF InInv, LineInv, ToSet
      <4> QED
        BY <4>1 DEF GoodPiece
    <3>5. \A k \in DOMAIN pieces' : GoodPiece(pieces'[k])
      BY <3>1, <3>4, AddGood DEF InType
    <3>6. LineInv'
      BY <3>1 DEF LineInv
    <3> QED
      BY <3>3, <3>5, <3>6 DEF InInv
  <2>2. CASE pc = "reading" /\ line = <<>>
    BY <1>2, <1>6, <2>2 DEF ReadTimeout
  <2>3. CASE pc # "reading"
    BY <1>3, <1>6, <2>3 DEF ReadTimeout
  <2> QED
    BY <2>1, <2>2, <2>3
<1>7. CASE ReadEnd \/ ReadFails
  BY <1>3, <1>7 DEF ReadEnd, ReadFails
<1>8. CASE Writing
  BY <1>2, <1>3, <1>8 DEF Writing, LoginByte, LoginDone, LoginFails, SendFrame, NoFrame,
     FrameFails, incoming
<1>9. CASE Server \/ UNCHANGED vars
  BY <1>2, <1>9 DEF Server, EndArrives, ByteArrives, vars, incoming
<1> QED
  BY <1>4, <1>5, <1>6, <1>7, <1>8, <1>9, NextParts DEF Receiving

(* For any number of bytes, lines and timeouts readLine() neither joins,   *)
(* splits nor repeats what recv() returns, and loses of it the NUL bytes   *)
(* and what its timeouts drop (TCPSocket.cpp:214-235).                     *)
THEOREM NothingMisread == Spec => []LinesInOrder
<1>1. Init => InInv
  <2>1. pieces = <<>> => Text = <<>>
    BY NoText
  <2> QED
    BY <2>1, NoBytes DEF Init, InInv, LineInv
<1>2. TypeOK /\ InInv /\ [Next]_vars => InInv'
  BY TypeParts, InInvStep
<1>3. InInv => LinesInOrder
  BY DEF InInv, GoodPiece, LinesInOrder, Returned, Text, Texts
<1> QED
  BY <1>1, <1>2, <1>3, TypeCorrect, PTL DEF Spec

-----------------------------------------------------------------------------
(* What is sent: the login line and then whole frames.                     *)

LEMMA PrefixDef ==
  ASSUME NEW X, NEW s \in Seq(X), NEW t \in Seq(X)
  PROVE  IsPrefix(s, t) <=>
           Len(s) <= Len(t) /\ \A i \in 1 .. Len(s) : s[i] = t[i]
<1>1. SubSeq(s, 1, Len(s)) = s
  OBVIOUS
<1>2. ASSUME Len(s) <= Len(t)
      PROVE  SubSeq(t, 1, Len(s)) = s <=> \A i \in 1 .. Len(s) : s[i] = t[i]
  <2> DEFINE u == SubSeq(t, 1, Len(s))
  <2>1. u \in Seq(X) /\ Len(u) = Len(s) /\ \A i \in 1 .. Len(s) : u[i] = t[i]
    BY <1>2
  <2> HIDE DEF u
  <2>2. (\A i \in 1 .. Len(s) : s[i] = t[i]) => u = s
    BY <2>1, SeqEqual
  <2>3. u = s => \A i \in 1 .. Len(s) : s[i] = t[i]
    BY <2>1
  <2> QED
    BY <2>2, <2>3 DEF u
<1> QED
  BY <1>1, <1>2 DEF IsPrefix

\* The login line and the first n frames.
Upto(n) == FlattenSeq(<<Login>> \o [k \in 1 .. n |-> Frame(k)])

LEMMA ExpectedUpto == Expected = Upto(MaxFrames)
BY DEF Expected, Upto

LEMMA LinesUpto ==
  ASSUME NEW n \in 0 .. MaxFrames
  PROVE  <<Login>> \o [k \in 1 .. n |-> Frame(k)] \in Seq(Seq(Unit))
<1> DEFINE F == [k \in 1 .. n |-> Frame(k)]
<1>1. n \in Nat /\ 1 .. n \subseteq 0 .. MaxFrames
  BY SizesAssumption
<1>2. \A k \in 1 .. n : Frame(k) \in Seq(Unit)
  BY <1>1, FrameType
<1>3. F \in [1 .. n -> Seq(Unit)]
  BY <1>2
<1> HIDE DEF F
<1>4. F \in Seq(Seq(Unit))
  BY <1>1, <1>3, SeqDef
<1>5. <<Login>> \in Seq(Seq(Unit))
  BY FrameType
<1>6. <<Login>> \o F \in Seq(Seq(Unit))
  BY <1>4, <1>5
<1> QED
  BY <1>6 DEF F

LEMMA UptoZero == Upto(0) = Login
<1>1. <<Login>> \o [k \in 1 .. 0 |-> Frame(k)] = Append(<<>>, Login)
  OBVIOUS
<1>2. <<>> \in Seq(Seq(Unit)) /\ Login \in Seq(Unit)
  BY FrameType
<1>3. FlattenSeq(Append(<<>>, Login)) = FlattenSeq(<<>>) \o Login
  BY <1>2, FlattenAppend
<1>4. <<>> \o Login = Login
  BY <1>2
<1> QED
  BY <1>1, <1>3, <1>4, FlattenEmpty DEF Upto

LEMMA UptoNext ==
  ASSUME NEW n \in Nat, n < MaxFrames
  PROVE  Upto(n + 1) = Upto(n) \o Frame(n + 1)
<1> DEFINE S == <<Login>> \o [k \in 1 .. n |-> Frame(k)]
           T == <<Login>> \o [k \in 1 .. n + 1 |-> Frame(k)]
<1>1. n \in 0 .. MaxFrames /\ n + 1 \in 0 .. MaxFrames
  BY SizesAssumption
<1>2. T = Append(S, Frame(n + 1))
  OBVIOUS
<1>3. S \in Seq(Seq(Unit)) /\ Frame(n + 1) \in Seq(Unit)
  BY <1>1, LinesUpto, FrameType
<1> HIDE DEF S, T
<1>4. FlattenSeq(Append(S, Frame(n + 1))) = FlattenSeq(S) \o Frame(n + 1)
  BY <1>3, FlattenAppend
<1> QED
  BY <1>2, <1>4 DEF S, T, Upto

LEMMA UptoType ==
  \A n \in 0 .. MaxFrames : Upto(n) \in Seq(Unit) /\ Len(Upto(n)) = LoginSize + n * FrameSize
<1> DEFINE S == {n \in Nat : n <= MaxFrames =>
                   Upto(n) \in Seq(Unit) /\ Len(Upto(n)) = LoginSize + n * FrameSize}
<1>1. 0 \in S
  BY UptoZero, FrameType, SizesAssumption
<1>2. ASSUME NEW n \in Nat, n \in S
      PROVE  n + 1 \in S
  <2>1. SUFFICES ASSUME n + 1 <= MaxFrames
                 PROVE  /\ Upto(n + 1) \in Seq(Unit)
                        /\ Len(Upto(n + 1)) = LoginSize + (n + 1) * FrameSize
    OBVIOUS
  <2>2. n < MaxFrames /\ n + 1 \in 0 .. MaxFrames
    BY <2>1, SizesAssumption
  <2>3. Upto(n) \in Seq(Unit) /\ Len(Upto(n)) = LoginSize + n * FrameSize
    BY <1>2, <2>2, SizesAssumption
  <2>4. Frame(n + 1) \in Seq(Unit) /\ Len(Frame(n + 1)) = FrameSize
    BY <2>2, FrameType
  <2>5. Upto(n + 1) = Upto(n) \o Frame(n + 1)
    BY <2>2, UptoNext
  <2>6. Len(Upto(n + 1)) = (LoginSize + n * FrameSize) + FrameSize
    BY <2>3, <2>4, <2>5
  <2>7. (n + 1) * FrameSize = n * FrameSize + FrameSize
    BY SizesAssumption
  <2>8. n * FrameSize \in Nat
    BY SizesAssumption
  <2>9. Upto(n + 1) \in Seq(Unit)
    BY <2>3, <2>4, <2>5, ConcatProperties
  <2> QED
    BY <2>6, <2>7, <2>8, <2>9, SizesAssumption
<1> HIDE DEF S
<1>3. \A n \in Nat : n \in S
  BY <1>1, <1>2, AllNumbers
<1> QED
  BY <1>3, SizesAssumption DEF S

\* The beginnings of what is expected.
LEMMA UptoPrefix ==
  \A n \in 0 .. MaxFrames : \A i \in 1 .. Len(Upto(n)) :
    i <= Len(Expected) /\ Upto(n)[i] = Expected[i]
<1> DEFINE S == {d \in Nat : \A n \in 0 .. MaxFrames : n + d = MaxFrames =>
                   \A i \in 1 .. Len(Upto(n)) :
                     i <= Len(Expected) /\ Upto(n)[i] = Expected[i]}
<1>1. 0 \in S
  <2>1. \A n \in 0 .. MaxFrames : n + 0 = MaxFrames => Upto(n) = Expected
    BY ExpectedUpto, SizesAssumption
  <2>2. Len(Expected) \in Nat
    BY ExpectedUpto, UptoType, SizesAssumption
  <2> QED
    BY <2>1, <2>2
<1>2. ASSUME NEW d \in Nat, d \in S
      PROVE  d + 1 \in S
  <2>1. SUFFICES ASSUME NEW n \in 0 .. MaxFrames, n + (d + 1) = MaxFrames,
                        NEW i \in 1 .. Len(Upto(n))
                 PROVE  i <= Len(Expected) /\ Upto(n)[i] = Expected[i]
    OBVIOUS
  <2>2. n \in Nat /\ n < MaxFrames /\ n + 1 \in 0 .. MaxFrames /\ (n + 1) + d = MaxFrames
    BY <2>1, SizesAssumption
  <2>3. Upto(n + 1) = Upto(n) \o Frame(n + 1)
    BY <2>2, UptoNext
  <2>4. /\ Upto(n) \in Seq(Unit) /\ Frame(n + 1) \in Seq(Unit)
        /\ Len(Frame(n + 1)) \in Nat
    BY <2>2, UptoType, FrameType
  <2>5. i \in 1 .. Len(Upto(n + 1)) /\ Upto(n + 1)[i] = Upto(n)[i]
    BY <2>3, <2>4
  <2>6. i <= Len(Expected) /\ Upto(n + 1)[i] = Expected[i]
    BY <1>2, <2>2, <2>5
  <2> QED
    BY <2>5, <2>6
<1> HIDE DEF S
<1>3. \A d \in Nat : d \in S
  BY <1>1, <1>2, AllNumbers
<1> QED
  <2> SUFFICES ASSUME NEW n \in 0 .. MaxFrames
               PROVE  \A i \in 1 .. Len(Upto(n)) :
                        i <= Len(Expected) /\ Upto(n)[i] = Expected[i]
    OBVIOUS
  <2>1. MaxFrames - n \in Nat /\ n + (MaxFrames - n) = MaxFrames
    BY SizesAssumption
  <2> QED
    BY <1>3, <2>1 DEF S

LEMMA PartPrefix ==
  ASSUME NEW n \in 0 .. MaxFrames, NEW s \in Seq(Unit), Len(s) <= Len(Upto(n)),
         \A i \in 1 .. Len(s) : s[i] = Upto(n)[i]
  PROVE  IsPrefix(s, Expected)
<1>1. Upto(n) \in Seq(Unit) /\ Expected \in Seq(Unit)
  BY ExpectedUpto, UptoType, SizesAssumption
<1>2. \A i \in 1 .. Len(s) : i \in 1 .. Len(Upto(n))
  BY <1>1
<1>3. \A i \in 1 .. Len(s) : i <= Len(Expected) /\ s[i] = Expected[i]
  BY <1>2, UptoPrefix
<1>4. Len(s) <= Len(Expected)
  BY <1>1, <1>3
<1> QED
  BY <1>1, <1>3, <1>4, PrefixDef

\* Where the writer thread is tells what it has sent and what it has read.
Greeted(n) == Len(pieces) >= n /\ \A k \in 1 .. n : pieces[k].returned
OutInv ==
  /\ pc = "banner" => stream = <<>> /\ frames = 0 /\ written = 0 /\ pieces = <<>>
  /\ pc = "login" => stream = SubSeq(Login, 1, written) /\ frames = 0
  /\ pc = "response" => stream = Login /\ frames = 0
  /\ pc \in {"round", "reading"} => stream = Upto(frames)
  /\ pc \in {"login", "response"} => Greeted(1) /\ Len(pieces) = 1
  /\ pc \in {"round", "reading"} => Greeted(2)
  /\ IsPrefix(stream, Expected)

LEMMA SentPrefix ==
  /\ IsPrefix(<<>>, Expected)
  /\ \A n \in 0 .. LoginSize : IsPrefix(SubSeq(Login, 1, n), Expected)
  /\ \A k \in 0 .. MaxFrames : IsPrefix(Upto(k), Expected)
  /\ \A k \in 0 .. MaxFrames - 1 : \A n \in 0 .. FrameSize :
       IsPrefix(Upto(k) \o SubSeq(Frame(k + 1), 1, n), Expected)
<1>0. Len(Login) = LoginSize /\ Login \in Seq(Unit) /\ LoginSize \in Nat /\ FrameSize \in Nat
  BY FrameType, SizesAssumption
<1>1. ASSUME NEW n \in 0 .. LoginSize
      PROVE  IsPrefix(SubSeq(Login, 1, n), Expected)
  <2> DEFINE s == SubSeq(Login, 1, n)
  <2>1. s \in Seq(Unit) /\ Len(s) = n /\ \A i \in 1 .. n : s[i] = Login[i]
    BY <1>0
  <2> HIDE DEF s
  <2>2. 0 \in 0 .. MaxFrames /\ Len(s) <= Len(Upto(0)) /\ \A i \in 1 .. Len(s) : s[i] = Upto(0)[i]
    BY <1>0, <2>1, UptoZero, SizesAssumption
  <2>3. IsPrefix(s, Expected)
    BY <2>1, <2>2, PartPrefix
  <2> QED
    BY <2>3 DEF s
<1>2. IsPrefix(<<>>, Expected)
  <2>1. SubSeq(Login, 1, 0) = <<>> /\ 0 \in 0 .. LoginSize
    BY <1>0
  <2> QED
    BY <1>0, <1>1, <2>1
<1>3. ASSUME NEW k \in 0 .. MaxFrames
      PROVE  IsPrefix(Upto(k), Expected)
  <2>1. Upto(k) \in Seq(Unit) /\ Len(Upto(k)) <= Len(Upto(k))
    BY UptoType
  <2> QED
    BY <2>1, PartPrefix
<1>4. ASSUME NEW k \in 0 .. MaxFrames - 1, NEW n \in 0 .. FrameSize
      PROVE  IsPrefix(Upto(k) \o SubSeq(Frame(k + 1), 1, n), Expected)
  <2> DEFINE F == Frame(k + 1)
             p == SubSeq(F, 1, n)
             s == Upto(k) \o p
  <2>1. k \in Nat /\ k < MaxFrames /\ k \in 0 .. MaxFrames /\ k + 1 \in 0 .. MaxFrames
    BY SizesAssumption
  <2>2. F \in Seq(Unit) /\ Len(F) = FrameSize /\ Upto(k) \in Seq(Unit)
    BY <2>1, FrameType, UptoType
  <2>3. Upto(k + 1) = Upto(k) \o F
    BY <2>1, UptoNext
  <2> HIDE DEF F
  <2>4. p \in Seq(Unit) /\ Len(p) = n /\ \A i \in 1 .. n : p[i] = F[i]
    BY <1>0, <2>2
  <2> HIDE DEF p
  <2>5. /\ s \in Seq(Unit) /\ Len(s) = Len(Upto(k)) + n
        /\ Len(Upto(k + 1)) = Len(Upto(k)) + FrameSize
    BY <2>2, <2>3, <2>4, ConcatProperties
  <2>6. \A i \in 1 .. Len(s) : s[i] = Upto(k + 1)[i]
    <3> SUFFICES ASSUME NEW i \in 1 .. Len(s)
                 PROVE  s[i] = Upto(k + 1)[i]
      OBVIOUS
    <3> DEFINE l == Len(Upto(k))
    <3>1. l \in Nat /\ n \in Nat /\ Len(s) = l + n /\ n <= FrameSize
      BY <1>0, <2>2, <2>5
    <3>2. CASE i <= l
      BY <2>2, <2>3, <2>4, <3>1, <3>2
    <3>3. CASE i > l
      <4>1. i - l \in 1 .. n
        BY <3>1, <3>3
      <4>2. s[i] = p[i - l]
        BY <2>2, <2>4, <3>1, <3>3
      <4>3. Upto(k + 1)[i] = F[i - l]
        BY <2>2, <2>3, <3>1, <3>3, <4>1
      <4> QED
        BY <2>4, <4>1, <4>2, <4>3
    <3> QED
      BY <3>1, <3>2, <3>3
  <2>7. Len(s) <= Len(Upto(k + 1))
    BY <1>0, <2>2, <2>5
  <2> HIDE DEF s
  <2>8. IsPrefix(s, Expected)
    BY <2>1, <2>5, <2>6, <2>7, PartPrefix
  <2> QED
    BY <2>8 DEF s, p, F
<1> QED
  BY <1>1, <1>2, <1>3, <1>4

LEMMA OutInvStep == TypeOK /\ OutInv /\ [Next]_vars => OutInv'
<1> SUFFICES ASSUME TypeOK, OutInv, [Next]_vars
             PROVE  OutInv'
  OBVIOUS
<1>0. LinkType /\ InType /\ OutType
  BY TypeParts
<1>1. ASSUME pc' \in {"closed", "connecting"}, UNCHANGED stream
      PROVE  OutInv'
  BY <1>1 DEF OutInv
<1>2. CASE Open
  <2>1. pc' = "connecting" /\ stream' = stream
    BY <1>0, <1>2 DEF Open, LinkType, outgoing
  <2> QED
    BY <1>1, <2>1
<1>3. CASE ConnectFails \/ ReadEnd \/ ReadFails \/ LoginFails
  <2>1. pc' = "closed" /\ stream' = stream
    BY <1>3 DEF ConnectFails, ReadEnd, ReadFails, LoginFails, Close, outgoing
  <2> QED
    BY <1>1, <2>1
<1>4. CASE Connect
  <2>1. /\ pc' = "banner" /\ stream' = <<>> /\ frames' = 0 /\ written' = 0
        /\ pieces' = <<>>
    BY <1>4 DEF Connect
  <2> QED
    BY <2>1, SentPrefix DEF OutInv
<1>5. CASE ReadByte
  <2>1. UNCHANGED <<stream, frames, written>>
    BY <1>5 DEF ReadByte, outgoing
  <2>2. CASE pieces' = pieces /\ pc' = pc
    BY <2>1, <2>2 DEF OutInv, Greeted
  <2>3. CASE pieces' = Add(TRUE, line \o Kept(Head(inbox))) /\ pc' = Behind
    <3>1. /\ Len(pieces') = Len(pieces) + 1
          /\ \A k \in 1 .. Len(pieces) : pieces'[k] = pieces[k]
          /\ pieces'[Len(pieces) + 1].returned
          /\ Len(pieces) \in Nat
      BY <1>0, <2>3 DEF InType, Pieces, Add
    <3>2. Reading
      BY <1>5 DEF ReadByte
    <3>3. CASE pc = "banner"
      <4>1. pc' = "login"
        BY <2>3, <3>3 DEF Behind
      <4>2. Greeted(1)' /\ Len(pieces') = 1
        <5>1. Len(pieces) = 0
          BY <3>3 DEF OutInv
        <5> QED
          BY <3>1, <5>1 DEF Greeted
      <4>3. stream' = SubSeq(Login, 1, written')
        BY <2>1, <3>3, FrameType DEF OutInv
      <4> QED
        BY <2>1, <3>3, <4>1, <4>2, <4>3 DEF OutInv
    <3>4. CASE pc = "response"
      <4>1. pc' = "round"
        BY <2>3, <3>4 DEF Behind
      <4>2. Greeted(2)'
        <5>1. Len(pieces) = 1 /\ pieces[1].returned
          BY <3>4 DEF OutInv, Greeted
        <5>2. pieces'[1].returned /\ pieces'[2].returned /\ Len(pieces') = 2
          BY <3>1, <5>1
        <5> QED
          BY <5>2 DEF Greeted
      <4> QED
        BY <2>1, <3>4, <4>1, <4>2, UptoZero DEF OutInv
    <3>5. CASE pc = "reading"
      <4>1. pc' = "round"
        BY <2>3, <3>5 DEF Behind
      <4>2. Greeted(2)'
        BY <3>1, <3>5 DEF OutInv, Greeted
      <4>3. stream' = Upto(frames') /\ IsPrefix(stream', Expected)
        BY <2>1, <3>5 DEF OutInv
      <4> QED
        BY <4>1, <4>2, <4>3 DEF OutInv
    <3> QED
      BY <3>2, <3>3, <3>4, <3>5 DEF Reading
  <2> QED
    BY <1>5, <2>2, <2>3 DEF ReadByte
<1>6. CASE ReadTimeout
  <2>1. UNCHANGED <<stream, frames, written>>
    BY <1>6 DEF ReadTimeout, outgoing
  <2>2. CASE pc = "reading"
    <3>1. pc' = "round" /\ (pieces' = pieces \/ pieces' = Add(FALSE, line))
      BY <1>6, <2>2 DEF ReadTimeout
    <3>2. Greeted(2)'
      <4>1. /\ Len(pieces) >= 2 /\ Len(pieces) \in Nat
            /\ \A k \in 1 .. 2 : pieces[k].returned
        BY <1>0, <2>2 DEF OutInv, Greeted, InType, Pieces
      <4>2. Len(pieces') >= 2 /\ \A k \in 1 .. 2 : pieces'[k] = pieces[k]
        <5>1. CASE pieces' = pieces
          BY <4>1, <5>1
        <5>2. CASE pieces' = Add(FALSE, line)
          <6>1. /\ Len(pieces') = Len(pieces) + 1
                /\ \A k \in 1 .. Len(pieces) : pieces'[k] = pieces[k]
            BY <1>0, <5>2 DEF InType, Pieces, Add
          <6> QED
            BY <4>1, <6>1
        <5> QED
          BY <3>1, <5>1, <5>2
      <4> QED
        BY <4>1, <4>2 DEF Greeted
    <3> QED
      BY <2>1, <2>2, <3>1, <3>2 DEF OutInv
  <2>3. CASE pc # "reading"
    <3>1. pc' = "closed"
      BY <1>6, <2>3 DEF ReadTimeout, Close
    <3> QED
      BY <1>1, <2>1, <3>1
  <2> QED
    BY <2>2, <2>3
<1>7. CASE LoginByte
  <2>1. written' = written + 1 /\ stream' = Append(stream, Login[written'])
    BY <1>7 DEF LoginByte
  <2>2. written \in Nat /\ written + 1 <= LoginSize /\ LoginSize \in Nat
    BY <1>0, <1>7, SizesAssumption DEF LoginByte, OutType
  <2>3. stream = SubSeq(Login, 1, written)
    BY <1>7 DEF LoginByte, OutInv
  <2>4. stream' = SubSeq(Login, 1, written')
    BY <2>1, <2>2, <2>3, FrameType
  <2>5. IsPrefix(stream', Expected)
    BY <2>1, <2>2, <2>4, SentPrefix
  <2>6. pc' = "login" /\ pc = "login" /\ UNCHANGED <<pieces, frames>>
    BY <1>7 DEF LoginByte, incoming
  <2> QED
    BY <2>4, <2>5, <2>6 DEF OutInv, Greeted
<1>8. CASE LoginDone
  <2>1. /\ pc = "login" /\ pc' = "response" /\ written = LoginSize
        /\ UNCHANGED <<pieces, frames, stream>>
    BY <1>8 DEF LoginDone, incoming
  <2>2. SubSeq(Login, 1, LoginSize) = Login
    BY FrameType
  <2> QED
    BY <2>1, <2>2 DEF OutInv, Greeted
<1>9. CASE SendFrame
  <2>1. /\ pc = "round" /\ pc' = "reading" /\ frames' = frames + 1
        /\ stream' = stream \o Frame(frames + 1) /\ UNCHANGED pieces
        /\ frames \in Nat /\ frames < MaxFrames /\ frames + 1 \in 0 .. MaxFrames
    BY <1>0, <1>9, SizesAssumption DEF SendFrame, incoming, OutType
  <2>2. stream' = Upto(frames + 1)
    BY <2>1, UptoNext DEF OutInv
  <2> QED
    BY <2>1, <2>2, SentPrefix DEF OutInv, Greeted
<1>10. CASE NoFrame
  <2>1. pc = "round" /\ pc' = "reading" /\ UNCHANGED <<pieces, frames, stream>>
    BY <1>10 DEF NoFrame, incoming, outgoing
  <2> QED
    BY <2>1 DEF OutInv, Greeted
<1>11. CASE FrameFails
  <2>1. pc = "round" /\ frames \in 0 .. MaxFrames - 1 /\ pc' = "closed"
    BY <1>0, <1>11, SizesAssumption DEF FrameFails, OutType, Close
  <2>2. PICK n \in 0 .. FrameSize - 1 :
          stream' = stream \o SubSeq(Frame(frames + 1), 1, n)
    BY <1>11 DEF FrameFails
  <2>3. n \in 0 .. FrameSize
    BY SizesAssumption
  <2>4. IsPrefix(stream', Expected)
    BY <2>1, <2>2, <2>3, SentPrefix DEF OutInv
  <2> QED
    BY <2>1, <2>4 DEF OutInv
<1>12. CASE Server \/ UNCHANGED vars
  <2>1. UNCHANGED <<pc, stream, frames, written, pieces>>
    BY <1>12 DEF Server, EndArrives, ByteArrives, vars, incoming, outgoing
  <2> QED
    BY <2>1 DEF OutInv, Greeted
<1> QED
  BY <1>2, <1>3, <1>4, <1>5, <1>6, <1>7, <1>8, <1>9, <1>10, <1>11, <1>12, NextParts
  DEF Connecting, Receiving, Writing

LEMMA GreetedTwice ==
  ASSUME InType, Greeted(2)
  PROVE  1 \in Returned /\ Cardinality(Returned) >= 2
<1>1. Len(pieces) \in Nat /\ Len(pieces) >= 2 /\ DOMAIN pieces = 1 .. Len(pieces)
  BY DEF InType, Pieces, Greeted
<1>2. IsFiniteSet(1 .. Len(pieces))
  BY <1>1, FS_Interval
<1>3. Returned \in SUBSET (1 .. Len(pieces)) /\ {1, 2} \in SUBSET Returned
  BY <1>1 DEF Returned, Greeted
<1>4. IsFiniteSet(Returned) /\ Cardinality(Returned) \in Nat
  BY <1>2, <1>3, FS_Subset, FS_CardinalityType
<1>5. Cardinality({1, 2}) <= Cardinality(Returned)
  BY <1>3, <1>4, FS_Subset
<1>6. Cardinality({1, 2}) = 2
  <2>1. IsFiniteSet({}) /\ Cardinality({}) = 0
    BY FS_EmptySet
  <2>2. IsFiniteSet({1}) /\ Cardinality({1}) = 1
    BY FS_Singleton
  <2>3. {1} \cup {2} = {1, 2} /\ 2 \notin {1}
    OBVIOUS
  <2>4. Cardinality({1} \cup {2}) = Cardinality({1}) + 1
    BY <2>2, <2>3, FS_AddElement
  <2> QED
    BY <2>2, <2>3, <2>4
<1> QED
  BY <1>3, <1>4, <1>5, <1>6

(* For any number of frames and any size of the login line and of a frame, *)
(* what is sent is the login line behind the banner and whole frames       *)
(* behind the response, and nothing behind one cut short                   *)
(* (TCPSocket.cpp:237-275, APRSWriterThread.cpp:110-117, 197-246).         *)
THEOREM WholeFramesInOrder == Spec => []ServerReads
<1>1. Init => OutInv
  BY SentPrefix DEF Init, OutInv
<1>2. TypeOK /\ OutInv /\ [Next]_vars => OutInv'
  BY OutInvStep
<1>3. TypeOK /\ OutInv => ServerReads
  <2> SUFFICES ASSUME TypeOK, OutInv
               PROVE  ServerReads
    OBVIOUS
  <2>0. LinkType /\ InType /\ OutType
    BY TypeParts
  <2>1. IsPrefix(stream, Expected)
    BY DEF OutInv
  <2>2. pc \in {"round", "reading"} => Len(stream) = LoginSize + frames * FrameSize
    BY <2>0, UptoType DEF OutInv, OutType
  <2>3. server # "none" /\ stream # <<>> => 1 \in Returned
    <3> SUFFICES ASSUME server # "none", stream # <<>>
                 PROVE  1 \in Returned
      OBVIOUS
    <3>1. pc \in {"login", "response", "round", "reading"}
      BY <2>0 DEF LinkType, OutInv
    <3>2. Len(pieces) >= 1 /\ pieces[1].returned
      BY <2>0, <3>1 DEF OutInv, Greeted
    <3> QED
      BY <2>0, <3>2 DEF Returned, InType, Pieces
  <2>4. server # "none" /\ Len(stream) > LoginSize => Cardinality(Returned) >= 2
    <3> SUFFICES ASSUME server # "none", Len(stream) > LoginSize
                 PROVE  Cardinality(Returned) >= 2
      OBVIOUS
    <3>1. pc # "banner" /\ pc # "response"
      BY FrameType, SizesAssumption DEF OutInv
    <3>2. pc # "login"
      BY <2>0, FrameType, SizesAssumption DEF OutInv, OutType
    <3>3. pc \in {"round", "reading"}
      BY <2>0, <3>1, <3>2 DEF LinkType
    <3> QED
      BY <2>0, <3>3, GreetedTwice DEF OutInv
  <2> QED
    BY <2>1, <2>2, <2>3, <2>4 DEF ServerReads
<1> QED
  BY <1>1, <1>2, <1>3, TypeCorrect, PTL DEF Spec

-----------------------------------------------------------------------------
(* The queue over the connections.  Every step of Delivery is one of the   *)
(* socket or none, and one of the channel or none.                         *)

\* Every step of Delivery is a step of the sockets or none.
LEMMA SocketSteps == [DeliveryNext]_deliveryVars => [Next]_vars
BY DEF DeliveryNext, DeliveryProgress, Deliver, NothingToDeliver, Serve, Write,
       DeliveryFails, ConnectionEnds, Disturb, deliveryVars, Next, Progress,
       Failure, Server

(* What has been proved of one socket holds of those below the queue:      *)
(* whatever the queue does, the connections behave as TCPSocket says       *)
(* (APRSWriterThread.cpp:100-127).                                         *)
THEOREM DeliveryUsesSockets == DeliverySpec => Spec
<1>1. DeliveryInit => Init
  BY DEF DeliveryInit
<1> QED
  BY <1>1, SocketSteps, PTL DEF DeliverySpec, Spec

\* The steps of Delivery, by what they do to the queue.
LEMMA QueueSteps ==
  ASSUME [DeliveryNext]_deliveryVars
  PROVE  \/ Write \/ Deliver \/ DeliveryFails
         \/ UNCHANGED <<channel, given, late>>
BY DEF DeliveryNext, DeliveryProgress, NothingToDeliver, Serve, ConnectionEnds,
       Disturb, deliveryVars, channel, fate

Gift == [conn : Nat, message : Nat]

OrderInv ==
  /\ state = "open" /\ queue \in Seq(Nat) /\ passed \in Seq(Nat) /\ given \in Seq(Gift)
  /\ \A k \in 1 .. Len(queue) : queue[k] = Len(passed) + k
  /\ \A i, j \in 1 .. Len(given) : i < j => given[i].message < given[j].message
  /\ \A i \in 1 .. Len(given) : given[i].message <= Len(passed)

LEMMA GiftType ==
  ASSUME OrderInv, NEW i \in 1 .. Len(given)
  PROVE  /\ given[i].conn \in Nat /\ given[i].message \in Nat
         /\ given[i].message <= Len(passed)
<1>1. given \in Seq(Gift) /\ given[i].message <= Len(passed)
  BY DEF OrderInv
<1>2. given[i] \in Gift
  BY ONLY <1>1, i \in 1 .. Len(given), ElementOfSeq
<1> QED
  BY <1>1, <1>2 DEF Gift

\* A message that is passed on is the next in number.
LEMMA OrderPass ==
  ASSUME OrderInv, Channel!Pass, conns \in Nat,
         \/ given' = given
         \/ given' = Append(given, [conn |-> conns, message |-> Head(queue)])
  PROVE  OrderInv'
<1>1. /\ queue \in Seq(Nat) /\ queue # <<>> /\ passed \in Seq(Nat)
      /\ given \in Seq(Gift) /\ state' = "open"
      /\ passed' = Append(passed, Head(queue)) /\ queue' = Tail(queue)
  BY DEF OrderInv, Channel!Pass
<1>2. /\ Head(queue) = Len(passed) + 1 /\ Head(queue) \in Nat
      /\ Len(passed) \in Nat /\ Len(given) \in Nat /\ Len(queue) \in Nat
  BY <1>1 DEF OrderInv
<1>3. passed' \in Seq(Nat) /\ Len(passed') = Len(passed) + 1
  BY <1>1, <1>2
<1>4. /\ queue' \in Seq(Nat) /\ Len(queue') = Len(queue) - 1
      /\ \A k \in 1 .. Len(queue') : queue'[k] = queue[k + 1]
  BY <1>1, HeadTailProperties
<1>5. \A k \in 1 .. Len(queue') : queue'[k] = Len(passed') + k
  <2> SUFFICES ASSUME NEW k \in 1 .. Len(queue')
               PROVE  queue'[k] = Len(passed') + k
    OBVIOUS
  <2>1. k + 1 \in 1 .. Len(queue)
    BY <1>2, <1>4
  <2>2. queue[k + 1] = Len(passed) + (k + 1)
    BY <2>1 DEF OrderInv
  <2> QED
    BY <1>2, <1>3, <1>4, <2>2
<1>6. \A i \in 1 .. Len(given) : given[i].message <= Len(passed) /\ given[i].message \in Nat
  BY GiftType
<1>7. CASE given' = given
  <2>1. \A i \in 1 .. Len(given') : given'[i].message <= Len(passed')
    BY <1>2, <1>3, <1>6, <1>7
  <2> QED
    BY <1>1, <1>3, <1>4, <1>5, <1>7, <2>1 DEF OrderInv
<1>8. CASE given' = Append(given, [conn |-> conns, message |-> Head(queue)])
  <2> DEFINE gift == [conn |-> conns, message |-> Head(queue)]
  <2>0. gift \in Gift /\ gift.message = Len(passed) + 1
    BY <1>2 DEF Gift
  <2> HIDE DEF gift
  <2>1. /\ given' \in Seq(Gift) /\ Len(given') = Len(given) + 1
        /\ \A i \in 1 .. Len(given) : given'[i] = given[i]
        /\ given'[Len(given) + 1] = gift
    BY <1>1, <1>2, <1>8, <2>0 DEF gift
  <2>2. \A i \in 1 .. Len(given') : i \in 1 .. Len(given) \/ i = Len(given) + 1
    BY <1>2, <2>1
  <2>3. \A i \in 1 .. Len(given') : given'[i].message <= Len(passed')
    BY <1>2, <1>3, <1>6, <2>0, <2>1, <2>2
  <2>4. \A i, j \in 1 .. Len(given') : i < j => given'[i].message < given'[j].message
    <3> SUFFICES ASSUME NEW i \in 1 .. Len(given'), NEW j \in 1 .. Len(given'), i < j
                 PROVE  given'[i].message < given'[j].message
      OBVIOUS
    <3>1. i \in 1 .. Len(given)
      BY <1>2, <2>1
    <3>2. CASE j \in 1 .. Len(given)
      BY <2>1, <3>1, <3>2 DEF OrderInv
    <3>3. CASE j = Len(given) + 1
      BY <1>2, <1>6, <2>0, <2>1, <3>1, <3>3
    <3> QED
      BY <2>2, <3>2, <3>3
  <2> QED
    BY <1>1, <1>3, <1>4, <1>5, <2>1, <2>3, <2>4 DEF OrderInv
<1> QED
  BY <1>7, <1>8

LEMMA OrderStep == OrderInv /\ conns \in Nat /\ [DeliveryNext]_deliveryVars => OrderInv'
<1> SUFFICES ASSUME OrderInv, conns \in Nat, [DeliveryNext]_deliveryVars
             PROVE  OrderInv'
  OBVIOUS
<1>1. CASE Write
  <2>1. /\ queue' = Append(queue, Len(passed) + Len(queue) + 1)
        /\ UNCHANGED <<state, passed, given>>
    BY <1>1 DEF Write, Accepted, Channel!Accept, fate
  <2>2. queue \in Seq(Nat) /\ Len(queue) \in Nat /\ Len(passed) \in Nat
    BY DEF OrderInv
  <2>3. /\ queue' \in Seq(Nat) /\ Len(queue') = Len(queue) + 1
        /\ \A k \in 1 .. Len(queue) : queue'[k] = queue[k]
        /\ queue'[Len(queue) + 1] = Len(passed) + (Len(queue) + 1)
    BY <2>1, <2>2
  <2>4. \A k \in 1 .. Len(queue') : queue'[k] = Len(passed) + k
    <3> SUFFICES ASSUME NEW k \in 1 .. Len(queue')
                 PROVE  queue'[k] = Len(passed) + k
      OBVIOUS
    <3>1. CASE k \in 1 .. Len(queue)
      BY <2>3, <3>1 DEF OrderInv
    <3>2. CASE k = Len(queue) + 1
      BY <2>3, <3>2
    <3> QED
      BY <2>2, <2>3, <3>1, <3>2
  <2> QED
    BY <2>1, <2>3, <2>4 DEF OrderInv
<1>2. CASE Deliver
  BY <1>2, OrderPass DEF Deliver, Give
<1>3. CASE DeliveryFails
  BY <1>3, OrderPass DEF DeliveryFails, fate
<1>4. CASE UNCHANGED <<channel, given, late>>
  BY <1>4 DEF OrderInv, channel
<1> QED
  BY <1>1, <1>2, <1>3, <1>4, QueueSteps

(* The order of the messages is an invariant: the numbers of the            *)
(* connections are natural numbers.                                        *)
LEMMA OrderHolds == DeliverySpec => []OrderInv
<1>1. DeliveryInit => OrderInv
  BY DEF DeliveryInit, Channel!Init, OrderInv
<1>2. TypeOK => conns \in Nat
  BY SizesAssumption DEF TypeOK
<1>3. OrderInv /\ conns \in Nat /\ [DeliveryNext]_deliveryVars => OrderInv'
  BY OrderStep
<1> QED
  BY <1>1, <1>2, <1>3, DeliveryUsesSockets, TypeCorrect, PTL DEF DeliverySpec

(* Over any number of connections and of messages, no message is given to  *)
(* send() again once it has taken it whole, none out of the order of the   *)
(* calls of write(), and none that is still queued                         *)
(* (APRSWriterThread.cpp:100-117).                                         *)
THEOREM NothingTwice == DeliverySpec => []AtMostOnce
<1>1. OrderInv => AtMostOnce
  <2> SUFFICES ASSUME OrderInv
               PROVE  AtMostOnce
    OBVIOUS
  <2>1. /\ DOMAIN given = 1 .. Len(given) /\ DOMAIN queue = 1 .. Len(queue)
        /\ Len(passed) \in Nat
    BY DEF OrderInv
  <2>2. \A i \in DOMAIN given, k \in DOMAIN queue : given[i].message # queue[k]
    <3> SUFFICES ASSUME NEW i \in 1 .. Len(given), NEW k \in 1 .. Len(queue)
                 PROVE  given[i].message # queue[k]
      BY <2>1
    <3>1. given[i].message <= Len(passed) /\ given[i].message \in Nat /\ queue[k] = Len(passed) + k
      BY GiftType DEF OrderInv
    <3> QED
      BY <2>1, <3>1
  <2>3. \A i \in DOMAIN given : given[i].message \notin ToSet(queue)
    BY <2>2 DEF ToSet
  <2> QED
    BY <2>1, <2>3 DEF AtMostOnce, OrderInv
<1> QED
  BY <1>1, OrderHolds, PTL

(* The messages go through the queue as FrameChannel allows it, which is    *)
(* what the queue of the frames implements: what Delivery does with them   *)
(* is something that queue can do (APRSWriterThread.cpp:100-117, 162-177). *)
THEOREM DeliveryUsesChannel == DeliverySpec => Channel!Spec
<1>1. DeliveryInit => Channel!Init
  BY DEF DeliveryInit
<1>2. OrderInv /\ [DeliveryNext]_deliveryVars => [Channel!Next]_<<state, queue, passed>>
  <2> SUFFICES ASSUME OrderInv, [DeliveryNext]_deliveryVars
               PROVE  [Channel!Next]_<<state, queue, passed>>
    OBVIOUS
  <2>1. CASE Write
    <3>1. Channel!Accept(Accepted + 1) /\ Accepted \in Nat /\ Accepted + 1 <= MaxMessages
      BY <2>1, MessagesAssumption DEF Write, Accepted, OrderInv
    <3>2. Accepted + 1 \in 1 .. MaxMessages
      BY <3>1, MessagesAssumption
    <3> QED
      BY <3>1, <3>2 DEF Channel!Next
  <2>2. CASE Deliver \/ DeliveryFails
    BY <2>2 DEF Deliver, DeliveryFails, Channel!Next
  <2>3. CASE UNCHANGED <<channel, given, late>>
    BY <2>3 DEF channel
  <2> QED
    BY <2>1, <2>2, <2>3, QueueSteps
<1> QED
  BY <1>1, <1>2, OrderHolds, PTL DEF DeliverySpec, Channel!Spec

-----------------------------------------------------------------------------
(* What a connection can cost.                                             *)

Ends(bytes) == {j \in DOMAIN bytes : bytes[j] = "nl"}

LEMMA NewlinesType ==
  ASSUME NEW bytes \in Seq(Byte)
  PROVE  IsFiniteSet(Ends(bytes)) /\ Newlines(bytes) \in Nat
<1>1. DOMAIN bytes = 1 .. Len(bytes) /\ Len(bytes) \in Nat
  OBVIOUS
<1>2. IsFiniteSet(1 .. Len(bytes))
  BY <1>1, FS_Interval
<1>3. Ends(bytes) \in SUBSET (1 .. Len(bytes))
  BY <1>1 DEF Ends
<1> QED
  BY <1>2, <1>3, FS_Subset, FS_CardinalityType DEF Newlines, Ends

\* A byte that is read leaves one newline less, if it is one.
LEMMA NewlinesTail ==
  ASSUME NEW bytes \in Seq(Byte), bytes # <<>>
  PROVE  Newlines(bytes) =
           Newlines(Tail(bytes)) + (IF Head(bytes) = "nl" THEN 1 ELSE 0)
<1> DEFINE S == Ends(bytes) \ {1}
           T == Ends(Tail(bytes))
           f == [j \in T |-> j + 1]
<1>1. /\ Len(bytes) \in Nat /\ Len(bytes) >= 1 /\ Tail(bytes) \in Seq(Byte)
      /\ Len(Tail(bytes)) = Len(bytes) - 1
      /\ \A j \in 1 .. Len(bytes) - 1 : Tail(bytes)[j] = bytes[j + 1]
      /\ Head(bytes) = bytes[1]
      /\ DOMAIN bytes = 1 .. Len(bytes) /\ DOMAIN Tail(bytes) = 1 .. Len(bytes) - 1
  BY HeadTailProperties
<1>2. f \in Injection(T, S)
  <2>1. T \subseteq Nat
    BY <1>1 DEF Ends
  <2>2. \A j \in T : j + 1 \in S
    BY <1>1 DEF Ends
  <2>3. f \in [T -> S]
    BY <2>2
  <2>4. \A j, k \in T : f[j] = f[k] => j = k
    BY <2>1
  <2> HIDE DEF f, T, S
  <2> QED
    BY <2>3, <2>4 DEF Injection, IsInjective
<1>3. f \in Surjection(T, S)
  <2>1. \A j \in T : j + 1 \in S
    BY <1>1 DEF Ends
  <2>2. \A k \in S : k - 1 \in T /\ (k - 1) + 1 = k
    BY <1>1 DEF Ends
  <2>3. \A k \in S : \E j \in T : f[j] = k
    BY <2>2
  <2> QED
    BY <2>1, <2>3 DEF Surjection
<1>4. IsFiniteSet(Ends(bytes)) /\ IsFiniteSet(T)
  BY <1>1, NewlinesType
<1>5. ExistsBijection(T, S)
  BY <1>2, <1>3 DEF ExistsBijection, Bijection
<1>6. Cardinality(S) = Cardinality(T)
  <2> HIDE DEF S, T
  <2> QED
    BY <1>4, <1>5, FS_Bijection
<1>7. Cardinality(S) = IF 1 \in Ends(bytes) THEN Cardinality(Ends(bytes)) - 1
                                            ELSE Cardinality(Ends(bytes))
  BY <1>4, FS_RemoveElement
<1>8. 1 \in Ends(bytes) <=> Head(bytes) = "nl"
  BY <1>1 DEF Ends
<1>9. Newlines(bytes) = Cardinality(Ends(bytes)) /\ Newlines(Tail(bytes)) = Cardinality(T)
  BY DEF Newlines, Ends
<1>10. Newlines(bytes) \in Nat /\ Newlines(Tail(bytes)) \in Nat
  BY <1>1, NewlinesType
<1> QED
  BY <1>6, <1>7, <1>8, <1>9, <1>10

Connected == pc \in {"banner", "login", "response", "round", "reading"}

\* The frames that may still go out behind the end of the connection: one now,
\* and one behind every line that is still to be read.
Pending ==
  IF server = "done"
    THEN Newlines(inbox) + (IF pc = "round" THEN 1 ELSE 0)
    ELSE 0

LossInv ==
  /\ late \in Nat /\ allowed \in Nat
  /\ Connected => server # "none"
  /\ late + Pending <= allowed

LEMMA PendingType == InType => Pending \in Nat
BY NewlinesType DEF InType, Pending

\* The steps in which no frame is sent and the server does not close its end.
Quiet ==
  \/ Connecting \/ Receiving \/ LoginByte \/ LoginDone \/ LoginFails \/ NoFrame
  \/ (\E b \in Byte : ByteArrives(b)) \/ UNCHANGED vars

\* In such a step no connection is made without being counted, and the frames
\* that may still go out behind an end become no more.
LEMMA SocketLoss ==
  ASSUME TypeOK, LossInv, Quiet
  PROVE  /\ Connected' => server' # "none"
         /\ (conns' = conns /\ (Connected' => Connected)) \/ conns' = conns + 1
         /\ Pending' <= Pending
<1>0. /\ LinkType /\ InType /\ Pending \in Nat /\ conns \in Nat
      /\ (Connected => server # "none")
  BY TypeParts, PendingType, SizesAssumption DEF LinkType, LossInv
<1>1. CASE Connecting
  <2>1. CASE Open
    BY <1>0, <2>1 DEF Open, incoming, LinkType, Connected, Pending, Newlines
  <2>2. CASE Connect
    BY <1>0, <2>2 DEF Connect, LinkType, Connected, Pending
  <2>3. CASE ConnectFails
    BY <1>0, <2>3 DEF ConnectFails, Close, LinkType, Connected, Pending
  <2> QED
    BY <1>1, <2>1, <2>2, <2>3 DEF Connecting
<1>2. CASE ReadByte
  <2>1. /\ inbox \in Seq(Byte) /\ inbox # <<>> /\ inbox' = Tail(inbox) /\ Connected
        /\ UNCHANGED <<server, conns>>
        /\ pc' = (IF Head(inbox) = "nl" THEN Behind ELSE pc)
    BY <1>0, <1>2 DEF ReadByte, InType, Reading, Connected
  <2>2. pc # "round" /\ Behind \in {"login", "round"}
    BY <1>2 DEF ReadByte, Reading, Behind
  <2>3. Newlines(inbox) = Newlines(inbox') + (IF Head(inbox) = "nl" THEN 1 ELSE 0)
    BY <2>1, NewlinesTail
  <2>4. Newlines(inbox) \in Nat /\ Newlines(inbox') \in Nat
    BY <2>1, NewlinesType, HeadTailProperties
  <2>5. (IF pc' = "round" THEN 1 ELSE 0) <= (IF Head(inbox) = "nl" THEN 1 ELSE 0)
    BY <2>1, <2>2
  <2>6. Pending' <= Pending
    <3>1. Pending' = IF server = "done" THEN Newlines(inbox') + (IF pc' = "round" THEN 1 ELSE 0)
                                        ELSE 0
      BY <2>1 DEF Pending, Newlines
    <3>2. Pending = IF server = "done" THEN Newlines(inbox) ELSE 0
      BY <2>2, <2>4 DEF Pending
    <3> QED
      BY <2>3, <2>4, <2>5, <3>1, <3>2
  <2> QED
    BY <1>0, <2>1, <2>2, <2>6 DEF Connected
<1>3. CASE ReadTimeout
  <2>1. server = "up" /\ Reading
    BY <1>3 DEF ReadTimeout
  <2>2. CASE pc = "reading"
    BY <1>0, <1>3, <2>1, <2>2 DEF ReadTimeout, Connected, Pending
  <2>3. CASE pc # "reading"
    BY <1>0, <1>3, <2>1, <2>3 DEF ReadTimeout, Close, Connected, Pending
  <2> QED
    BY <2>2, <2>3
<1>4. CASE ReadEnd \/ ReadFails \/ LoginFails
  <2>1. pc' = "closed" /\ server' = "none" /\ conns' = conns
    BY <1>4 DEF ReadEnd, ReadFails, LoginFails, Close
  <2> QED
    BY <1>0, <2>1 DEF Connected, Pending
<1>5. CASE LoginByte \/ LoginDone \/ NoFrame
  <2>1. /\ UNCHANGED <<server, inbox, conns>> /\ Connected /\ Connected'
        /\ (pc' = "round" => pc = "round")
    BY <1>5 DEF LoginByte, LoginDone, NoFrame, incoming, Connected
  <2>2. Newlines(inbox) \in Nat /\ Newlines(inbox') = Newlines(inbox)
    BY <1>0, <2>1, NewlinesType DEF InType
  <2> QED
    BY <1>0, <2>1, <2>2 DEF Pending
<1>6. CASE \E b \in Byte : ByteArrives(b)
  BY <1>0, <1>6 DEF ByteArrives, Connected, Pending
<1>7. CASE UNCHANGED vars
  BY <1>0, <1>7 DEF vars, incoming, Connected, Pending, Newlines
<1> QED
  BY <1>1, <1>2, <1>3, <1>4, <1>5, <1>6, <1>7 DEF Quiet, Receiving

LEMMA LossStep ==
  TypeOK /\ LossInv /\ [DeliveryNext]_deliveryVars => LossInv'
<1> SUFFICES ASSUME TypeOK, LossInv, [DeliveryNext]_deliveryVars
             PROVE  LossInv'
  OBVIOUS
<1>0. /\ LinkType /\ InType /\ Pending \in Nat /\ Newlines(inbox) \in Nat
      /\ late \in Nat /\ allowed \in Nat
      /\ (Connected => server # "none")
      /\ late + Pending <= allowed
  BY TypeParts, PendingType, NewlinesType DEF InType, LossInv
<1>1. CASE Deliver
  <2>1. /\ pc = "round" /\ pc' = "reading" /\ UNCHANGED <<server, inbox, allowed>>
        /\ late' = IF server = "done" THEN late + 1 ELSE late
    BY <1>1 DEF Deliver, Give, SendFrame, incoming
  <2>2. Newlines(inbox') = Newlines(inbox)
    BY <2>1
  <2>3. server \in {"up", "done"}
    BY <1>0, <2>1 DEF LinkType, Connected
  <2>4. late' + Pending' <= allowed'
    BY <1>0, <2>1, <2>2, <2>3 DEF Pending
  <2> QED
    BY <1>0, <2>1, <2>3, <2>4 DEF LossInv, Connected
<1>2. CASE DeliveryFails
  <2>1. pc' = "closed" /\ server' = "none" /\ UNCHANGED <<late, allowed>>
    BY <1>2 DEF DeliveryFails, FrameFails, Close, fate
  <2> QED
    BY <1>0, <2>1 DEF LossInv, Connected, Pending
<1>3. CASE ConnectionEnds
  <2>1. /\ server' = "done" /\ UNCHANGED <<pc, inbox>> /\ server = "up"
        /\ UNCHANGED late /\ allowed' = allowed + Newlines(inbox) + 1
    BY <1>3 DEF ConnectionEnds, EndArrives, incoming
  <2>2. Newlines(inbox') = Newlines(inbox)
    BY <2>1
  <2>3. Pending' <= Newlines(inbox) + 1 /\ Pending' \in Nat
    BY <1>0, <2>1, <2>2 DEF Pending
  <2> QED
    BY <1>0, <2>1, <2>3 DEF LossInv, Connected
<1>4. CASE Quiet /\ [Next]_vars /\ UNCHANGED <<late, allowed>>
  <2>1. Pending' \in Nat
    <3>1. Newlines(inbox') \in Nat
      BY <1>0, <1>4, InTypeStep, NewlinesType DEF InType
    <3> QED
      BY <3>1 DEF Pending
  <2>2. (Connected' => server' # "none") /\ Pending' <= Pending
    BY <1>4, SocketLoss
  <2>3. late' + Pending' <= allowed'
    <3>1. late' = late /\ allowed' = allowed
      BY <1>4
    <3>2. late \in Nat /\ allowed \in Nat /\ Pending \in Nat /\ late + Pending <= allowed
      BY <1>0
    <3>3. Pending' <= Pending
      BY <2>2
    <3> QED
      BY ONLY <2>1, <3>1, <3>2, <3>3 DEF Pending
  <2> QED
    BY <1>0, <1>4, <2>2, <2>3 DEF LossInv
<1>5. [Next]_vars
  BY SocketSteps
<1> QED
  BY <1>1, <1>2, <1>3, <1>4, <1>5
  DEF DeliveryNext, DeliveryProgress, NothingToDeliver, Serve, Write, Disturb,
      deliveryVars, fate, Quiet, Connecting, Receiving

\* What was given last, and whether a connection may have skipped one since.
LastGift == IF given = <<>> THEN [conn |-> 1, message |-> 0] ELSE given[Len(given)]
Skipped == IF Connected THEN 0 ELSE 1

GapInv ==
  /\ \A i \in 1 .. Len(given) :
       given[i].message - Before(i).message <= 1 + given[i].conn - Before(i).conn
  /\ Len(passed) - LastGift.message <= conns - LastGift.conn + Skipped

\* Before(), of a sequence and a place that a step does not change.
BeforeIn(s, i) == IF i = 1 THEN [conn |-> 1, message |-> 0] ELSE s[i - 1]

LEMMA BeforeIs ==
  ASSUME NEW m
  PROVE  Before(m) = BeforeIn(given, m) /\ Before(m)' = BeforeIn(given', m)
BY DEF Before, BeforeIn

LEMMA LastGiftType ==
  ASSUME OrderInv
  PROVE  LastGift.conn \in Nat /\ LastGift.message \in Nat
<1>1. given \in Seq(Gift)
  BY DEF OrderInv
<1>2. CASE given = <<>>
  BY <1>2 DEF LastGift
<1>3. CASE given # <<>>
  <2>1. given[Len(given)] \in Gift
    BY <1>1, <1>3
  <2> QED
    BY <1>3, <2>1 DEF LastGift, Gift
<1> QED
  BY <1>2, <1>3

LEMMA GapStep ==
  TypeOK /\ LossInv /\ OrderInv /\ GapInv /\ [DeliveryNext]_deliveryVars => GapInv'
<1> SUFFICES ASSUME TypeOK, LossInv, OrderInv, GapInv, [DeliveryNext]_deliveryVars
             PROVE  GapInv'
  OBVIOUS
<1>0. /\ conns \in Nat /\ given \in Seq(Gift) /\ passed \in Seq(Nat)
      /\ Len(given) \in Nat /\ Len(passed) \in Nat
      /\ LastGift.conn \in Nat /\ LastGift.message \in Nat
      /\ Len(passed) - LastGift.message <= conns - LastGift.conn + Skipped
  BY LastGiftType, SizesAssumption DEF TypeOK, OrderInv, GapInv
<1>1. ASSUME Channel!Pass
      PROVE  Head(queue) = Len(passed) + 1 /\ Len(passed') = Len(passed) + 1
  BY <1>0, <1>1 DEF OrderInv, Channel!Pass
<1>2. CASE Deliver
  <2> DEFINE gift == [conn |-> conns, message |-> Head(queue)]
  <2>1. /\ Connected /\ Connected' /\ conns' = conns
        /\ given' = Append(given, gift) /\ gift.message = Len(passed) + 1
        /\ Len(passed') = Len(passed) + 1
    BY <1>1, <1>2 DEF Deliver, Give, SendFrame, Connected
  <2>2. gift \in Gift /\ gift.conn = conns
    BY <1>0, <1>1, <1>2 DEF Gift, Deliver
  <2> HIDE DEF gift
  <2>3. /\ given' \in Seq(Gift) /\ Len(given') = Len(given) + 1
        /\ \A i \in 1 .. Len(given) : given'[i] = given[i]
        /\ given'[Len(given) + 1] = gift
    BY <1>0, <2>1, <2>2
  <2> DEFINE n == Len(given) + 1
  <2>4. ASSUME NEW i \in 1 .. Len(given)
        PROVE  Before(i)' = Before(i)
    <3>1. i # 1 => i - 1 \in 1 .. Len(given)
      BY <1>0
    <3> QED
      BY <2>3, <3>1, BeforeIs DEF BeforeIn
  <2>5. BeforeIn(given', n) = LastGift
    <3>1. CASE given = <<>>
      BY <3>1 DEF BeforeIn, LastGift
    <3>2. CASE given # <<>>
      <4>1. Len(given) \in 1 .. Len(given) /\ n # 1 /\ n - 1 = Len(given)
        BY <1>0, <3>2
      <4> HIDE DEF n
      <4> QED
        BY <2>3, <3>2, <4>1 DEF BeforeIn, LastGift
    <3> QED
      BY <3>1, <3>2
  <2>6. LastGift' = gift
    BY <1>0, <2>3 DEF LastGift
  <2>7. ASSUME NEW i \in 1 .. Len(given')
        PROVE  (given[i].message - Before(i).message <= 1 + given[i].conn - Before(i).conn)'
    <3>1. CASE i \in 1 .. Len(given)
      BY <2>3, <2>4, <3>1 DEF GapInv
    <3>2. CASE i = n
      <4>1. gift.message - LastGift.message <= 1 + gift.conn - LastGift.conn
        BY <1>0, <2>1, <2>2 DEF Skipped
      <4>2. given'[i] = gift /\ Before(i)' = LastGift
        BY <2>3, <2>5, <3>2, BeforeIs
      <4> QED
        BY <4>1, <4>2
    <3> QED
      BY <1>0, <2>3, <3>1, <3>2
  <2>8. (Len(passed) - LastGift.message <= conns - LastGift.conn + Skipped)'
    BY <1>0, <2>1, <2>2, <2>6 DEF Skipped
  <2> QED
    BY <2>7, <2>8 DEF GapInv
<1>3. CASE DeliveryFails
  <2>1. /\ Connected /\ ~Connected' /\ conns' = conns /\ given' = given
        /\ Len(passed') = Len(passed) + 1
    BY <1>1, <1>3 DEF DeliveryFails, FrameFails, Close, Connected, fate
  <2>2. LastGift' = LastGift /\ \A i \in 1 .. Len(given) : Before(i)' = Before(i)
    BY <2>1 DEF LastGift, Before
  <2>3. (Len(passed) - LastGift.message <= conns - LastGift.conn + Skipped)'
    BY <1>0, <2>1, <2>2 DEF Skipped
  <2> QED
    BY <2>1, <2>2, <2>3 DEF GapInv
<1>4. CASE UNCHANGED <<passed, given>> /\ (Quiet \/ ConnectionEnds)
  <2>1. LastGift' = LastGift /\ \A i \in 1 .. Len(given) : Before(i)' = Before(i)
    BY <1>4 DEF LastGift, Before
  <2>2. (conns' = conns /\ (Connected' => Connected)) \/ conns' = conns + 1
    BY <1>4, SocketLoss DEF ConnectionEnds, EndArrives, Connected
  <2>3. (Len(passed) - LastGift.message <= conns - LastGift.conn + Skipped)'
    BY <1>0, <1>4, <2>1, <2>2 DEF Skipped
  <2> QED
    BY <1>4, <2>1, <2>3 DEF GapInv
<1>5. Write => UNCHANGED <<passed, given>> /\ UNCHANGED vars
  BY DEF Write, Channel!Accept, fate
<1>6. CASE Write \/ UNCHANGED deliveryVars
  BY <1>4, <1>5, <1>6 DEF Quiet, deliveryVars, channel, fate
<1>7. CASE NothingToDeliver \/ Serve \/ Disturb \/ ConnectionEnds
  BY <1>4, <1>7 DEF NothingToDeliver, Serve, Disturb, ConnectionEnds, channel, fate, Quiet,
                    Connecting, Receiving
<1> QED
  BY <1>2, <1>3, <1>6, <1>7 DEF DeliveryNext, DeliveryProgress

(* Whatever the order of the failures, no connection skips more than one   *)
(* message, its last, so that those it takes follow on each other, and     *)
(* once its end has reached this host it takes at most one more for each   *)
(* line still to be read and one (APRSWriterThread.cpp:110-127,            *)
(* TCPSocket.cpp:199-202).                                                 *)
THEOREM LossIsBounded == DeliverySpec => []LossBounded
<1>1. DeliveryInit => LossInv /\ GapInv
  BY DEF DeliveryInit, Init, Channel!Init, LossInv, GapInv, LastGift, Skipped, Connected,
         Pending
<1>2. TypeOK /\ LossInv /\ [DeliveryNext]_deliveryVars => LossInv'
  BY LossStep
<1>3. TypeOK /\ LossInv /\ OrderInv /\ GapInv /\ [DeliveryNext]_deliveryVars => GapInv'
  BY GapStep
<1>4. TypeOK /\ OrderInv /\ LossInv /\ GapInv => LossBounded
  <2> SUFFICES ASSUME TypeOK, OrderInv, LossInv, GapInv
               PROVE  LossBounded
    OBVIOUS
  <2>1. DOMAIN given = 1 .. Len(given)
    BY DEF OrderInv
  <2>2. late <= allowed
    BY TypeParts, PendingType DEF LossInv
  <2> QED
    BY <2>1, <2>2 DEF LossBounded, GapInv
<1> QED
  BY <1>1, <1>2, <1>3, <1>4, DeliveryUsesSockets, TypeCorrect, OrderHolds, PTL
  DEF DeliverySpec, Spec

=============================================================================
