----------------------------- MODULE BerProofs ------------------------------
(***************************************************************************)
(* Proofs about the transcoder of module Ber, for every set of inputs and  *)
(* every nesting limit: type correctness, containment in the enclosing     *)
(* definite objects, the bounds on recursion and work; then, that it reads *)
(* the grammar of BerReference and nothing else, and that its output is a  *)
(* fixed point.                                                            *)
(***************************************************************************)
EXTENDS Ber, BerReferenceProofs

(***************************************************************************)
(* The bytes ber2der writes.                                               *)
(***************************************************************************)

\* A length is written as bytes, in short and in long form.
LEMMA EncodeLengthType ==
  ASSUME NEW n \in Nat
  PROVE  encodeLength(n) \in Seq(Byte)
<1> DEFINE low(k) == (n \div k) % 256
<1>1. /\ low(16777216) \in Byte
      /\ low(65536) \in Byte
      /\ low(256) \in Byte
      /\ low(1) \in Byte
  BY DEF Byte
<1>2. lengthLength(n) \in 1 .. 4
  BY DEF lengthLength
<1>3. marshalLongLength(n) \in Seq(Byte)
  <2> DEFINE all == <<low(16777216), low(65536), low(256), low(1)>>
  <2>1. all \in Seq(Byte) /\ Len(all) = 4
    BY <1>1
  <2>2. marshalLongLength(n) = SubSeq(all, 5 - lengthLength(n), 4)
    BY DEF marshalLongLength
  <2>3. \A i \in 5 - lengthLength(n) .. 4 : all[i] \in Byte
    BY <1>2, <2>1
  <2> HIDE DEF all
  <2> QED BY <1>2, <2>2, <2>3, SubSeqProperties
<1>4. 128 + lengthLength(n) \in Byte
  BY <1>2 DEF Byte
<1>5. n < 128 => n \in Byte
  BY DEF Byte
<1> HIDE DEF low
<1> QED BY <1>3, <1>4, <1>5 DEF encodeLength

\* EncodeTo writes bytes when tag and content are bytes.
LEMMA EncodeToType ==
  ASSUME NEW t \in Seq(Byte), NEW c \in Seq(Byte)
  PROVE  EncodeTo(t, c) \in Seq(Byte)
<1>1. Len(c) \in Nat
  OBVIOUS
<1>2. encodeLength(Len(c)) \in Seq(Byte)
  BY <1>1, EncodeLengthType
<1> QED BY <1>2 DEF EncodeTo

\* A slice of the input is a string of bytes.
LEMMA SliceType ==
  ASSUME input \in Seq(Byte), NEW i \in Nat, NEW j \in Nat, j <= Len(input)
  PROVE  Slice(i, j) \in Seq(Byte)
<1>1. \A k \in i + 1 .. j : input[k] \in Byte
  OBVIOUS
<1> QED BY <1>1, SubSeqProperties DEF Slice

(***************************************************************************)
(* The header.                                                             *)
(***************************************************************************)

\* A tag that TagOK accepts ends inside the slice, before the length byte.
LEMMA TagEndBounds ==
  ASSUME NEW off \in Nat, NEW limit \in Nat, TagOK(off, limit)
  PROVE  /\ TagEnd(off, limit) \in Nat
         /\ off + 1 <= TagEnd(off, limit)
         /\ TagEnd(off, limit) < limit
<1>1. CASE HighTag(off)
  <2> DEFINE e == CHOOSE i \in (off + 1) .. (limit - 2) : EndsTag(off, i)
  <2>1. \E i \in (off + 1) .. (limit - 2) : EndsTag(off, i)
    BY <1>1 DEF TagOK
  <2>2. e \in (off + 1) .. (limit - 2)
    BY <2>1
  <2>3. TagEnd(off, limit) = 1 + e
    BY <1>1 DEF TagEnd
  <2> HIDE DEF e
  <2> QED BY <2>2, <2>3
<1>2. CASE ~HighTag(off)
  BY <1>2 DEF TagOK, TagEnd
<1> QED BY <1>1, <1>2

\* What stands in the input at an offset below its length is a byte.
LEMMA AtType ==
  ASSUME input \in Seq(Byte), NEW limit \in Nat, limit <= Len(input)
  PROVE  \A i \in Nat : i < limit => At(i) \in 0 .. 255
<1> SUFFICES ASSUME NEW i \in Nat, i < limit
             PROVE  At(i) \in 0 .. 255
  OBVIOUS
<1>1. i + 1 \in 1 .. Len(input)
  OBVIOUS
<1>2. input[i + 1] \in Byte
  BY <1>1, ElementOfSeq
<1> QED BY <1>2 DEF At, Byte

\* The number of bytes after the length byte is what LengthOK checked.
LEMMA LengthBytesBounds ==
  ASSUME NEW te \in Nat, NEW limit \in Nat, te < limit, At(te) \in 0 .. 255,
         LengthOK(te, limit)
  PROVE  LengthBytes(te) \in 0 .. 4 /\ te + 1 + LengthBytes(te) <= limit
<1>1. CASE At(te) > 128
  <2>1. At(te) % 128 \in Nat
    OBVIOUS
  <2>2. LengthBytes(te) = At(te) % 128
    BY <1>1 DEF LengthBytes
  <2>3. LengthBytes(te) <= 4 /\ te + 1 + LengthBytes(te) <= limit
    BY <1>1 DEF LengthOK
  <2> QED BY <2>1, <2>2, <2>3
<1>2. CASE ~(At(te) > 128)
  BY <1>2 DEF LengthBytes
<1> QED BY <1>1, <1>2

\* The value of an accepted length field is a natural number, and the field
\* ends inside the slice.
LEMMA LengthBounds ==
  ASSUME NEW te \in Nat, NEW limit \in Nat, te < limit,
         \A i \in Nat : i < limit => At(i) \in 0 .. 255,
         LengthOK(te, limit)
  PROVE  /\ Length(te) \in Nat
         /\ ContentStart(te) \in Nat
         /\ te + 1 <= ContentStart(te)
         /\ ContentStart(te) <= limit
<1>1. At(te) \in 0 .. 255
  OBVIOUS
<1>2. LengthBytes(te) \in 0 .. 4 /\ te + 1 + LengthBytes(te) <= limit
  BY <1>1, LengthBytesBounds
<1>3. ASSUME NEW j \in 0 .. 3 PROVE LengthDigit(te, j) \in Nat
  <2>1. CASE j < LengthBytes(te)
    <3> DEFINE i == te + LengthBytes(te) - j
    <3>1. i \in Nat /\ i < limit
      BY <1>2, <2>1
    <3>2. LengthDigit(te, j) = At(i)
      BY <2>1 DEF LengthDigit
    <3> HIDE DEF i
    <3>3. At(i) \in 0 .. 255
      BY <3>1
    <3> QED BY <3>2, <3>3
  <2>2. CASE ~(j < LengthBytes(te))
    BY <2>2 DEF LengthDigit
  <2> QED BY <2>1, <2>2
<1>4. Length(te) \in Nat
  <2>1. /\ LengthDigit(te, 0) \in Nat
        /\ LengthDigit(te, 1) \in Nat
        /\ LengthDigit(te, 2) \in Nat
        /\ LengthDigit(te, 3) \in Nat
    BY <1>3
  <2> QED BY <1>1, <2>1 DEF Length
<1> QED BY <1>2, <1>4 DEF ContentStart

\* An accepted header takes at least two bytes, and header and content are
\* inside the slice that readObject was given.
LEMMA HeaderBounds ==
  ASSUME input \in Seq(Byte), NEW off \in Nat, NEW limit \in Nat, limit <= Len(input),
         NEW depth \in Nat, HeaderOK(off, limit, depth)
  PROVE  LET te == TagEnd(off, limit)
         IN  /\ te \in Nat /\ te < limit
             /\ ContentStart(te) \in Nat /\ ContentEnd(te) \in Nat
             /\ off + 2 <= ContentStart(te)
             /\ ContentStart(te) <= ContentEnd(te)
             /\ ContentEnd(te) <= limit
<1> DEFINE te == TagEnd(off, limit)
<1>1. /\ TagOK(off, limit)
      /\ LengthOK(te, limit)
      /\ Length(te) <= limit - ContentStart(te)
  BY DEF HeaderOK
<1>2. te \in Nat /\ off + 1 <= te /\ te < limit
  BY <1>1, TagEndBounds
<1> HIDE DEF te
<1>3. /\ Length(te) \in Nat
      /\ ContentStart(te) \in Nat
      /\ te + 1 <= ContentStart(te)
      /\ ContentStart(te) <= limit
  <2>1. \A i \in Nat : i < limit => At(i) \in 0 .. 255
    BY AtType
  <2> QED BY <1>1, <1>2, <2>1, LengthBounds
<1>4. /\ te \in Nat /\ te < limit
      /\ ContentStart(te) \in Nat /\ ContentEnd(te) \in Nat
      /\ off + 2 <= ContentStart(te)
      /\ ContentStart(te) <= ContentEnd(te)
      /\ ContentEnd(te) <= limit
  BY <1>1, <1>2, <1>3 DEF ContentEnd
<1> QED BY <1>4 DEF te

(***************************************************************************)
(* The stack of open objects.                                              *)
(***************************************************************************)

\* The frames of stack s when the read position is off and the input has n
\* bytes: slices are nested, the position is inside all of them, and a
\* definite object reads from a slice that ends with its content.
Nested(s, off, n) ==
  \A i \in 1 .. Len(s) :
    /\ s[i].limit <= n
    /\ off <= s[i].limit
    /\ ~s[i].indefinite => s[i].limit = s[i].contentEnd
    /\ \A j \in i .. Len(s) : s[j].limit <= s[i].limit

\* Moving the position inside the innermost slice leaves it inside all.
LEMMA NestedAdvance ==
  ASSUME NEW s \in Seq(Frame), NEW n \in Nat, NEW off \in Nat, Nested(s, off, n),
         NEW off2 \in Nat, s # <<>> => off2 <= s[Len(s)].limit
  PROVE  Nested(s, off2, n)
<1> SUFFICES ASSUME NEW i \in 1 .. Len(s)
             PROVE  off2 <= s[i].limit
  BY DEF Nested
<1>1. Len(s) \in i .. Len(s) /\ s # <<>>
  OBVIOUS
<1>2. s[Len(s)].limit <= s[i].limit
  BY <1>1 DEF Nested
<1>3. s[i].limit \in Nat /\ s[Len(s)].limit \in Nat
  <2>1. s[i] \in Frame /\ s[Len(s)] \in Frame
    BY <1>1, ElementOfSeq
  <2> QED BY <2>1 DEF Frame
<1> QED BY <1>1, <1>2, <1>3

\* The stack of the callers.
LEMMA PopIs ==
  ASSUME NEW s \in Seq(Frame), s # <<>>
  PROVE  /\ Pop(s) \in Seq(Frame) /\ Len(s) \in Nat \ {0} /\ Len(Pop(s)) = Len(s) - 1
         /\ \A i \in 1 .. Len(s) - 1 : Pop(s)[i] = s[i]
<1>1. Len(s) \in Nat \ {0}
  OBVIOUS
<1> DEFINE m == Len(s) - 1
<1>2. \A i \in 1 .. Len(s) : s[i] \in Frame
  BY ElementOfSeq
<1>3. m \in Nat /\ Len(s) = m + 1
  BY <1>1
<1>4. Pop(s) = SubSeq(s, 1, m)
  BY DEF Pop
<1> HIDE DEF m, Frame
<1>5. /\ Pop(s) \in Seq(Frame)
      /\ Len(Pop(s)) = IF 1 <= m THEN m - 1 + 1 ELSE 0
      /\ \A i \in 1 .. m - 1 + 1 : Pop(s)[i] = s[1 + i - 1]
  <2>1. \A i \in 1 .. m : s[i] \in Frame
    BY <1>2, <1>3
  <2>2. 1 \in Int /\ m \in Int
    BY <1>3
  <2> QED BY ONLY <1>4, <2>1, <2>2, SubSeqProperties
<1>6. Len(Pop(s)) = m
  BY <1>3, <1>5
<1>7. \A i \in 1 .. m : Pop(s)[i] = s[i]
  <2> SUFFICES ASSUME NEW i \in 1 .. m PROVE Pop(s)[i] = s[i]
    OBVIOUS
  <2>1. i \in 1 .. m - 1 + 1 /\ 1 + i - 1 = i
    BY <1>3
  <2> QED BY <1>5, <2>1
<1> QED BY <1>1, <1>5, <1>6, <1>7 DEF m

\* Leaving the innermost object.
LEMMA NestedPop ==
  ASSUME NEW s \in Seq(Frame), s # <<>>, NEW n \in Nat, NEW off \in Nat, Nested(s, off, n)
  PROVE  /\ Pop(s) \in Seq(Frame)
         /\ Len(Pop(s)) = Len(s) - 1
         /\ Nested(Pop(s), off, n)
<1>1. /\ Pop(s) \in Seq(Frame)
      /\ Len(Pop(s)) = Len(s) - 1
      /\ \A i \in 1 .. Len(s) - 1 : Pop(s)[i] = s[i]
  BY PopIs
<1> QED BY <1>1 DEF Nested

\* Entering an object whose slice lies in the innermost one.
LEMMA NestedAppend ==
  ASSUME NEW s \in Seq(Frame), NEW n \in Nat, NEW off \in Nat, Nested(s, off, n),
         NEW f \in Frame, off <= f.limit, f.limit <= n,
         s # <<>> => f.limit <= s[Len(s)].limit,
         ~f.indefinite => f.limit = f.contentEnd
  PROVE  /\ Append(s, f) \in Seq(Frame)
         /\ Len(Append(s, f)) = Len(s) + 1
         /\ Nested(Append(s, f), off, n)
<1> DEFINE t == Append(s, f)
<1>1. /\ t \in Seq(Frame)
      /\ Len(t) = Len(s) + 1
      /\ t[Len(s) + 1] = f
      /\ \A i \in 1 .. Len(s) : t[i] = s[i]
  BY AppendProperties
<1> HIDE DEF t
<1>2. ASSUME NEW i \in 1 .. Len(s)
      PROVE  f.limit <= s[i].limit
  <2>1. s # <<>> /\ Len(s) \in i .. Len(s)
    OBVIOUS
  <2>2. s[Len(s)].limit <= s[i].limit
    BY <2>1 DEF Nested
  <2>3. s[i] \in Frame /\ s[Len(s)] \in Frame
    BY <2>1, ElementOfSeq
  <2>4. s[i].limit \in Nat /\ s[Len(s)].limit \in Nat /\ f.limit \in Nat
    BY <2>3 DEF Frame
  <2> QED BY <2>1, <2>2, <2>4
<1>3. ASSUME NEW i \in 1 .. Len(t)
      PROVE  /\ t[i].limit <= n
             /\ off <= t[i].limit
             /\ ~t[i].indefinite => t[i].limit = t[i].contentEnd
  BY <1>1 DEF Nested
<1>4. f.limit <= f.limit
  BY DEF Frame
<1>5. ASSUME NEW i \in 1 .. Len(t), NEW j \in i .. Len(t)
      PROVE  t[j].limit <= t[i].limit
  <2>1. CASE j = Len(s) + 1 /\ i = Len(s) + 1
    BY <1>1, <1>4, <2>1
  <2>2. CASE j = Len(s) + 1 /\ i # Len(s) + 1
    BY <1>1, <1>2, <2>2
  <2>3. CASE j # Len(s) + 1
    BY <1>1, <2>3 DEF Nested
  <2> QED BY <2>1, <2>2, <2>3
<1>6. Nested(t, off, n)
  BY <1>3, <1>5 DEF Nested
<1> QED BY <1>1, <1>6 DEF t

\* Writing to inner leaves the other fields of a frame as they are.
LEMMA FrameInner ==
  ASSUME NEW f \in Frame, NEW x \in Seq(Byte)
  PROVE  LET g == [f EXCEPT !.inner = x]
         IN  /\ g \in Frame
             /\ g.limit = f.limit
             /\ g.contentEnd = f.contentEnd
             /\ g.indefinite = f.indefinite
BY DEF Frame

\* Adding the DER of a child to the innermost frame.
LEMMA NestedInner ==
  ASSUME NEW s \in Seq(Frame), s # <<>>, NEW n \in Nat, NEW off \in Nat, Nested(s, off, n),
         NEW der \in Seq(Byte)
  PROVE  LET t == [s EXCEPT ![Len(s)].inner = @ \o der]
         IN  /\ t \in Seq(Frame)
             /\ Len(t) = Len(s)
             /\ Nested(t, off, n)
<1> DEFINE f == s[Len(s)]
           g == [f EXCEPT !.inner = @ \o der]
           t == [s EXCEPT ![Len(s)] = g]
<1>1. Len(s) \in 1 .. Len(s) /\ f \in Frame
  BY ElementOfSeq
<1>2. /\ g \in Frame
      /\ g.limit = f.limit
      /\ g.contentEnd = f.contentEnd
      /\ g.indefinite = f.indefinite
  <2>1. f.inner \o der \in Seq(Byte)
    <3>1. f.inner \in Seq(Byte)
      BY <1>1 DEF Frame
    <3> QED BY <3>1, ConcatProperties
  <2>2. g = [f EXCEPT !.inner = f.inner \o der]
    OBVIOUS
  <2> HIDE DEF f, g
  <2> QED BY <1>1, <2>1, <2>2, FrameInner
<1>3. t = [s EXCEPT ![Len(s)].inner = @ \o der]
  OBVIOUS
<1> HIDE DEF g
<1>4. /\ t \in Seq(Frame)
      /\ Len(t) = Len(s)
      /\ t[Len(s)] = g
      /\ \A i \in 1 .. Len(s) : i # Len(s) => t[i] = s[i]
  BY <1>1, <1>2, ExceptSeq
<1> HIDE DEF t
<1>5. \A i \in 1 .. Len(s) : /\ t[i].limit = s[i].limit
                             /\ t[i].contentEnd = s[i].contentEnd
                             /\ t[i].indefinite = s[i].indefinite
  BY <1>2, <1>4
<1>6. Nested(t, off, n)
  BY <1>4, <1>5 DEF Nested
<1> QED BY <1>3, <1>4, <1>6

(***************************************************************************)
(* The inductive invariant.  Containment and BoundedWork speak only of     *)
(* definite objects and of counters; what makes them inductive is that an  *)
(* indefinite object in between inherits the slice of the definite object  *)
(* around it (Nested), so that every header is checked against a limit     *)
(* inside all open objects.                                                *)
(***************************************************************************)

BerInv ==
  /\ TypeOK
  /\ offset <= Len(input)
  /\ Nested(stack, offset, Len(input))
  /\ Len(stack) <= MaxNestingDepth + 1
  /\ 2 * nodes <= offset
  /\ status = "done" => stack = <<>>

\* The slice the next call of readObject works on.
LEMMA LimitBounds ==
  ASSUME BerInv
  PROVE  /\ Limit \in Nat
         /\ offset <= Limit
         /\ Limit <= Len(input)
         /\ stack # <<>> => /\ Limit = stack[Len(stack)].limit
                            /\ Top = stack[Len(stack)]
                            /\ Top \in Frame
<1>1. CASE stack = <<>>
  BY <1>1 DEF BerInv, TypeOK, Limit
<1>2. CASE stack # <<>>
  <2>1. Len(stack) \in 1 .. Len(stack)
    BY <1>2 DEF BerInv, TypeOK
  <2>2. stack[Len(stack)] \in Frame
    BY <2>1, ElementOfSeq DEF BerInv, TypeOK
  <2>3. /\ stack[Len(stack)].limit <= Len(input)
        /\ offset <= stack[Len(stack)].limit
    BY <2>1 DEF BerInv, Nested
  <2>4. stack[Len(stack)].limit \in Nat
    BY <2>2 DEF Frame
  <2> QED BY <1>2, <2>2, <2>3, <2>4 DEF Limit, Top
<1> QED BY <1>1, <1>2

\* A return from readObject, to the callers in s.
LEMMA ReturnStep ==
  ASSUME NEW s \in Seq(Frame), NEW der \in Seq(Byte), NEW n \in Nat, NEW off \in Nat,
         Nested(s, off, n), status = "running", out \in Seq(Byte), Return(der, s)
  PROVE  /\ stack' \in Seq(Frame)
         /\ Len(stack') = Len(s)
         /\ Nested(stack', off, n)
         /\ status' \in {"running", "done", "error"}
         /\ out' \in Seq(Byte)
         /\ status' = "done" => stack' = <<>>
<1>1. CASE s = <<>>
  BY <1>1 DEF Return
<1>2. CASE s # <<>>
  <2>1. stack' = [s EXCEPT ![Len(s)].inner = @ \o der] /\ status' = status /\ out' = out
    BY <1>2 DEF Return
  <2>2. stack' \in Seq(Frame) /\ Len(stack') = Len(s) /\ Nested(stack', off, n)
    BY <1>2, <2>1, NestedInner
  <2> QED BY <2>1, <2>2
<1> QED BY <1>1, <1>2

\* The counters after an accepted header.
LEMMA CountersStep ==
  ASSUME NEW n \in Nat, NEW off \in Nat, NEW off2 \in Nat, 2 * n <= off, off + 2 <= off2
  PROVE  2 * (n + 1) <= off2
OBVIOUS

\* Reading a primitive object keeps the invariant: its content, copied whole,
\* ends inside the slice.
LEMMA ReadPrimitiveStep ==
  ASSUME BerInv, ReadPrimitive
  PROVE  BerInv'
<1> DEFINE te == TagEnd(offset, Limit)
           der == EncodeTo(Slice(offset, te), Slice(ContentStart(te), ContentEnd(te)))
<1>1. /\ input \in Seq(Byte) /\ offset \in Nat /\ stack \in Seq(Frame) /\ nodes \in Nat
      /\ out \in Seq(Byte) /\ pass \in {1, 2} /\ Len(stack) \in Nat /\ Len(input) \in Nat
  BY DEF BerInv, TypeOK
<1>2. /\ Limit \in Nat /\ offset <= Limit /\ Limit <= Len(input)
      /\ stack # <<>> => Limit = stack[Len(stack)].limit
  BY LimitBounds
<1>3. /\ status = "running" /\ HeaderOK(offset, Limit, Len(stack))
      /\ Return(der, stack) /\ offset' = ContentEnd(te) /\ nodes' = nodes + 1
      /\ input' = input /\ pass' = pass
  BY DEF ReadPrimitive
<1>4. /\ te \in Nat /\ te < Limit
      /\ ContentStart(te) \in Nat /\ ContentEnd(te) \in Nat
      /\ offset + 2 <= ContentStart(te)
      /\ ContentStart(te) <= ContentEnd(te)
      /\ ContentEnd(te) <= Limit
  BY <1>1, <1>2, <1>3, HeaderBounds
<1> HIDE DEF te
<1>5. der \in Seq(Byte)
  <2>1. te <= Len(input) /\ ContentEnd(te) <= Len(input)
    BY <1>1, <1>2, <1>4
  <2>2. Slice(offset, te) \in Seq(Byte)
    BY <1>1, <1>4, <2>1, SliceType
  <2>3. Slice(ContentStart(te), ContentEnd(te)) \in Seq(Byte)
    BY <1>1, <1>4, <2>1, SliceType
  <2> QED BY <2>2, <2>3, EncodeToType
<1> HIDE DEF der
<1>6. Nested(stack, offset', Len(input))
  BY <1>1, <1>2, <1>3, <1>4, NestedAdvance DEF BerInv
<1>7. /\ stack' \in Seq(Frame)
      /\ Len(stack') = Len(stack)
      /\ Nested(stack', offset', Len(input))
      /\ status' \in {"running", "done", "error"}
      /\ out' \in Seq(Byte)
      /\ status' = "done" => stack' = <<>>
  BY <1>1, <1>3, <1>4, <1>5, <1>6, ReturnStep
<1>8. 2 * nodes' <= offset'
  BY <1>1, <1>3, <1>4, CountersStep DEF BerInv
<1>9. offset' \in Nat /\ offset' <= Len(input) /\ nodes' \in Nat
  BY <1>1, <1>2, <1>3, <1>4
<1>10. Len(stack') <= MaxNestingDepth + 1
  BY <1>7 DEF BerInv
<1> QED BY <1>1, <1>3, <1>7, <1>8, <1>9, <1>10 DEF BerInv, TypeOK

\* Entering the content loop of a constructed object keeps the invariant: the
\* slice for its children is the remaining one, cut at contentEnd when definite.
LEMMA OpenConstructedStep ==
  ASSUME BerInv, OpenConstructed
  PROVE  BerInv'
<1> DEFINE te == TagEnd(offset, Limit)
           f == NewFrame(te)
<1>1. /\ input \in Seq(Byte) /\ offset \in Nat /\ stack \in Seq(Frame) /\ nodes \in Nat
      /\ out \in Seq(Byte) /\ pass \in {1, 2} /\ Len(stack) \in Nat /\ Len(input) \in Nat
  BY DEF BerInv, TypeOK
<1>2. /\ Limit \in Nat /\ offset <= Limit /\ Limit <= Len(input)
      /\ stack # <<>> => Limit = stack[Len(stack)].limit
  BY LimitBounds
<1>3. /\ status = "running" /\ HeaderOK(offset, Limit, Len(stack))
      /\ stack' = Append(stack, f) /\ offset' = ContentStart(te) /\ nodes' = nodes + 1
      /\ input' = input /\ status' = status /\ out' = out /\ pass' = pass
  BY DEF OpenConstructed
<1>4. /\ te \in Nat /\ te < Limit
      /\ ContentStart(te) \in Nat /\ ContentEnd(te) \in Nat
      /\ offset + 2 <= ContentStart(te)
      /\ ContentStart(te) <= ContentEnd(te)
      /\ ContentEnd(te) <= Limit
  BY <1>1, <1>2, <1>3, HeaderBounds
<1> HIDE DEF te
<1>5. Slice(offset, te) \in Seq(Byte)
  <2>1. te <= Len(input)
    BY <1>1, <1>2, <1>4
  <2> QED BY <1>1, <1>4, <2>1, SliceType
<1>6. /\ f \in Frame
      /\ f.limit = (IF Indefinite(te) THEN Limit ELSE ContentEnd(te))
      /\ ~f.indefinite => f.limit = f.contentEnd
  <2>1. f = [tagBytes   |-> Slice(offset, te),
             limit      |-> IF Indefinite(te) THEN Limit ELSE ContentEnd(te),
             contentEnd |-> ContentEnd(te),
             indefinite |-> Indefinite(te),
             inner      |-> <<>>]
    BY DEF NewFrame
  <2>2. Indefinite(te) \in BOOLEAN
    BY DEF Indefinite
  <2>3. (IF Indefinite(te) THEN Limit ELSE ContentEnd(te)) \in Nat
    BY <1>2, <1>4
  <2>4. <<>> \in Seq(Byte)
    OBVIOUS
  <2> HIDE DEF f
  <2>5. f \in Frame
    BY <1>4, <1>5, <2>1, <2>2, <2>3, <2>4 DEF Frame
  <2>6. f.limit = IF Indefinite(te) THEN Limit ELSE ContentEnd(te)
    BY <2>1
  <2>7. f.contentEnd = ContentEnd(te) /\ f.indefinite = Indefinite(te)
    BY <2>1
  <2> QED BY <2>5, <2>6, <2>7
<1> HIDE DEF f
<1>7. offset' <= f.limit /\ f.limit <= Limit /\ f.limit <= Len(input)
  BY <1>1, <1>2, <1>3, <1>4, <1>6
<1>8. Nested(stack, offset', Len(input))
  <2>1. stack # <<>> => ContentStart(te) <= stack[Len(stack)].limit
    BY <1>2, <1>4
  <2> QED BY <1>1, <1>3, <1>4, <2>1, NestedAdvance DEF BerInv
<1>9. /\ stack' \in Seq(Frame)
      /\ Len(stack') = Len(stack) + 1
      /\ Nested(stack', offset', Len(input))
  <2>1. stack # <<>> => f.limit <= stack[Len(stack)].limit
    BY <1>2, <1>7
  <2> QED BY <1>1, <1>3, <1>4, <1>6, <1>7, <1>8, <2>1, NestedAppend
<1>10. Len(stack') <= MaxNestingDepth + 1
  <2>1. Len(stack) <= MaxNestingDepth
    BY <1>3 DEF HeaderOK
  <2> QED BY <1>1, <1>9, <2>1, BerAssumption
<1>11. 2 * nodes' <= offset'
  BY <1>1, <1>3, <1>4, CountersStep DEF BerInv
<1>12. offset' \in Nat /\ offset' <= Len(input) /\ nodes' \in Nat
  BY <1>1, <1>2, <1>3, <1>4
<1> QED BY <1>1, <1>3, <1>9, <1>10, <1>11, <1>12 DEF BerInv, TypeOK

\* The frame that a return removes, and the position it leaves behind.
LEMMA CloseStep ==
  ASSUME BerInv, stack # <<>>, status = "running",
         Return(EncodeTo(Top.tagBytes, Top.inner), Pop(stack)),
         offset' \in Nat, offset <= offset', offset' <= Top.limit,
         input' = input, nodes' = nodes, pass' = pass
  PROVE  BerInv'
<1>1. /\ input \in Seq(Byte) /\ offset \in Nat /\ stack \in Seq(Frame) /\ nodes \in Nat
      /\ out \in Seq(Byte) /\ pass \in {1, 2} /\ Len(stack) \in Nat /\ Len(input) \in Nat
  BY DEF BerInv, TypeOK
<1>2. /\ Limit \in Nat /\ Limit <= Len(input)
      /\ Limit = stack[Len(stack)].limit /\ Top = stack[Len(stack)] /\ Top \in Frame
  BY LimitBounds
<1>3. EncodeTo(Top.tagBytes, Top.inner) \in Seq(Byte)
  <2>1. Top.tagBytes \in Seq(Byte) /\ Top.inner \in Seq(Byte)
    BY <1>2 DEF Frame
  <2> QED BY <2>1, EncodeToType
<1>4. Nested(stack, offset', Len(input))
  BY <1>1, <1>2, NestedAdvance DEF BerInv
<1>5. /\ Pop(stack) \in Seq(Frame)
      /\ Len(Pop(stack)) = Len(stack) - 1
      /\ Nested(Pop(stack), offset', Len(input))
  BY <1>1, <1>4, NestedPop
<1>6. /\ stack' \in Seq(Frame)
      /\ Len(stack') = Len(stack) - 1
      /\ Nested(stack', offset', Len(input))
      /\ status' \in {"running", "done", "error"}
      /\ out' \in Seq(Byte)
      /\ status' = "done" => stack' = <<>>
  BY <1>1, <1>3, <1>5, ReturnStep
<1>7. Len(stack') <= MaxNestingDepth + 1
  BY <1>1, <1>6, BerAssumption DEF BerInv
<1>8. 2 * nodes' <= offset'
  BY <1>1 DEF BerInv
<1>9. offset' <= Len(input)
  BY <1>1, <1>2
<1> QED BY <1>1, <1>6, <1>7, <1>8, <1>9 DEF BerInv, TypeOK

\* Leaving the loop of a definite object keeps the invariant: the position is
\* exactly at contentEnd.
LEMMA CloseDefiniteStep ==
  ASSUME BerInv, CloseDefinite
  PROVE  BerInv'
<1>1. stack # <<>> /\ ~Top.indefinite /\ offset >= Top.contentEnd /\ offset' = Top.contentEnd
  BY DEF CloseDefinite
<1>2. Top = stack[Len(stack)] /\ Top \in Frame
  BY <1>1, LimitBounds
<1>3. Len(stack) \in 1 .. Len(stack)
  BY <1>1 DEF BerInv, TypeOK
<1>4. offset <= Top.limit /\ Top.limit = Top.contentEnd
  BY <1>1, <1>2, <1>3 DEF BerInv, Nested
<1>5. Top.limit \in Nat /\ Top.contentEnd \in Nat /\ offset \in Nat
  BY <1>2 DEF Frame, BerInv, TypeOK
<1>6. offset' \in Nat /\ offset <= offset' /\ offset' <= Top.limit
  BY <1>1, <1>4, <1>5
<1> QED BY <1>1, <1>6, CloseStep DEF CloseDefinite

\* Leaving the loop of an indefinite object keeps the invariant: the marker it
\* skips is inside the slice.
LEMMA CloseIndefiniteStep ==
  ASSUME BerInv, CloseIndefinite
  PROVE  BerInv'
<1>1. stack # <<>> /\ ~(Top.limit - offset < 2) /\ offset' = offset + 2
  BY DEF CloseIndefinite, NoRoomForTermination
<1>2. Top \in Frame
  BY <1>1, LimitBounds
<1>3. Top.limit \in Nat /\ offset \in Nat
  BY <1>2 DEF Frame, BerInv, TypeOK
<1>4. offset' \in Nat /\ offset <= offset' /\ offset' <= Top.limit
  BY <1>1, <1>3
<1> QED BY <1>1, <1>4, CloseStep DEF CloseIndefinite

\* ber2der starts in the invariant.
LEMMA BerInit ==
  ASSUME Init
  PROVE  BerInv
<1>1. input \in Seq(Byte)
  BY BerAssumption DEF Init
<1>2. stack \in Seq(Frame) /\ out \in Seq(Byte) /\ Len(stack) = 0
  BY DEF Init
<1>3. Nested(stack, offset, Len(input))
  BY <1>2 DEF Nested
<1>4. offset <= Len(input) /\ Len(stack) <= MaxNestingDepth + 1 /\ 2 * nodes <= offset
  BY <1>1, <1>2, BerAssumption DEF Init
<1> QED BY <1>1, <1>2, <1>3, <1>4 DEF Init, BerInv, TypeOK

\* Every step of readObject, and the second call of ber2der, keep it.
LEMMA BerStep ==
  ASSUME BerInv, [Next]_vars
  PROVE  BerInv'
<1>1. CASE ReadPrimitive
  BY <1>1, ReadPrimitiveStep
<1>2. CASE OpenConstructed
  BY <1>2, OpenConstructedStep
<1>3. CASE RejectHeader
  <2>1. /\ status' = "error"
        /\ UNCHANGED <<input, offset, stack, nodes, out, pass>>
    BY <1>3 DEF RejectHeader
  <2> QED BY <2>1 DEF BerInv, TypeOK, Nested
<1>4. CASE RejectUnterminated
  <2>1. /\ status' = "error"
        /\ UNCHANGED <<input, offset, stack, nodes, out, pass>>
    BY <1>4 DEF RejectUnterminated
  <2> QED BY <2>1 DEF BerInv, TypeOK, Nested
<1>5. CASE CloseDefinite
  BY <1>5, CloseDefiniteStep
<1>6. CASE CloseIndefinite
  BY <1>6, CloseIndefiniteStep
<1>7. CASE TranscodeAgain
  <2>1. /\ status = "done" /\ input' = out /\ offset' = 0 /\ nodes' = 0
        /\ status' = "running" /\ out' = <<>> /\ pass' = 2 /\ stack' = stack
    BY <1>7 DEF TranscodeAgain
  <2>2. stack' = <<>> /\ input' \in Seq(Byte)
    BY <2>1 DEF BerInv, TypeOK
  <2>3. Nested(stack', offset', Len(input'))
    BY <2>2 DEF Nested
  <2>4. offset' <= Len(input') /\ Len(stack') <= MaxNestingDepth + 1 /\ 2 * nodes' <= offset'
    BY <2>1, <2>2, BerAssumption
  <2> QED BY <2>1, <2>2, <2>3, <2>4 DEF BerInv, TypeOK
<1>8. CASE Returned \/ UNCHANGED vars
  <2>1. UNCHANGED <<input, offset, stack, nodes, status, out, pass>>
    BY <1>8 DEF Returned, vars
  <2> QED BY <2>1 DEF BerInv, TypeOK, Nested
<1> QED BY <1>1, <1>2, <1>3, <1>4, <1>5, <1>6, <1>7, <1>8 DEF Next

\* The invariant holds in every state of every run of ber2der.
THEOREM BerInvariant == Spec => []BerInv
<1>1. Init => BerInv
  BY BerInit
<1>2. BerInv /\ [Next]_vars => BerInv'
  BY BerStep
<1> QED BY <1>1, <1>2, PTL DEF Spec

(***************************************************************************)
(* The theorems.                                                           *)
(***************************************************************************)

\* Whatever bytes ber2der is called with, its variables keep their types; in
\* particular what it writes is a string of bytes.
THEOREM TypeCorrect == Spec => []TypeOK
<1>1. BerInv => TypeOK
  BY DEF BerInv
<1> QED BY <1>1, BerInvariant, PTL

\* readObject never reads beyond the content of a definite-length object that
\* is still open, at any depth and through any indefinite-length objects.
THEOREM ContainmentHolds == Spec => []Containment
<1>1. ASSUME BerInv PROVE Containment
  <2>1. \A i \in 1 .. Len(stack) :
          ~stack[i].indefinite =>
            /\ offset <= stack[i].contentEnd
            /\ \A j \in 1 .. Len(stack) :
                 i < j /\ ~stack[j].indefinite => stack[j].contentEnd <= stack[i].contentEnd
    <3> SUFFICES ASSUME NEW i \in 1 .. Len(stack), ~stack[i].indefinite
                 PROVE  /\ offset <= stack[i].contentEnd
                        /\ \A j \in 1 .. Len(stack) :
                             i < j /\ ~stack[j].indefinite =>
                               stack[j].contentEnd <= stack[i].contentEnd
      OBVIOUS
    <3>1. offset <= stack[i].contentEnd /\ stack[i].limit = stack[i].contentEnd
      BY <1>1 DEF BerInv, Nested
    <3>2. ASSUME NEW j \in 1 .. Len(stack), i < j, ~stack[j].indefinite
          PROVE  stack[j].contentEnd <= stack[i].contentEnd
      <4>1. j \in i .. Len(stack)
        BY <1>1, <3>2 DEF BerInv, TypeOK
      <4>2. stack[j].limit <= stack[i].limit /\ stack[j].limit = stack[j].contentEnd
        BY <1>1, <3>2, <4>1 DEF BerInv, Nested
      <4> QED BY <3>1, <4>2
    <3> QED BY <3>1, <3>2
  <2> QED BY <1>1, <2>1 DEF BerInv, Containment
<1> QED BY <1>1, BerInvariant, PTL

\* No input makes the recursion deeper than the limit or the work more than
\* linear: each object read has two bytes of the input for itself.
THEOREM BoundedWorkHolds == Spec => []BoundedWork
<1>1. BerInv => BoundedWork
  BY DEF BerInv, BoundedWork
<1> QED BY <1>1, BerInvariant, PTL

(***************************************************************************)
(* The reader and the grammar write the same bytes.                        *)
(***************************************************************************)

\* lengthLength is the number of bytes DER asks for ...
LEMMA LengthLengthIs ==
  ASSUME NEW n \in Nat, n >= 128
  PROVE  lengthLength(n) = DerBytes(n)
<1> DEFINE k == DerBytes(n)
<1>1. k \in 1 .. 4 /\ (k < 4 => n <= Largest[k]) /\ (k > 1 => n > Largest[k - 1])
  BY DerBytesRange
<1> HIDE DEF k
<1>2. k = 1 \/ k = 2 \/ k = 3 \/ k = 4
  BY <1>1, SMT
<1>3. k = 1 => n <= 255
  BY <1>1, LargestValues, SMT
<1>4. k = 2 => n > 255 /\ n <= 65535
  BY <1>1, LargestValues, SMT
<1>5. k = 3 => n > 65535 /\ n <= 16777215
  BY <1>1, LargestValues, SMT
<1>6. k = 4 => n > 16777215
  BY <1>1, LargestValues, SMT
<1>7. lengthLength(n) = k
  BY <1>2, <1>3, <1>4, <1>5, <1>6, SMT DEF lengthLength
<1> QED BY <1>7 DEF k

\* ... marshalLongLength writes them ...
LEMMA MarshalIs ==
  ASSUME NEW n \in Nat, lengthLength(n) \in 1 .. 4
  PROVE  marshalLongLength(n) = BigEndian(n, lengthLength(n))
<1> DEFINE low(d) == (n \div d) % 256
           all == <<low(16777216), low(65536), low(256), low(1)>>
           k == lengthLength(n)
           b == BigEndian(n, k)
<1>1. marshalLongLength(n) = SubSeq(all, 5 - k, 4)
  BY DEF marshalLongLength
<1>2. k \in 1 .. 4
  OBVIOUS
<1>3. \A m \in 1 .. 4 : all[m] = low(Place[5 - m]) /\ all[m] \in Byte
  BY PlaceValues, SMT DEF Byte
<1>4. all \in Seq(Byte) /\ Len(all) = 4
  <2>1. low(16777216) \in Byte /\ low(65536) \in Byte /\ low(256) \in Byte /\ low(1) \in Byte
    BY SMT DEF Byte
  <2> HIDE DEF low
  <2> QED BY <2>1, SMT
<1>5. /\ b \in Seq(Byte) /\ Len(b) = k
      /\ \A i \in 1 .. k : b[i] = (n \div Place[k + 1 - i]) % 256
  BY <1>2, BigEndianType, ZenonT(40)
<1> HIDE DEF k, b, all, low
<1>6. \A i \in 1 .. Len(b) : b[i] = all[5 - k + i - 1]
  <2> SUFFICES ASSUME NEW i \in 1 .. k PROVE b[i] = all[5 - k + i - 1]
    BY <1>5
  <2>1. 5 - k + i - 1 \in 1 .. 4 /\ 5 - (5 - k + i - 1) = k + 1 - i
    BY <1>2, SMT
  <2>2. all[5 - k + i - 1] = low(Place[5 - (5 - k + i - 1)])
    BY <1>3, <2>1, Zenon
  <2>3. all[5 - k + i - 1] = low(Place[k + 1 - i])
    BY <2>1, <2>2, Zenon
  <2>4. b[i] = (n \div Place[k + 1 - i]) % 256
    BY <1>5
  <2> QED BY <2>3, <2>4, Zenon DEF low
<1> DEFINE m == 5 - k
<1>7. m \in Nat \ {0} /\ 4 \in Nat /\ m <= 4 + 1 /\ 4 <= Len(all) /\ Len(b) = 4 + 1 - m
  BY <1>2, <1>4, <1>5, SMT
<1>8. \A i \in 1 .. Len(b) : b[i] = all[m + i - 1]
  BY <1>6
<1> HIDE DEF m
<1>9. SubSeq(all, m, 4) = b
  BY <1>4, <1>5, <1>7, <1>8, SubStringIs
<1> QED BY <1>1, <1>9 DEF k, b, m

\* ... encodeLength is the DER length ...
LEMMA EncodeLengthIs ==
  ASSUME NEW n \in Nat
  PROVE  encodeLength(n) = DerLength(n)
<1>1. CASE n >= 128
  <2>1. encodeLength(n) = <<128 + lengthLength(n)>> \o marshalLongLength(n)
    BY <1>1, Zenon DEF encodeLength
  <2>2. lengthLength(n) = DerBytes(n) /\ DerBytes(n) \in 1 .. 4
    BY <1>1, LengthLengthIs, DerBytesRange
  <2>3. marshalLongLength(n) = BigEndian(n, DerBytes(n))
    BY <2>2, MarshalIs
  <2>4. ~(n < 128)
    BY <1>1
  <2>5. DerLength(n) = <<128 + DerBytes(n)>> \o BigEndian(n, DerBytes(n))
    BY <2>4, DerLengthCases
  <2> QED BY <2>1, <2>2, <2>3, <2>5, Zenon
<1>2. CASE ~(n >= 128)
  <2>1. n < 128
    BY <1>2
  <2> QED BY <1>2, <2>1, Zenon DEF encodeLength, DerLength
<1> QED BY <1>1, <1>2

\* ... and EncodeTo the DER of an object.
LEMMA EncodeToIs ==
  ASSUME NEW t, NEW c \in Seq(Byte)
  PROVE  EncodeTo(t, c) = Encode(t, c)
<1>1. Len(c) \in Nat
  BY LenProperties
<1>2. encodeLength(Len(c)) = DerLength(Len(c))
  BY <1>1, EncodeLengthIs
<1> QED BY <1>2, Zenon DEF EncodeTo, Encode

(***************************************************************************)
(* Slices of the input.                                                    *)
(***************************************************************************)

\* The bytes of a slice are those of the input.
LEMMA SliceIs ==
  ASSUME input \in Seq(Byte), NEW p \in Nat, NEW q \in Nat, p <= q, q <= Len(input)
  PROVE  /\ Slice(p, q) \in Seq(Byte) /\ Len(Slice(p, q)) = q - p
         /\ \A i \in 1 .. q - p : Slice(p, q)[i] = At(p + i - 1)
<1>1. p + 1 \in Nat \ {0} /\ p + 1 <= q + 1 /\ q + 1 - (p + 1) = q - p
  OBVIOUS
<1>2. /\ Slice(p, q) \in Seq(Byte) /\ Len(Slice(p, q)) = q + 1 - (p + 1)
      /\ \A i \in 1 .. q + 1 - (p + 1) : Slice(p, q)[i] = input[p + 1 + i - 1]
  BY <1>1, SubString DEF Slice
<1>3. ASSUME NEW i \in 1 .. q - p
      PROVE  Slice(p, q)[i] = At(p + i - 1)
  <2>1. p + 1 + i - 1 = p + i - 1 + 1 /\ i \in 1 .. q + 1 - (p + 1)
    OBVIOUS
  <2>2. Slice(p, q)[i] = input[p + 1 + i - 1]
    BY <1>2, <2>1
  <2> QED BY <2>1, <2>2, Zenon DEF At
<1> QED BY <1>1, <1>2, <1>3

\* Cutting a slice is cutting the input.
LEMMA SliceOfSlice ==
  ASSUME input \in Seq(Byte), NEW p \in Nat, NEW q \in Nat, p <= q, q <= Len(input),
         NEW a \in Nat, NEW b \in Nat, p <= a, a <= b, b <= q
  PROVE  SubSeq(Slice(p, q), a - p + 1, b - p) = Slice(a, b)
<1> DEFINE s == Slice(p, q)
           t == Slice(a, b)
<1>1. /\ s \in Seq(Byte) /\ Len(s) = q - p
      /\ \A i \in 1 .. q - p : s[i] = At(p + i - 1)
  BY SliceIs
<1>2. b <= Len(input)
  BY LenProperties
<1>3. /\ t \in Seq(Byte) /\ Len(t) = b - a
      /\ \A i \in 1 .. b - a : t[i] = At(a + i - 1)
  BY <1>2, SliceIs
<1> HIDE DEF s, t
<1>4. /\ a - p + 1 \in Nat \ {0} /\ b - p \in Nat /\ a - p + 1 <= b - p + 1 /\ b - p <= Len(s)
      /\ Len(t) = b - p + 1 - (a - p + 1)
  BY <1>1, <1>3
<1>5. \A i \in 1 .. Len(t) : t[i] = s[a - p + 1 + i - 1]
  <2> SUFFICES ASSUME NEW i \in 1 .. b - a PROVE t[i] = s[a - p + 1 + i - 1]
    BY <1>3
  <2>1. a - p + 1 + i - 1 \in 1 .. q - p /\ p + (a - p + 1 + i - 1) - 1 = a + i - 1
    OBVIOUS
  <2>2. s[a - p + 1 + i - 1] = At(p + (a - p + 1 + i - 1) - 1)
    BY <1>1, <2>1
  <2>3. t[i] = At(a + i - 1)
    BY <1>3
  <2> QED BY <2>1, <2>2, <2>3, Zenon
<1>6. SubSeq(s, a - p + 1, b - p) = t
  BY <1>1, <1>3, <1>4, <1>5, SubStringIs
<1> QED BY <1>6 DEF s, t

(***************************************************************************)
(* The header: what the grammar can cut is what readObject finds.          *)
(***************************************************************************)

\* The same bytes, by their offset in the input.
LEMMA SliceBytes ==
  ASSUME input \in Seq(Byte), NEW p \in Nat, NEW q \in Nat, p <= q, q <= Len(input)
  PROVE  \A j \in p .. q - 1 : /\ Slice(p, q)[j - p + 1] = At(j) /\ At(j) \in 0 .. 255
<1> SUFFICES ASSUME NEW j \in p .. q - 1
             PROVE  Slice(p, q)[j - p + 1] = At(j) /\ At(j) \in 0 .. 255
  OBVIOUS
<1>1. j - p + 1 \in 1 .. q - p /\ p + (j - p + 1) - 1 = j /\ j \in Nat /\ j < q
  OBVIOUS
<1>2. \A i \in 1 .. q - p : Slice(p, q)[i] = At(p + i - 1)
  BY SliceIs
<1>3. Slice(p, q)[j - p + 1] = At(p + (j - p + 1) - 1)
  BY <1>1, <1>2
<1>4. At(j) \in 0 .. 255
  BY <1>1, AtType
<1> QED BY <1>1, <1>3, <1>4

\* A byte has its top bit set or not.
LEMMA TopBit == \A a \in 0 .. 255 : ~(a < 128 /\ a >= 128)
OBVIOUS

\* Any way to cut a tag off is the one the reader finds.
LEMMA TagFound ==
  ASSUME input \in Seq(Byte), NEW p \in Nat, NEW te \in Nat, NEW limit \in Nat,
         p < te, te < limit, limit <= Len(input), IsTag(Slice(p, te))
  PROVE  TagOK(p, limit) /\ TagEnd(p, limit) = te
<1> DEFINE s == Slice(p, te)
<1>1. p <= te /\ te <= Len(input) /\ Len(input) \in Nat
  BY LenProperties
<1>2. Len(s) = te - p
  BY <1>1, SliceIs
<1>3. \A j \in p .. te - 1 : s[j - p + 1] = At(j) /\ At(j) \in 0 .. 255
  BY <1>1, SliceBytes
<1>4. IsTag(s)
  OBVIOUS
<1> HIDE DEF s
<1>5. s[1] = At(p)
  <2>1. p \in p .. te - 1 /\ p - p + 1 = 1
    OBVIOUS
  <2>2. s[p - p + 1] = At(p)
    BY <1>3, <2>1
  <2> QED BY <2>1, <2>2
<1>6. CASE ~HighTag(p)
  <2>1. s[1] % 32 # 31
    BY <1>5, <1>6, Zenon DEF HighTag
  <2>2. Len(s) = 1
    BY <1>4, <2>1, Zenon DEF IsTag
  <2>3. te = p + 1
    <3>1. te - p = 1
      BY <1>2, <2>2, Zenon
    <3> QED BY <3>1
  <2>4. TagOK(p, limit)
    BY <1>6, <2>3 DEF TagOK
  <2> QED BY <1>6, <2>3, <2>4 DEF TagEnd
<1>7. CASE HighTag(p)
  <2> DEFINE e == te - 1
  <2>1. ~(s[1] % 32 # 31)
    BY <1>5, <1>7, Zenon DEF HighTag
  <2>2. Len(s) >= 2 /\ s[Len(s)] < 128 /\ \A i \in 2 .. Len(s) - 1 : s[i] >= 128
    BY <1>4, <2>1, Zenon DEF IsTag
  <2>3. e \in (p + 1) .. (limit - 2) /\ e \in p .. te - 1 /\ e - p + 1 = Len(s)
    BY <1>2, <2>2
  <2>4. At(e) < 128
    BY <1>3, <2>2, <2>3
  <2>5. \A j \in (p + 1) .. (e - 1) : At(j) >= 128
    <3> SUFFICES ASSUME NEW j \in (p + 1) .. (e - 1) PROVE At(j) >= 128
      OBVIOUS
    <3>1. j \in p .. te - 1 /\ j - p + 1 \in 2 .. Len(s) - 1
      BY <1>2
    <3> QED BY <1>3, <2>2, <3>1
  <2>6. EndsTag(p, e)
    BY <2>4, <2>5 DEF EndsTag
  <2>7. ASSUME NEW i \in (p + 1) .. (limit - 2), EndsTag(p, i)
        PROVE  i = e
    <3>1. At(i) < 128 /\ \A j \in (p + 1) .. (i - 1) : At(j) >= 128
      BY <2>7 DEF EndsTag
    <3>2. At(i) \in 0 .. 255 /\ At(e) \in 0 .. 255
      <4>1. i \in Nat /\ i < limit /\ e \in Nat /\ e < limit
        BY <2>3
      <4> QED BY <4>1, AtType
    <3>3. ASSUME i < e PROVE FALSE
      <4>1. i \in (p + 1) .. (e - 1)
        BY <2>3, <3>3
      <4>2. At(i) >= 128
        BY <2>5, <4>1
      <4>3. ~(At(i) < 128 /\ At(i) >= 128)
        BY <3>2, TopBit, Zenon
      <4> QED BY <3>1, <4>2, <4>3, Zenon
    <3>4. ASSUME e < i PROVE FALSE
      <4>1. e \in (p + 1) .. (i - 1)
        BY <2>3, <3>4
      <4>2. At(e) >= 128
        BY <3>1, <4>1
      <4>3. ~(At(e) < 128 /\ At(e) >= 128)
        BY <3>2, TopBit, Zenon
      <4> QED BY <2>4, <4>2, <4>3, Zenon
    <3> QED BY <2>3, <3>3, <3>4
  <2> HIDE DEF e
  <2>8. TagOK(p, limit)
    <3>1. p + 1 < limit
      OBVIOUS
    <3> QED BY <2>3, <2>6, <3>1 DEF TagOK
  <2>9. (CHOOSE i \in (p + 1) .. (limit - 2) : EndsTag(p, i)) = e
    BY <2>3, <2>6, <2>7, Zenon
  <2>10. TagEnd(p, limit) = 1 + e
    BY <1>7, <2>9, Zenon DEF TagEnd
  <2> QED BY <2>8, <2>10 DEF e
<1> QED BY <1>6, <1>7

\* The tag the reader finds can be cut off.
LEMMA TagCut ==
  ASSUME input \in Seq(Byte), NEW p \in Nat, NEW limit \in Nat, limit <= Len(input),
         TagOK(p, limit)
  PROVE  IsTag(Slice(p, TagEnd(p, limit)))
<1> DEFINE te == TagEnd(p, limit)
           s == Slice(p, te)
<1>1. te \in Nat /\ p + 1 <= te /\ te < limit
  BY TagEndBounds
<1>2. p <= te /\ te <= Len(input) /\ Len(input) \in Nat
  BY <1>1, LenProperties
<1>3. te = TagEnd(p, limit)
  OBVIOUS
<1> HIDE DEF te
<1>4. Len(s) = te - p
  BY <1>1, <1>2, SliceIs
<1>5. \A j \in p .. te - 1 : s[j - p + 1] = At(j) /\ At(j) \in 0 .. 255
  BY <1>1, <1>2, SliceBytes
<1> HIDE DEF s
<1>6. s[1] = At(p)
  <2>1. p \in p .. te - 1 /\ p - p + 1 = 1
    BY <1>1
  <2>2. s[p - p + 1] = At(p)
    BY <1>5, <2>1
  <2> QED BY <2>1, <2>2
<1>7. CASE ~HighTag(p)
  <2>1. te = p + 1
    BY <1>3, <1>7 DEF TagEnd
  <2>2. Len(s) = 1
    BY <1>4, <2>1
  <2>3. s[1] % 32 # 31
    BY <1>6, <1>7, Zenon DEF HighTag
  <2>4. IsTag(s)
    BY <2>2, <2>3, Zenon DEF IsTag
  <2> QED BY <2>4, <1>3 DEF s
<1>8. CASE HighTag(p)
  <2> DEFINE e == CHOOSE i \in (p + 1) .. (limit - 2) : EndsTag(p, i)
  <2>1. \E i \in (p + 1) .. (limit - 2) : EndsTag(p, i)
    BY <1>8 DEF TagOK
  <2>2. e \in (p + 1) .. (limit - 2) /\ EndsTag(p, e)
    BY <2>1, Zenon
  <2>3. te = 1 + e
    BY <1>3, <1>8, Zenon DEF TagEnd
  <2> HIDE DEF e
  <2>4. Len(s) >= 2 /\ e \in p .. te - 1 /\ e - p + 1 = Len(s)
    BY <1>4, <2>2, <2>3
  <2>5. s[Len(s)] < 128
    BY <1>5, <2>2, <2>4 DEF EndsTag
  <2>6. ASSUME NEW i \in 2 .. Len(s) - 1 PROVE s[i] >= 128
    <3> DEFINE j == p + i - 1
    <3>4. i \in 2 .. te - p - 1
      BY <1>4
    <3>1. j \in p .. te - 1 /\ j - p + 1 = i /\ j \in (p + 1) .. (e - 1)
      BY <1>1, <2>2, <2>3, <3>4
    <3>2. At(j) >= 128
      BY <2>2, <3>1 DEF EndsTag
    <3>3. s[j - p + 1] = At(j)
      BY <1>5, <3>1
    <3> QED BY <3>1, <3>2, <3>3
  <2>7. ~(s[1] % 32 # 31)
    BY <1>6, <1>8, Zenon DEF HighTag
  <2>8. IsTag(s)
    BY <2>4, <2>5, <2>6, <2>7, Zenon DEF IsTag
  <2> QED BY <2>8, <1>3 DEF s
<1> QED BY <1>7, <1>8

\* The value of a length field, by its digits.
LEMMA LengthIs ==
  ASSUME NEW te, ~(At(te) < 128),
         LengthDigit(te, 0) \in Byte, LengthDigit(te, 1) \in Byte,
         LengthDigit(te, 2) \in Byte, LengthDigit(te, 3) \in Byte
  PROVE  Length(te) = Join(LengthDigit(te, 0),
                           Join(LengthDigit(te, 1), Join(LengthDigit(te, 2), LengthDigit(te, 3))))
<1> DEFINE a == LengthDigit(te, 0)
           b == LengthDigit(te, 1)
           c == LengthDigit(te, 2)
           d == LengthDigit(te, 3)
<1>1. ~(At(te) < 128) => Length(te) = a + 256 * b + 65536 * c + 16777216 * d
  BY SMT DEF Length
<1> HIDE DEF a, b, c, d
<1>2. a \in Byte /\ b \in Byte /\ c \in Byte /\ d \in Byte
  BY Zenon DEF a, b, c, d
<1>3. Join(a, Join(b, Join(c, d))) = a + 256 * b + 65536 * c + 16777216 * d
  BY ONLY <1>2, JoinIsSum, SMT
<1>4. Length(te) = Join(a, Join(b, Join(c, d)))
  <2>1. ~(At(te) < 128)
    OBVIOUS
  <2> QED BY ONLY <1>1, <1>3, <2>1, SMT
<1> QED BY <1>4, Zenon DEF a, b, c, d

\* What the long form of a length is, in the grammar.
IsLong(f, c, n, j) ==
  /\ f \in Seq(Byte) /\ Len(f) = 1 + j /\ f[1] = c
  /\ \A i \in 1 .. j : f[1 + i] = Digit(n, j - i)

\* A long length field is one of IsLong.
LEMMA LongForm ==
  ASSUME NEW n \in Nat, NEW j \in 1 .. 4, NEW c \in Byte,
         NEW f, f = <<c>> \o BigEndian(n, j)
  PROVE  IsLong(f, c, n, j)
<1> DEFINE g == <<c>>
           b == BigEndian(n, j)
<1>1. g \in Seq(Byte) /\ Len(g) = 1 /\ g[1] = c
  BY DEF Byte
<1>2. b \in Seq(Byte) /\ Len(b) = j /\ \A i \in 1 .. j : b[i] = Digit(n, j - i)
  BY BigEndianType, BigEndianDigits
<1>3. f = g \o b
  OBVIOUS
<1> HIDE DEF g, b
<1>4. /\ f \in Seq(Byte) /\ Len(f) = Len(g) + Len(b)
      /\ \A i \in 1 .. Len(g) + Len(b) : f[i] = IF i <= Len(g) THEN g[i] ELSE b[i - Len(g)]
  BY ONLY <1>1, <1>2, <1>3, ConcatProperties
<1>5. /\ f \in Seq(Byte) /\ Len(f) = 1 + j
      /\ \A i \in 1 .. 1 + j : f[i] = IF i <= 1 THEN g[i] ELSE b[i - 1]
  BY ONLY <1>1, <1>2, <1>4, Zenon
<1>6. f[1] = c
  <2>1. 1 \in 1 .. 1 + j /\ 1 <= 1
    OBVIOUS
  <2>2. f[1] = IF 1 <= 1 THEN g[1] ELSE b[1 - 1]
    BY ONLY <1>5, <2>1, Zenon
  <2>3. f[1] = g[1]
    BY ONLY <2>1, <2>2, Zenon
  <2> QED BY ONLY <1>1, <2>3
<1>7. ASSUME NEW i \in 1 .. j PROVE f[1 + i] = Digit(n, j - i)
  <2>1. 1 + i \in 1 .. 1 + j /\ ~(1 + i <= 1) /\ (1 + i) - 1 = i
    OBVIOUS
  <2>3. f[1 + i] = IF 1 + i <= 1 THEN g[1 + i] ELSE b[(1 + i) - 1]
    BY ONLY <1>5, <2>1, Zenon
  <2>2. f[1 + i] = b[(1 + i) - 1]
    BY ONLY <2>1, <2>3, Zenon
  <2> QED BY <1>2, <2>1, <2>2, Zenon
<1> QED BY <1>5, <1>6, <1>7 DEF IsLong

\* A number of j bytes has at most the largest value of j bytes.
LEMMA LargestGrows ==
  ASSUME NEW n \in Nat, NEW j \in 1 .. 4, n <= Largest[j]
  PROVE  /\ n <= Largest[4]
         /\ j = 1 => n <= Largest[1] 
         /\ j = 2 => n <= Largest[2]
         /\ j = 3 => n <= Largest[3]
BY LargestValues, SMT

\* readObject reads a length field at te that ends at e and is worth n.
Reads(te, limit, e, n) ==
  LengthOK(te, limit) /\ ~Indefinite(te) /\ ContentStart(te) = e /\ Length(te) = n

\* Any length field that the grammar can cut off is read, and ends where it was
\* cut.
LEMMA LengthFound ==
  ASSUME input \in Seq(Byte), NEW te \in Nat, NEW q \in Nat, NEW limit \in Nat, NEW k \in 1 .. 5,
         te + k <= q, q <= limit, limit <= Len(input),
         IsLength(Slice(te, te + k), q - (te + k))
  PROVE  Reads(te, limit, te + k, q - (te + k))
<1> DEFINE f == Slice(te, te + k)
           n == q - (te + k)
<1>1. n \in Nat /\ te + k \in Nat /\ te <= te + k /\ te + k <= Len(input) /\ Len(input) \in Nat
  BY LenProperties
<1>2. Len(f) = k
  <2>1. Len(f) = te + k - te
    BY <1>1, SliceIs
  <2> QED BY <2>1
<1>3. ASSUME NEW i \in 0 .. k - 1 PROVE f[1 + i] = At(te + i) /\ At(te + i) \in 0 .. 255
  <2>1. te + i \in te .. te + k - 1 /\ te + i - te + 1 = 1 + i
    OBVIOUS
  <2>2. f[te + i - te + 1] = At(te + i) /\ At(te + i) \in 0 .. 255
    BY <1>1, <2>1, SliceBytes, SMTT(20)
  <2> QED BY <2>1, <2>2
<1>4. f[1] = At(te) /\ At(te) \in 0 .. 255
  <2>1. 0 \in 0 .. k - 1 /\ 1 + 0 = 1 /\ te + 0 = te
    OBVIOUS
  <2>2. f[1 + 0] = At(te + 0) /\ At(te + 0) \in 0 .. 255
    BY <1>3, <2>1
  <2> QED BY <2>1, <2>2
<1>5. IsLength(f, n)
  OBVIOUS
<1>6. n = q - (te + k)
  OBVIOUS
<1> HIDE DEF f, n
<1>7. CASE n < 128 /\ f = <<n>>
  <2>1. k = 1 /\ At(te) = n
    BY <1>2, <1>4, <1>7
  <2>2. At(te) < 128 /\ ~(At(te) >= 128) /\ ~(At(te) > 128) /\ At(te) # 128
    <3>1. n < 128 /\ ~(n >= 128) /\ ~(n > 128) /\ n # 128
      BY ONLY <1>1, <1>7
    <3> QED BY ONLY <2>1, <3>1, Zenon
  <2>3. LengthBytes(te) = 0 /\ Length(te) = n /\ LengthOK(te, limit) /\ ~Indefinite(te)
    <3>1. LengthBytes(te) = 0
      BY ONLY <2>2, SMT DEF LengthBytes
    <3>2. Length(te) = At(te)
      BY ONLY <2>2, SMT DEF Length
    <3>3. LengthOK(te, limit)
      BY ONLY <2>2, SMT DEF LengthOK
    <3>4. ~Indefinite(te)
      BY ONLY <2>2, SMT DEF Indefinite
    <3> QED BY ONLY <2>1, <3>1, <3>2, <3>3, <3>4
  <2>4. ContentStart(te) = te + k
    BY <2>1, <2>3 DEF ContentStart
  <2>5. Reads(te, limit, te + k, n)
    BY <2>3, <2>4, Zenon DEF Reads
  <2> QED BY <1>6, <2>5, Zenon
<1>8. ASSUME NEW j \in 1 .. 4, n <= Largest[j], f = <<128 + j>> \o BigEndian(n, j),
             f[2] = 0 => j > 1 /\ f[3] >= 128
      PROVE  Reads(te, limit, te + k, n)
  <2>1. Len(f) = 1 + j /\ f[1] = 128 + j /\ \A i \in 1 .. j : f[1 + i] = Digit(n, j - i)
    <3>1. n \in Nat /\ f = <<128 + j>> \o BigEndian(n, j)
      BY <1>1, <1>8, Zenon
    <3>2. j \in 1 .. 4
      OBVIOUS
    <3> DEFINE c == 128 + j
    <3>3. c = 128 + j /\ c \in Byte /\ f = <<c>> \o BigEndian(n, j)
      BY <3>1 DEF Byte
    <3>5. c \in Byte /\ f = <<c>> \o BigEndian(n, j)
      BY <3>3
    <3> HIDE DEF c
    <3>4. IsLong(f, c, n, j)
      BY ONLY <3>1, <3>2, <3>5, LongForm, Zenon
    <3>6. Len(f) = 1 + j /\ f[1] = c /\ \A i \in 1 .. j : f[1 + i] = Digit(n, j - i)
      BY ONLY <3>4, Zenon DEF IsLong
    <3> QED BY ONLY <3>3, <3>6, Zenon
  <2>2. k = 1 + j
    BY <1>2, <2>1
  <2>3. ASSUME NEW i \in 1 .. j
        PROVE  At(te + i) = f[1 + i] /\ f[1 + i] = Digit(n, j - i) /\ At(te + i) \in 0 .. 255
    <3>1. i \in 0 .. k - 1
      BY <2>2
    <3> QED BY <1>3, <2>1, <3>1
  <2>4. At(te) = 128 + j
    BY <1>4, <2>1
  <2>5. LengthBytes(te) = j
    <3>1. At(te) > 128 /\ (128 + j) % 128 = j
      BY <2>4
    <3> QED BY <2>4, <3>1, Zenon DEF LengthBytes
  <2>6. n <= Largest[4] /\ (j = 1 => n <= Largest[1]) /\ (j = 2 => n <= Largest[2])
        /\ (j = 3 => n <= Largest[3])
    BY <1>1, <1>8, LargestGrows
  <2>7. /\ n = Join(Digit(n, 0), Join(Digit(n, 1), Join(Digit(n, 2), Digit(n, 3))))
        /\ Digit(n, 0) \in Byte /\ Digit(n, 1) \in Byte /\ Digit(n, 2) \in Byte
        /\ Digit(n, 3) \in Byte /\ Digit(n, 3) <= 127
        /\ n <= Largest[3] => Digit(n, 3) = 0
        /\ n <= Largest[2] => Digit(n, 2) = 0 /\ Digit(n, 3) = 0
        /\ n <= Largest[1] => Digit(n, 1) = 0 /\ Digit(n, 2) = 0 /\ Digit(n, 3) = 0
    BY <1>1, <2>6, DigitsJoin
  <2>8. ASSUME NEW i \in 0 .. 3 PROVE LengthDigit(te, i) = Digit(n, i)
    <3>1. CASE i < j
      <4>1. j - i \in 1 .. j /\ j - (j - i) = i /\ te + j - i = te + (j - i)
        BY <3>1
      <4>2. At(te + (j - i)) = Digit(n, j - (j - i))
        BY <2>3, <4>1
      <4>3. LengthDigit(te, i) = At(te + j - i)
        BY <2>5, <3>1, Zenon DEF LengthDigit
      <4> QED BY <4>1, <4>2, <4>3
    <3>2. CASE ~(i < j)
      <4>1. LengthDigit(te, i) = 0
        BY <2>5, <3>2, Zenon DEF LengthDigit
      <4>2. \/ j = 1 /\ (i = 1 \/ i = 2 \/ i = 3)
            \/ j = 2 /\ (i = 2 \/ i = 3)
            \/ j = 3 /\ i = 3
        BY <3>2
      <4>3. Digit(n, i) = 0
        BY <2>6, <2>7, <4>2, Zenon
      <4> QED BY <4>1, <4>3
    <3> QED BY <3>1, <3>2
  <2>9. 0 \in 0 .. 3 /\ 1 \in 0 .. 3 /\ 2 \in 0 .. 3 /\ 3 \in 0 .. 3
    OBVIOUS
  <2>10. /\ LengthDigit(te, 0) = Digit(n, 0) /\ LengthDigit(te, 1) = Digit(n, 1)
         /\ LengthDigit(te, 2) = Digit(n, 2) /\ LengthDigit(te, 3) = Digit(n, 3)
    BY <2>8, <2>9, Zenon
  <2>11. ~(At(te) < 128) /\ At(te) # 128
    BY <2>4
  <2>12. Length(te) = n
    <3>1. Length(te) = Join(LengthDigit(te, 0),
                            Join(LengthDigit(te, 1), Join(LengthDigit(te, 2), LengthDigit(te, 3))))
      BY <2>7, <2>10, <2>11, LengthIs, Zenon
    <3> QED BY <2>7, <2>10, <3>1, Zenon
  <2>13. ContentStart(te) = te + k
    BY <2>2, <2>5 DEF ContentStart
  <2>14. 1 \in 1 .. j
    OBVIOUS
  <2>15. te + 1 < limit /\ j <= 4 /\ te + 1 + j <= limit
    BY <2>2
  <2>16. j = 4 => At(te + 1) <= 127
    <3>1. At(te + 1) = Digit(n, j - 1)
      BY <2>3, <2>14
    <3>2. j = 4 => j - 1 = 3
      OBVIOUS
    <3> QED BY <2>7, <3>1, <3>2, Zenon
  <2>17. At(te + 1) = 0 => j # 1 /\ At(te + 2) > 127
    <3>1. At(te + 1) = f[1 + 1] /\ 1 + 1 = 2 /\ 1 + 2 = 3
      BY <2>3, <2>14
    <3>2. At(te + 1) = 0 => j > 1 /\ f[3] >= 128
      BY <1>8, <3>1
    <3>3. ASSUME j > 1, f[3] >= 128 PROVE j # 1 /\ At(te + 2) > 127
      <4>1. 2 \in 1 .. j
        BY <3>3
      <4>2. At(te + 2) = f[1 + 2] /\ At(te + 2) \in 0 .. 255
        BY <2>3, <4>1
      <4>3. At(te + 2) >= 128
        BY ONLY <3>1, <3>3, <4>2, Zenon
      <4>4. \A a \in 0 .. 255 : a >= 128 => a > 127
        OBVIOUS
      <4>5. j # 1
        BY ONLY <3>3, j \in 1 .. 4
      <4> QED BY ONLY <4>2, <4>3, <4>4, <4>5, Zenon
    <3> QED BY <3>2, <3>3
  <2>18. LengthOK(te, limit)
    BY <2>5, <2>15, <2>16, <2>17, Zenon DEF LengthOK
  <2>19. ~Indefinite(te)
    BY <2>11, Zenon DEF Indefinite
  <2> QED BY <2>12, <2>13, <2>18, <2>19, Zenon DEF Reads
<1> QED BY <1>5, <1>6, <1>7, <1>8, Zenon DEF IsLength

\* The bytes of a slice that starts at a length byte.
LEMMA FieldBytes ==
  ASSUME input \in Seq(Byte), NEW te \in Nat, NEW e \in Nat, te <= e, e <= Len(input)
  PROVE  /\ Slice(te, e) \in Seq(Byte) /\ Len(Slice(te, e)) = e - te
         /\ \A i \in 0 .. e - te - 1 :
              Slice(te, e)[1 + i] = At(te + i) /\ At(te + i) \in 0 .. 255
<1>1. Slice(te, e) \in Seq(Byte) /\ Len(Slice(te, e)) = e - te
  BY SliceIs
<1>2. ASSUME NEW i \in 0 .. e - te - 1
      PROVE  Slice(te, e)[1 + i] = At(te + i) /\ At(te + i) \in 0 .. 255
  <2>1. te + i \in te .. e - 1 /\ (te + i) - te + 1 = 1 + i
    OBVIOUS
  <2>2. \A j \in te .. e - 1 : Slice(te, e)[j - te + 1] = At(j) /\ At(j) \in 0 .. 255
    BY SliceBytes
  <2>3. Slice(te, e)[(te + i) - te + 1] = At(te + i) /\ At(te + i) \in 0 .. 255
    BY ONLY <2>1, <2>2, Zenon
  <2> QED BY <2>1, <2>3
<1> QED BY <1>1, <1>2

\* The digits that readObject puts together, of a length in the long form.
LEMMA LongLength ==
  ASSUME NEW te \in Nat, NEW limit \in Nat, te < limit,
         \A i \in Nat : i < limit => At(i) \in 0 .. 255,
         LengthOK(te, limit), At(te) > 128
  PROVE  /\ LengthBytes(te) \in 1 .. 4 /\ At(te) = 128 + LengthBytes(te)
         /\ Length(te) \in Nat /\ Length(te) <= Largest[LengthBytes(te)]
         /\ \A i \in 0 .. 3 : Digit(Length(te), i) = LengthDigit(te, i)
<1> DEFINE j == LengthBytes(te)
           n == Length(te)
           d(i) == LengthDigit(te, i)
<1>1. At(te) \in 0 .. 255
  OBVIOUS
<1>2. j \in 0 .. 4 /\ te + 1 + j <= limit
  BY <1>1, LengthBytesBounds
<1>3. j = At(te) % 128
  BY Zenon DEF LengthBytes
<1>4. j \in 1 .. 4 /\ At(te) = 128 + j
  <2>1. \A a \in 0 .. 255 : a > 128 => a % 128 # 0 /\ a = 128 + (a % 128)
    BY SMTT(20)
  <2>2. j # 0 /\ At(te) = 128 + j
    BY <1>1, <1>3, <2>1, ZenonT(30)
  <2> QED BY <1>2, <2>2
<1>5. j = 4 => At(te + 1) <= 127
  <2>1. At(te) >= 128
    BY <1>4
  <2> QED BY <2>1, Zenon DEF LengthOK
<1> HIDE DEF j
<1>6. \A i \in 0 .. 3 : /\ i < j => d(i) = At(te + j - i)
                        /\ ~(i < j) => d(i) = 0
  BY Zenon DEF LengthDigit, j
<1>7. ASSUME NEW i \in 0 .. 3 PROVE d(i) \in Byte
  <2>1. CASE i < j
    <3>1. te + j - i \in Nat /\ te + j - i < limit
      BY <1>2, <1>4, <2>1
    <3>2. At(te + j - i) \in 0 .. 255
      BY <3>1
    <3> QED BY <1>6, <2>1, <3>2 DEF Byte
  <2>2. CASE ~(i < j)
    <3>1. 0 \in Byte
      BY DEF Byte
    <3> QED BY <1>6, <2>2, <3>1
  <2> QED BY <2>1, <2>2
<1>8. d(0) \in Byte /\ d(1) \in Byte /\ d(2) \in Byte /\ d(3) \in Byte
  BY <1>7
<1>9. n = Join(d(0), Join(d(1), Join(d(2), d(3))))
  <2>1. ~(At(te) < 128)
    BY <1>4
  <2> QED BY <1>8, <2>1, LengthIs, Zenon
<1> HIDE DEF d, n
<1>10. n \in Nat /\ Digit(n, 0) = d(0) /\ Digit(n, 1) = d(1) /\ Digit(n, 2) = d(2)
       /\ Digit(n, 3) = d(3)
  BY <1>8, <1>9, JoinDigits
<1>11. /\ d(3) <= 127 => n <= Largest[4]
       /\ d(3) = 0 => n <= Largest[3]
       /\ d(3) = 0 /\ d(2) = 0 => n <= Largest[2]
       /\ d(3) = 0 /\ d(2) = 0 /\ d(1) = 0 => n <= Largest[1]
  BY <1>8, <1>9, JoinBounds
<1>12. n <= Largest[j]
  <2>1. CASE j = 4
    <3>1. 3 \in 0 .. 3 /\ 3 < j /\ te + j - 3 = te + 1
      BY <2>1
    <3>2. d(3) = At(te + 1)
      BY <1>6, <3>1
    <3>3. d(3) <= 127
      BY <1>5, <2>1, <3>2, Zenon
    <3> QED BY <1>11, <2>1, <3>3, Zenon
  <2>2. CASE j = 3
    <3>1. d(3) = 0
      BY <1>6, <2>2
    <3> QED BY <1>11, <2>2, <3>1, Zenon
  <2>3. CASE j = 2
    <3>1. d(3) = 0 /\ d(2) = 0
      BY <1>6, <2>3
    <3> QED BY <1>11, <2>3, <3>1, Zenon
  <2>4. CASE j = 1
    <3>1. d(3) = 0 /\ d(2) = 0 /\ d(1) = 0
      BY <1>6, <2>4
    <3> QED BY <1>11, <2>4, <3>1, Zenon
  <2>5. j = 1 \/ j = 2 \/ j = 3 \/ j = 4
    BY <1>4
  <2> QED BY <2>1, <2>2, <2>3, <2>4, <2>5
<1>13. ASSUME NEW i \in 0 .. 3 PROVE Digit(n, i) = d(i)
  <2>1. i = 0 \/ i = 1 \/ i = 2 \/ i = 3
    OBVIOUS
  <2> QED BY <1>10, <2>1, Zenon
<1> QED BY <1>4, <1>10, <1>12, <1>13, Zenon DEF j, n, d

\* The length field that readObject accepts can be cut off.
LEMMA LengthCut ==
  ASSUME input \in Seq(Byte), NEW te \in Nat, NEW limit \in Nat, te < limit, limit <= Len(input),
         LengthOK(te, limit), ~Indefinite(te)
  PROVE  /\ ContentStart(te) - te \in 1 .. 5
         /\ IsLength(Slice(te, ContentStart(te)), Length(te))
<1> DEFINE n == Length(te)
           e == ContentStart(te)
           f == Slice(te, e)
<1>1. \A i \in Nat : i < limit => At(i) \in 0 .. 255
  BY AtType
<1>2. n \in Nat /\ e \in Nat /\ te + 1 <= e /\ e <= limit
  BY <1>1, LengthBounds
<1>3. te <= e /\ e <= Len(input)
  BY <1>2, LenProperties
<1>4. /\ f \in Seq(Byte) /\ Len(f) = e - te
      /\ \A i \in 0 .. e - te - 1 : f[1 + i] = At(te + i) /\ At(te + i) \in 0 .. 255
  BY <1>2, <1>3, FieldBytes
<1> HIDE DEF f
<1>5. f[1] = At(te) /\ At(te) \in 0 .. 255
  <2>1. 0 \in 0 .. e - te - 1 /\ 1 + 0 = 1 /\ te + 0 = te
    BY <1>2
  <2> QED BY ONLY <1>4, <2>1
<1>6. CASE At(te) < 128
  <2>1. e = te + 1 /\ n = At(te)
    <3>1. ~(At(te) > 128)
      BY ONLY <1>5, <1>6
    <3>2. LengthBytes(te) = 0
      BY ONLY <3>1, SMT DEF LengthBytes
    <3>3. e = te + 1 + LengthBytes(te)
      BY Zenon DEF ContentStart
    <3>4. n = At(te)
      BY ONLY <1>6, SMT DEF Length
    <3> QED BY <3>2, <3>3, <3>4
  <2>2. Len(f) = 1
    BY <1>4, <2>1
  <2>3. f = <<n>>
    <3>1. <<n>> \in Seq(Byte) /\ Len(<<n>>) = 1 /\ <<n>>[1] = n
      BY <1>5, <2>1 DEF Byte
    <3>2. \A i \in 1 .. Len(f) : f[i] = <<n>>[i]
      BY <1>5, <2>1, <2>2, <3>1
    <3> QED BY <1>4, <2>2, <3>1, <3>2, SeqEqual
  <2>4. n < 128
    BY <1>6, <2>1
  <2>5. IsLength(f, n)
    BY <2>3, <2>4, Zenon DEF IsLength
  <2> QED BY <2>1, <2>5 DEF f
<1>7. CASE ~(At(te) < 128)
  <2> DEFINE j == LengthBytes(te)
             b == BigEndian(n, j)
             c == 128 + j
             g == <<c>> \o b
  <2>1. At(te) > 128
    <3>1. At(te) # 128
      BY Zenon DEF Indefinite
    <3> QED BY ONLY <1>5, <1>7, <3>1
  <2>2. /\ j \in 1 .. 4 /\ At(te) = c /\ n <= Largest[j]
        /\ \A i \in 0 .. 3 : Digit(n, i) = LengthDigit(te, i)
    BY <1>1, <2>1, LongLength
  <2>3. e = te + 1 + j
    BY DEF ContentStart
  <2>4. /\ At(te) >= 128 /\ LengthOK(te, limit)
        /\ At(te + 1) = 0 => j # 1 /\ At(te + 2) > 127
    <3>1. At(te) >= 128
      BY ONLY <2>1, <1>5
    <3> QED BY <2>1, <3>1, Zenon DEF LengthOK
  <2>5. \A i \in 1 .. j : LengthDigit(te, j - i) = At(te + i)
    <3> SUFFICES ASSUME NEW i \in 1 .. j PROVE LengthDigit(te, j - i) = At(te + i)
      OBVIOUS
    <3>1. j - i < j /\ te + j - (j - i) = te + i
      BY <2>2
    <3>2. LengthDigit(te, j - i) = At(te + j - (j - i))
      BY <3>1, Zenon DEF LengthDigit
    <3> QED BY <3>1, <3>2
  <2>6. c \in Byte
    BY <1>5, <2>2 DEF Byte
  <2> HIDE DEF j, c
  <2>7. g = <<c>> \o b
    OBVIOUS
  <2>8. IsLong(g, c, n, j)
    BY ONLY <1>2, <2>2, <2>6, <2>7, LongForm, Zenon
  <2>9. /\ g \in Seq(Byte) /\ Len(g) = 1 + j /\ g[1] = c
        /\ \A i \in 1 .. j : g[1 + i] = Digit(n, j - i)
    BY ONLY <2>8, Zenon DEF IsLong
  <2>10. c = 128 + j
    BY DEF c
  <2> HIDE DEF g
  <2>11. Len(f) = Len(g)
    BY <1>4, <2>2, <2>3, <2>9
  <2>12. \A i \in 1 .. Len(f) : f[i] = g[i]
    <3> SUFFICES ASSUME NEW i \in 1 .. 1 + j PROVE f[i] = g[i]
      BY <2>9, <2>11
    <3>1. CASE i = 1
      BY <1>5, <2>2, <2>9, <3>1, Zenon
    <3>2. CASE i # 1
      <4> DEFINE m == i - 1
      <4>1. m \in 1 .. j /\ 1 + m = i /\ m \in 0 .. e - te - 1 /\ j - m \in 0 .. 3
        BY <2>2, <2>3, <3>2
      <4> HIDE DEF m
      <4>2. f[1 + m] = At(te + m)
        BY <1>4, <4>1, Zenon
      <4>3. g[1 + m] = At(te + m)
        BY <2>2, <2>5, <2>9, <4>1, Zenon
      <4> QED BY <4>1, <4>2, <4>3, Zenon
    <3> QED BY <3>1, <3>2
  <2>13. f = g
    BY <1>4, <2>9, <2>11, <2>12, SeqEqual
  <2>14. f[2] = 0 => j > 1 /\ f[3] >= 128
    <3>1. 1 \in 0 .. e - te - 1 /\ 1 + 1 = 2 /\ 1 + 2 = 3
      BY <2>2, <2>3
    <3>2. f[2] = At(te + 1)
      BY <1>4, <3>1
    <3>3. ASSUME At(te + 1) = 0 PROVE j > 1 /\ f[3] >= 128
      <4>1. j > 1 /\ 2 \in 0 .. e - te - 1
        BY <2>2, <2>3, <2>4, <3>3
      <4>2. f[1 + 2] = At(te + 2) /\ At(te + 2) \in 0 .. 255
        BY <1>4, <4>1
      <4>3. At(te + 2) >= 128
        <5>1. At(te + 2) > 127
          BY ONLY <2>4, <3>3, Zenon
        <5> QED BY ONLY <4>2, <5>1
      <4> QED BY <3>1, <4>1, <4>2, <4>3
    <3> QED BY <3>2, <3>3
  <2>15. f = <<128 + j>> \o BigEndian(n, j)
    BY <2>10, <2>13 DEF g
  <2>16. IsLength(f, n)
    BY <2>2, <2>14, <2>15, Zenon DEF IsLength
  <2>17. e - te \in 1 .. 5
    BY <2>2, <2>3
  <2> QED BY <2>16, <2>17 DEF f
<1> QED BY <1>6, <1>7

(***************************************************************************)
(* The cuts of the grammar are the header that readObject finds, wherever  *)
(* its slice ends.                                                         *)
(***************************************************************************)

DefiniteAt(p, limit, q) ==
  LET te == TagEnd(p, limit)
  IN  TagOK(p, limit) /\ LengthOK(te, limit) /\ ~Indefinite(te) /\ q = ContentEnd(te)

IndefiniteAt(p, limit, q) ==
  LET te == TagEnd(p, limit)
  IN  /\ TagOK(p, limit) /\ LengthOK(te, limit) /\ Indefinite(te) /\ Constructed(p)
      /\ ContentStart(te) + 2 <= q /\ Slice(q - 2, q) = <<0, 0>>

\* Where the parts of an accepted header are.
LEMMA HeaderParts ==
  ASSUME input \in Seq(Byte), NEW p \in Nat, NEW limit \in Nat, limit <= Len(input),
         NEW te, te = TagEnd(p, limit), TagOK(p, limit), LengthOK(te, limit)
  PROVE  /\ te \in Nat /\ p + 1 <= te /\ te < limit
         /\ Length(te) \in Nat
         /\ ContentStart(te) \in Nat /\ te + 1 <= ContentStart(te) /\ ContentStart(te) <= limit
         /\ Indefinite(te) => ContentStart(te) = te + 1 /\ Length(te) = 0
<1>1. te \in Nat /\ p + 1 <= te /\ te < limit
  BY TagEndBounds
<1>2. \A i \in Nat : i < limit => At(i) \in 0 .. 255
  BY AtType
<1>3. /\ Length(te) \in Nat
      /\ ContentStart(te) \in Nat /\ te + 1 <= ContentStart(te) /\ ContentStart(te) <= limit
  BY <1>1, <1>2, LengthBounds
<1>4. ASSUME Indefinite(te)
      PROVE  ContentStart(te) = te + 1 /\ Length(te) = 0
  <2>1. At(te) = 128
    BY <1>4 DEF Indefinite
  <2>2. LengthBytes(te) = 0
    BY ONLY <2>1, SMT DEF LengthBytes
  <2>3. \A j \in {0, 1, 2, 3} : LengthDigit(te, j) = 0
    BY ONLY <2>2, SMT DEF LengthDigit
  <2>4. Length(te) = 0
    BY ONLY <2>1, <2>3, SMT DEF Length
  <2>5. ContentStart(te) = te + 1
    BY <1>1, <2>2 DEF ContentStart
  <2> QED BY <2>4, <2>5
<1> QED BY <1>1, <1>3, <1>4

\* A cut of the grammar is where readObject finds the tag and the length ...
LEMMA DefiniteCutFound ==
  ASSUME input \in Seq(Byte), NEW p \in Nat, NEW q \in Nat, NEW limit \in Nat,
         p <= q, q <= limit, limit <= Len(input), NEW cut \in DefiniteCuts(Slice(p, q))
  PROVE  /\ DefiniteAt(p, limit, q)
         /\ cut[1] = TagEnd(p, limit) - p
         /\ cut[2] = ContentStart(TagEnd(p, limit)) - TagEnd(p, limit)
<1> DEFINE s == Slice(p, q)
           c1 == cut[1]
           k == cut[2]
           te == p + c1
<1>1. q <= Len(input)
  BY LenProperties
<1>2. s \in Seq(Byte) /\ Len(s) = q - p
  BY <1>1, SliceIs
<1>3. c1 \in 1 .. Len(s) /\ k \in 1 .. 5 /\ c1 + k <= Len(s)
  BY <1>2, DefiniteShorter
<1>4. /\ IsTag(SubSeq(s, 1, c1))
      /\ IsLength(SubSeq(s, c1 + 1, c1 + k), Len(s) - (c1 + k))
  BY Zenon DEF DefiniteCuts
<1>5. c1 \in Nat /\ k \in Nat /\ te = p + c1
  BY <1>3
<1>16. \A a, b \in Nat : p <= a /\ a <= b /\ b <= q => SubSeq(s, a - p + 1, b - p) = Slice(a, b)
  BY <1>1, SliceOfSlice
<1> HIDE DEF s, k, c1, te
<1>6. /\ te \in Nat /\ p < te /\ p <= te /\ te < limit /\ te + k \in Nat /\ te <= te + k /\ te + k <= q
      /\ p - p + 1 = 1 /\ te - p = c1 /\ (te + k) - p = c1 + k /\ q - (te + k) = Len(s) - (c1 + k)
  BY <1>2, <1>3, <1>5
<1>7. SubSeq(s, p - p + 1, te - p) = Slice(p, te)
  <2>1. p <= p
    OBVIOUS
  <2>2. p <= te /\ te <= q
    BY <1>6
  <2> QED BY ONLY <1>16, <2>1, <2>2, <1>6, p \in Nat, Zenon
<1>8. SubSeq(s, te - p + 1, (te + k) - p) = Slice(te, te + k)
  BY ONLY <1>6, <1>16, Zenon
<1>9. IsTag(Slice(p, te))
  BY <1>4, <1>6, <1>7, Zenon
<1>10. IsLength(Slice(te, te + k), q - (te + k))
  BY <1>4, <1>6, <1>8, Zenon
<1>11. TagOK(p, limit) /\ TagEnd(p, limit) = te
  BY <1>6, <1>9, TagFound
<1>17. input \in Seq(Byte) /\ q \in Nat /\ limit \in Nat /\ q <= limit /\ limit <= Len(input)
  OBVIOUS
<1>12. /\ LengthOK(te, limit) /\ ~Indefinite(te)
       /\ ContentStart(te) = te + k /\ Length(te) = q - (te + k)
  <2>1. Reads(te, limit, te + k, q - (te + k))
    BY ONLY <1>3, <1>6, <1>10, <1>17, LengthFound, Zenon
  <2> QED BY <2>1, Zenon DEF Reads
<1>13. ContentEnd(te) = q /\ k = ContentStart(te) - te
  BY <1>5, <1>6, <1>12 DEF ContentEnd
<1>14. DefiniteAt(p, limit, q)
  BY <1>11, <1>12, <1>13, Zenon DEF DefiniteAt
<1>15. cut[1] = te - p
  BY <1>6 DEF c1
<1> QED BY <1>11, <1>13, <1>14, <1>15, Zenon DEF k

\* The end of a slice, as the grammar takes it.
LEMMA SliceTail ==
  ASSUME input \in Seq(Byte), NEW p \in Nat, NEW q \in Nat, p <= q, q <= Len(input),
         NEW a \in Nat, p <= a, a <= q
  PROVE  From(Slice(p, q), a - p + 1) = Slice(a, q)
<1> DEFINE s == Slice(p, q)
<1>1. Len(s) = q - p
  BY SliceIs
<1>2. SubSeq(s, a - p + 1, q - p) = Slice(a, q)
  BY SliceOfSlice
<1>3. From(s, a - p + 1) = SubSeq(s, a - p + 1, Len(s))
  BY Zenon DEF From
<1> QED BY <1>1, <1>2, <1>3, Zenon

\* ... of a definite and of an indefinite object.
LEMMA IndefiniteCutFound ==
  ASSUME input \in Seq(Byte), NEW p \in Nat, NEW q \in Nat, NEW limit \in Nat,
         p <= q, q <= limit, limit <= Len(input), NEW t \in IndefiniteCuts(Slice(p, q))
  PROVE  IndefiniteAt(p, limit, q) /\ t = TagEnd(p, limit) - p
<1> DEFINE s == Slice(p, q)
           te == p + t
<1>1. q <= Len(input)
  BY LenProperties
<1>2. s \in Seq(Byte) /\ Len(s) = q - p
  BY <1>1, SliceIs
<1>3. t \in 1 .. Len(s) - 3
  BY <1>2, IndefiniteShorter
<1>4. /\ IsTag(SubSeq(s, 1, t)) /\ IsConstructed(s) /\ s[t + 1] = 128
      /\ From(s, Len(s) - 1) = <<0, 0>>
  BY Zenon DEF IndefiniteCuts
<1>5. \A a, b \in Nat : p <= a /\ a <= b /\ b <= q => SubSeq(s, a - p + 1, b - p) = Slice(a, b)
  BY <1>1, SliceOfSlice
<1>6. \A a \in Nat : p <= a /\ a <= q => From(s, a - p + 1) = Slice(a, q)
  BY <1>1, SliceTail
<1>7. \A j \in p .. q - 1 : s[j - p + 1] = At(j) /\ At(j) \in 0 .. 255
  BY <1>1, SliceBytes
<1>8. /\ te \in Nat /\ p < te /\ p <= te /\ te <= q /\ te < limit
      /\ p - p + 1 = 1 /\ te - p = t /\ te - p + 1 = t + 1 /\ p <= p
      /\ te \in p .. q - 1 /\ p \in p .. q - 1
      /\ q - 2 \in Nat /\ p <= q - 2 /\ q - 2 <= q /\ (q - 2) - p + 1 = Len(s) - 1
      /\ te + 3 <= q
  BY <1>2, <1>3
<1> HIDE DEF s, te
<1>9. IsTag(Slice(p, te))
  <2>1. SubSeq(s, p - p + 1, te - p) = Slice(p, te)
    BY ONLY <1>5, <1>8, p \in Nat, Zenon
  <2> QED BY <1>4, <1>8, <2>1, Zenon
<1>10. TagOK(p, limit) /\ TagEnd(p, limit) = te
  BY <1>8, <1>9, TagFound
<1>11. At(te) = 128
  <2>1. s[te - p + 1] = At(te)
    BY ONLY <1>7, <1>8, Zenon
  <2> QED BY ONLY <1>4, <1>8, <2>1
<1>12. Constructed(p)
  <2>1. s[p - p + 1] = At(p)
    BY ONLY <1>7, <1>8, Zenon
  <2>2. s[1] = At(p)
    BY ONLY <1>8, <2>1, Zenon
  <2> QED BY <1>4, <2>2, Zenon DEF IsConstructed, Constructed
<1>13. Slice(q - 2, q) = <<0, 0>>
  <2>1. From(s, (q - 2) - p + 1) = Slice(q - 2, q)
    BY ONLY <1>6, <1>8, Zenon
  <2> QED BY <1>4, <1>8, <2>1, Zenon
<1>14. Indefinite(te)
  BY <1>11 DEF Indefinite
<1>15. LengthOK(te, limit)
  <2>1. te + 1 < limit /\ ~(At(te) > 128)
    BY <1>8, <1>11
  <2> QED BY <2>1, Zenon DEF LengthOK
<1>16. ContentStart(te) + 2 <= q
  <2>1. ContentStart(te) = te + 1
    BY <1>10, <1>14, <1>15, HeaderParts
  <2> QED BY <1>8, <2>1
<1>17. IndefiniteAt(p, limit, q)
  BY <1>10, <1>12, <1>13, <1>14, <1>15, <1>16, Zenon DEF IndefiniteAt
<1> QED BY <1>8, <1>10, <1>17, Zenon

\* What readObject finds is a cut of the grammar ...
LEMMA DefiniteCutMade ==
  ASSUME input \in Seq(Byte), NEW p \in Nat, NEW q \in Nat, NEW limit \in Nat,
         p <= q, q <= limit, limit <= Len(input), DefiniteAt(p, limit, q),
         NEW te, te = TagEnd(p, limit)
  PROVE  <<te - p, ContentStart(te) - te>> \in DefiniteCuts(Slice(p, q))
<1> DEFINE s == Slice(p, q)
           e == ContentStart(te)
<1>1. TagOK(p, limit) /\ LengthOK(te, limit) /\ ~Indefinite(te) /\ q = ContentEnd(te)
  BY Zenon DEF DefiniteAt
<1>2. /\ te \in Nat /\ p + 1 <= te /\ te < limit
      /\ Length(te) \in Nat
      /\ e \in Nat /\ te + 1 <= e /\ e <= limit
  BY <1>1, HeaderParts
<1>3. q = e + Length(te)
  BY <1>1, Zenon DEF ContentEnd
<1>4. q <= Len(input) /\ te <= q
  BY <1>2, <1>3, LenProperties
<1>5. s \in Seq(Byte) /\ Len(s) = q - p
  BY <1>4, SliceIs
<1>6. \A a, b \in Nat : p <= a /\ a <= b /\ b <= q => SubSeq(s, a - p + 1, b - p) = Slice(a, b)
  BY <1>4, SliceOfSlice
<1>7. IsTag(Slice(p, te))
  BY <1>1, TagCut
<1>8. e - te \in 1 .. 5 /\ IsLength(Slice(te, e), Length(te))
  BY <1>1, <1>2, LengthCut
<1> HIDE DEF s, e
<1> DEFINE c1 == te - p
           c2 == e - te
<1>9. /\ p - p + 1 = 1 /\ te - p = c1 /\ te - p + 1 = c1 + 1 /\ e - p = c1 + c2
      /\ p <= p /\ p <= te /\ te <= e /\ e <= q /\ te <= q
      /\ c1 \in 1 .. Len(s) /\ c2 \in 1 .. 5 /\ c1 + c2 <= Len(s)
      /\ Len(s) - (c1 + c2) = Length(te)
  <2>1. e - te \in 1 .. 5
    BY <1>8, Zenon
  <2>2. Length(te) \in Nat /\ te \in Nat /\ e \in Nat
    BY <1>2, Zenon
  <2>3. p <= p /\ p <= te /\ te <= e /\ e <= q /\ te <= q
    BY ONLY <1>2, <1>3, p \in Nat
  <2>4. c1 \in 1 .. Len(s) /\ c2 \in 1 .. 5 /\ c1 + c2 <= Len(s)
    BY ONLY <1>2, <2>1, <2>3, <1>5, p \in Nat, q \in Nat
  <2>5. Len(s) - (c1 + c2) = Length(te)
    BY ONLY <1>2, <1>3, <1>5, p \in Nat
  <2>6. p - p + 1 = 1 /\ te - p = c1 /\ te - p + 1 = c1 + 1 /\ e - p = c1 + c2
    BY ONLY <2>2, p \in Nat
  <2> QED BY <2>3, <2>4, <2>5, <2>6, Zenon
<1> HIDE DEF c1, c2
<1>10. SubSeq(s, 1, c1) = Slice(p, te)
  <2>1. SubSeq(s, p - p + 1, te - p) = Slice(p, te)
    BY ONLY <1>2, <1>6, <1>9, p \in Nat, Zenon
  <2> QED BY ONLY <1>9, <2>1, Zenon
<1>11. SubSeq(s, c1 + 1, c1 + c2) = Slice(te, e)
  <2>1. SubSeq(s, te - p + 1, e - p) = Slice(te, e)
    BY ONLY <1>2, <1>6, <1>9, p \in Nat, Zenon
  <2> QED BY ONLY <1>9, <2>1, Zenon
<1> DEFINE cut == <<c1, c2>>
<1>12. cut \in (1 .. Len(s)) \X (1 .. 5) /\ cut[1] = c1 /\ cut[2] = c2
  BY <1>9
<1> HIDE DEF cut
<1>13. cut \in DefiniteCuts(s)
  BY <1>7, <1>8, <1>9, <1>10, <1>11, <1>12, Zenon DEF DefiniteCuts
<1> QED BY <1>13, Zenon DEF cut, c1, c2, s, e

\* ... in a definite and in an indefinite object.
LEMMA IndefiniteCutMade ==
  ASSUME input \in Seq(Byte), NEW p \in Nat, NEW q \in Nat, NEW limit \in Nat,
         p <= q, q <= limit, limit <= Len(input), IndefiniteAt(p, limit, q),
         NEW te, te = TagEnd(p, limit)
  PROVE  te - p \in IndefiniteCuts(Slice(p, q))
<1> DEFINE s == Slice(p, q)
           t == te - p
<1>1. /\ TagOK(p, limit) /\ LengthOK(te, limit) /\ Indefinite(te) /\ Constructed(p)
      /\ ContentStart(te) + 2 <= q /\ Slice(q - 2, q) = <<0, 0>>
  BY Zenon DEF IndefiniteAt
<1>2. te \in Nat /\ p + 1 <= te /\ te < limit /\ ContentStart(te) = te + 1
  BY <1>1, HeaderParts
<1>3. q <= Len(input) /\ te <= q
  BY <1>1, <1>2, LenProperties
<1>4. s \in Seq(Byte) /\ Len(s) = q - p
  BY <1>3, SliceIs
<1>5. \A a, b \in Nat : p <= a /\ a <= b /\ b <= q => SubSeq(s, a - p + 1, b - p) = Slice(a, b)
  BY <1>3, SliceOfSlice
<1>6. \A a \in Nat : p <= a /\ a <= q => From(s, a - p + 1) = Slice(a, q)
  BY <1>3, SliceTail
<1>7. \A j \in p .. q - 1 : s[j - p + 1] = At(j) /\ At(j) \in 0 .. 255
  BY <1>3, SliceBytes
<1>8. IsTag(Slice(p, te))
  BY <1>1, TagCut
<1> HIDE DEF s
<1>9. /\ p - p + 1 = 1 /\ te - p = t /\ te - p + 1 = t + 1
      /\ p <= p /\ p <= te /\ te <= q
      /\ te \in p .. q - 1 /\ p \in p .. q - 1 /\ t \in 1 .. Len(s) - 3
      /\ q - 2 \in Nat /\ p <= q - 2 /\ q - 2 <= q /\ (q - 2) - p + 1 = Len(s) - 1
  BY <1>1, <1>2, <1>4, SMTT(20)
<1> HIDE DEF t
<1>10. SubSeq(s, 1, t) = Slice(p, te)
  <2>1. SubSeq(s, p - p + 1, te - p) = Slice(p, te)
    BY ONLY <1>2, <1>5, <1>9, p \in Nat, Zenon
  <2> QED BY ONLY <1>9, <2>1, Zenon
<1>11. s[t + 1] = 128
  <2>1. s[te - p + 1] = At(te)
    BY ONLY <1>7, <1>9, Zenon
  <2>2. At(te) = 128
    BY <1>1, Zenon DEF Indefinite
  <2> QED BY ONLY <1>9, <2>1, <2>2
<1>12. IsConstructed(s)
  <2>1. s[p - p + 1] = At(p)
    BY ONLY <1>7, <1>9, Zenon
  <2>2. s[1] = At(p)
    BY ONLY <1>9, <2>1, Zenon
  <2> QED BY <1>1, <2>2, Zenon DEF IsConstructed, Constructed
<1>13. From(s, Len(s) - 1) = <<0, 0>>
  <2>1. From(s, (q - 2) - p + 1) = Slice(q - 2, q)
    BY ONLY <1>6, <1>9, Zenon
  <2> QED BY <1>1, <1>9, <2>1, Zenon
<1>14. t \in IndefiniteCuts(s)
  BY <1>8, <1>9, <1>10, <1>11, <1>12, <1>13, Zenon DEF IndefiniteCuts
<1> QED BY <1>14, Zenon DEF t, s

(***************************************************************************)
(* Objects of the grammar at a position of the input.                      *)
(***************************************************************************)

\* The DER of what is at a .. b, the content of the object at p.
BodiesAt(p, a, b, l, i) ==
  IF Constructed(p) THEN Contents[PartOf(Slice(a, b), l - 1, i)] ELSE {Slice(a, b)}

\* y is the tag at p .. te and the DER of what is at a .. b.
BodyAt(p, te, a, b, l, i, y) ==
  \E x \in BodiesAt(p, a, b, l, i) : y = EncodeTo(Slice(p, te), x)

\* The encoding of a content is a string of bytes.
LEMMA ContentsBytes ==
  ASSUME NEW s \in Seq(Byte), NEW l \in Nat, NEW i \in BOOLEAN,
         NEW x \in Contents[PartOf(s, l, i)]
  PROVE  x \in Seq(Byte)
<1>1. PartOf(s, l, i) \in Part
  BY PartOfType
<1>2. Clean(PartOf(s, l, i), x)
  BY <1>1, ContentsClean
<1> QED BY <1>2 DEF Clean

Encodings(tag, X) == {Encode(tag, x) : x \in X}

\* The encodings of an object are those of its content, with tag and length.
LEMMA BodyIs ==
  ASSUME NEW p, NEW te, NEW a, NEW b, Slice(a, b) \in Seq(Byte),
         NEW l \in Nat \ {0}, NEW i \in BOOLEAN, NEW y
  PROVE  y \in Encodings(Slice(p, te), BodiesAt(p, a, b, l, i))
           <=> BodyAt(p, te, a, b, l, i, y)
<1>1. l - 1 \in Nat
  OBVIOUS
<1>2. ASSUME NEW x \in BodiesAt(p, a, b, l, i)
      PROVE  EncodeTo(Slice(p, te), x) = Encode(Slice(p, te), x)
  <2>1. x \in Contents[PartOf(Slice(a, b), l - 1, i)] => x \in Seq(Byte)
    BY <1>1, ContentsBytes
  <2>2. x \in Seq(Byte)
    BY <2>1, Zenon DEF BodiesAt
  <2> QED BY <2>2, EncodeToIs
<1> QED BY <1>2, Zenon DEF BodyAt, Encodings

\* SliceOfSlice for all parts of a slice.
LEMMA SubSlices ==
  ASSUME input \in Seq(Byte), NEW p \in Nat, NEW q \in Nat, p <= q, q <= Len(input)
  PROVE  \A a, b \in Nat : p <= a /\ a <= b /\ b <= q =>
           SubSeq(Slice(p, q), a - p + 1, b - p) = Slice(a, b)
BY SliceOfSlice, SMTT(20)

\* The first byte says whether the object is constructed.
LEMMA SliceHead ==
  ASSUME input \in Seq(Byte), NEW p \in Nat, NEW q \in Nat, p < q, q <= Len(input)
  PROVE  IsConstructed(Slice(p, q)) <=> Constructed(p)
<1>1. \A j \in p .. q - 1 : Slice(p, q)[j - p + 1] = At(j) /\ At(j) \in 0 .. 255
  <2>1. p <= q
    OBVIOUS
  <2> QED BY <2>1, SliceBytes, Zenon
<1>2. p \in p .. q - 1 /\ p - p + 1 = 1
  OBVIOUS
<1>3. Slice(p, q)[1] = At(p)
  <2>1. Slice(p, q)[p - p + 1] = At(p)
    BY ONLY <1>1, <1>2, Zenon
  <2> QED BY ONLY <1>2, <2>1, Zenon
<1> QED BY <1>3, Zenon DEF IsConstructed, Constructed

\* The encodings the grammar gives a definite object ...
LEMMA DefiniteDersAt ==
  ASSUME input \in Seq(Byte), NEW p \in Nat, NEW q \in Nat, NEW limit \in Nat,
         p <= q, q <= limit, limit <= Len(input), DefiniteAt(p, limit, q),
         NEW te, te = TagEnd(p, limit), NEW l \in Nat \ {0}, NEW y,
         NEW cut, cut[1] = te - p, cut[2] = ContentStart(te) - te
  PROVE  y \in DefiniteDers(Contents, Slice(p, q), l, cut)
           <=> BodyAt(p, te, ContentStart(te), q, l, FALSE, y)
<1> DEFINE s == Slice(p, q)
           e == ContentStart(te)
<1>1. TagOK(p, limit) /\ LengthOK(te, limit) /\ ~Indefinite(te) /\ q = ContentEnd(te)
  BY Zenon DEF DefiniteAt
<1>2. /\ te \in Nat /\ p + 1 <= te /\ te < limit
      /\ Length(te) \in Nat
      /\ e \in Nat /\ te + 1 <= e /\ e <= limit
  BY <1>1, HeaderParts
<1>3. q = e + Length(te)
  BY <1>1, Zenon DEF ContentEnd
<1> HIDE DEF e
<1>4. q <= Len(input) /\ p < q /\ p <= p /\ p <= te /\ te <= q /\ p <= e /\ e <= q
  BY <1>2, <1>3, LenProperties
<1>5. \A a, b \in Nat : p <= a /\ a <= b /\ b <= q => SubSeq(s, a - p + 1, b - p) = Slice(a, b)
  BY <1>4, SubSlices, Zenon
<1>6. \A a \in Nat : p <= a /\ a <= q => From(s, a - p + 1) = Slice(a, q)
  BY <1>4, SliceTail
<1>7. IsConstructed(s) <=> Constructed(p)
  BY <1>4, SliceHead
<1>8. Slice(e, q) \in Seq(Byte)
  BY <1>2, <1>4, SliceIs
<1> HIDE DEF s
<1>9. p - p + 1 = 1 /\ cut[1] + cut[2] + 1 = e - p + 1
  BY ONLY <1>2, cut[1] = te - p, cut[2] = ContentStart(te) - te, p \in Nat DEF e
<1>10. SubSeq(s, 1, cut[1]) = Slice(p, te)
  <2>1. SubSeq(s, p - p + 1, te - p) = Slice(p, te)
    BY ONLY <1>2, <1>4, <1>5, p \in Nat, Zenon
  <2> QED BY <1>9, <2>1, Zenon
<1>11. From(s, cut[1] + cut[2] + 1) = Slice(e, q)
  BY <1>2, <1>4, <1>6, <1>9, Zenon
<1> DEFINE X == BodiesAt(p, e, q, l, FALSE)
<1>12. DefiniteDers(Contents, s, l, cut) = Encodings(Slice(p, te), X)
  BY <1>7, <1>10, <1>11, Zenon DEF DefiniteDers, BodiesAt, Encodings
<1>13. FALSE \in BOOLEAN
  OBVIOUS
<1>14. y \in Encodings(Slice(p, te), X) <=> BodyAt(p, te, e, q, l, FALSE, y)
  <2>1. \A i \in BOOLEAN : y \in Encodings(Slice(p, te), BodiesAt(p, e, q, l, i))
                              <=> BodyAt(p, te, e, q, l, i, y)
    BY <1>8, BodyIs, Zenon
  <2> QED BY ONLY <1>13, <2>1
<1> QED BY <1>12, <1>14, Zenon DEF s, e

\* ... and an indefinite one are those of the content readObject delimits.
LEMMA IndefiniteDersAt ==
  ASSUME input \in Seq(Byte), NEW p \in Nat, NEW q \in Nat, NEW limit \in Nat,
         p <= q, q <= limit, limit <= Len(input), IndefiniteAt(p, limit, q),
         NEW te, te = TagEnd(p, limit), NEW l \in Nat \ {0}, NEW y
  PROVE  y \in IndefiniteDers(Contents, Slice(p, q), l, te - p)
           <=> BodyAt(p, te, ContentStart(te), q - 2, l, TRUE, y)
<1> DEFINE s == Slice(p, q)
           e == ContentStart(te)
           b == q - 2
<1>1. /\ TagOK(p, limit) /\ LengthOK(te, limit) /\ Indefinite(te) /\ Constructed(p)
      /\ e + 2 <= q
  BY Zenon DEF IndefiniteAt
<1>2. te \in Nat /\ p + 1 <= te /\ te < limit /\ e = te + 1 /\ e \in Nat
  BY <1>1, HeaderParts
<1> HIDE DEF e
<1>3. q <= Len(input) /\ p <= p /\ p <= te /\ te <= q /\ p <= e /\ e <= b /\ b <= q
      /\ b \in Nat /\ b <= Len(input)
  BY <1>1, <1>2, LenProperties
<1>4. \A a, c \in Nat : p <= a /\ a <= c /\ c <= q => SubSeq(s, a - p + 1, c - p) = Slice(a, c)
  BY <1>3, SubSlices, Zenon
<1>5. Len(s) = q - p
  BY <1>3, SliceIs
<1>6. Slice(e, b) \in Seq(Byte)
  BY <1>2, <1>3, SliceIs
<1> HIDE DEF s
<1>7. p - p + 1 = 1 /\ (te - p) + 2 = e - p + 1 /\ Len(s) - 2 = b - p
  BY <1>2, <1>5
<1> HIDE DEF b
<1>8. SubSeq(s, 1, te - p) = Slice(p, te)
  <2>1. SubSeq(s, p - p + 1, te - p) = Slice(p, te)
    BY ONLY <1>2, <1>3, <1>4, p \in Nat, Zenon
  <2> QED BY <1>7, <2>1, Zenon
<1>9. SubSeq(s, (te - p) + 2, Len(s) - 2) = Slice(e, b)
  <2>1. SubSeq(s, e - p + 1, b - p) = Slice(e, b)
    BY ONLY <1>2, <1>3, <1>4, Zenon
  <2> QED BY <1>7, <2>1, Zenon
<1> DEFINE X == BodiesAt(p, e, b, l, TRUE)
<1>10. IndefiniteDers(Contents, s, l, te - p) = Encodings(Slice(p, te), X)
  BY <1>1, <1>8, <1>9, Zenon DEF IndefiniteDers, BodiesAt, Encodings
<1>11. TRUE \in BOOLEAN
  OBVIOUS
<1>12. y \in Encodings(Slice(p, te), X) <=> BodyAt(p, te, e, b, l, TRUE, y)
  <2>1. \A i \in BOOLEAN : y \in Encodings(Slice(p, te), BodiesAt(p, e, b, l, i))
                              <=> BodyAt(p, te, e, b, l, i, y)
    BY <1>6, BodyIs, Zenon
  <2> QED BY ONLY <1>11, <2>1
<1> QED BY <1>10, <1>12, Zenon DEF s, e, b

\* An object of the grammar at p .. q is one of the two forms of header, and its
\* content.
LEMMA ObjectIs ==
  ASSUME input \in Seq(Byte), NEW p \in Nat, NEW q \in Nat, NEW limit \in Nat,
         p <= q, q <= limit, limit <= Len(input),
         NEW te, te = TagEnd(p, limit), NEW l \in Nat \ {0}, NEW y
  PROVE  y \in DersOf(Slice(p, q), l) <=>
           \/ DefiniteAt(p, limit, q) /\ BodyAt(p, te, ContentStart(te), q, l, FALSE, y)
           \/ IndefiniteAt(p, limit, q) /\ BodyAt(p, te, ContentStart(te), q - 2, l, TRUE, y)
<1> DEFINE s == Slice(p, q)
           D == DefiniteAt(p, limit, q) /\ BodyAt(p, te, ContentStart(te), q, l, FALSE, y)
           I == IndefiniteAt(p, limit, q) /\ BodyAt(p, te, ContentStart(te), q - 2, l, TRUE, y)
<1>1. y \in DersOf(s, l) <=>
        \/ \E cut \in DefiniteCuts(s) : y \in DefiniteDers(Contents, s, l, cut)
        \/ \E t \in IndefiniteCuts(s) : y \in IndefiniteDers(Contents, s, l, t)
  BY DersOfCases
<1>2. ASSUME NEW cut \in DefiniteCuts(s), y \in DefiniteDers(Contents, s, l, cut)
      PROVE  D
  <2>1. /\ DefiniteAt(p, limit, q)
        /\ cut[1] = te - p
        /\ cut[2] = ContentStart(te) - te
    BY DefiniteCutFound
  <2> QED BY <1>2, <2>1, DefiniteDersAt, Zenon
<1>3. ASSUME NEW t \in IndefiniteCuts(s), y \in IndefiniteDers(Contents, s, l, t)
      PROVE  I
  <2>1. IndefiniteAt(p, limit, q) /\ t = te - p
    BY IndefiniteCutFound
  <2> QED BY <1>3, <2>1, IndefiniteDersAt, Zenon
<1>4. ASSUME D
      PROVE  \E cut \in DefiniteCuts(s) : y \in DefiniteDers(Contents, s, l, cut)
  <2> DEFINE cut == <<te - p, ContentStart(te) - te>>
  <2>1. cut \in DefiniteCuts(s)
    BY <1>4, DefiniteCutMade, Zenon
  <2>2. cut[1] = te - p /\ cut[2] = ContentStart(te) - te
    OBVIOUS
  <2> HIDE DEF cut
  <2>3. y \in DefiniteDers(Contents, s, l, cut)
    BY <1>4, <2>2, DefiniteDersAt, Zenon
  <2> QED BY <2>1, <2>3, Zenon
<1>5. ASSUME I
      PROVE  \E t \in IndefiniteCuts(s) : y \in IndefiniteDers(Contents, s, l, t)
  <2>1. te - p \in IndefiniteCuts(s)
    BY <1>5, IndefiniteCutMade, Zenon
  <2>2. y \in IndefiniteDers(Contents, s, l, te - p)
    BY <1>5, IndefiniteDersAt, Zenon
  <2> QED BY <2>1, <2>2, Zenon
<1> QED BY <1>1, <1>2, <1>3, <1>4, <1>5, Zenon

(***************************************************************************)
(* What is left to read, in terms of the grammar.                          *)
(***************************************************************************)

\* The input has an object of at most l levels at p .. q, and y is its DER.
ObjectAt(p, limit, l, q, y) ==
  q \in Nat /\ p <= q /\ q <= limit /\ y \in DersOf(Slice(p, q), l)

\* The rest of a content, from p on: it ends with the slice, or anywhere before
\* an end-of-contents marker; q is where the object ends and c the DER of the
\* rest.
RestAt(p, limit, l, indefinite, q, c) ==
  IF indefinite
  THEN /\ q \in Nat /\ p + 2 <= q /\ q <= limit /\ Slice(q - 2, q) = <<0, 0>>
       /\ c \in Contents[PartOf(Slice(p, q - 2), l, TRUE)]
  ELSE /\ q = limit /\ p <= limit /\ c \in Contents[PartOf(Slice(p, limit), l, FALSE)]

\* The levels of nesting that are left at a depth of the recursion.
Levels(depth) == MaxNestingDepth + 1 - depth

\* What an accepted header says of the offsets it gives.
LEMMA HeaderAccepted ==
  ASSUME input \in Seq(Byte), NEW p \in Nat, NEW limit \in Nat, limit <= Len(input),
         NEW depth \in Nat, HeaderOK(p, limit, depth), NEW te, te = TagEnd(p, limit)
  PROVE  /\ TagOK(p, limit) /\ LengthOK(te, limit) /\ (Indefinite(te) => Constructed(p))
         /\ te \in Nat /\ p + 1 <= te /\ te < limit /\ ContentStart(te) \in Nat
         /\ te + 1 <= ContentStart(te) /\ ContentStart(te) <= ContentEnd(te)
         /\ ContentEnd(te) \in Nat /\ ContentEnd(te) <= limit
         /\ Levels(depth) \in Nat \ {0}
<1>1. /\ TagOK(p, limit) /\ LengthOK(te, limit) /\ (Indefinite(te) => Constructed(p))
      /\ Length(te) <= limit - ContentStart(te) /\ depth <= MaxNestingDepth
  BY Zenon DEF HeaderOK
<1>2. /\ te \in Nat /\ p + 1 <= te /\ te < limit
      /\ Length(te) \in Nat
      /\ ContentStart(te) \in Nat /\ te + 1 <= ContentStart(te) /\ ContentStart(te) <= limit
  BY <1>1, HeaderParts
<1>3. /\ ContentStart(te) <= ContentEnd(te)
      /\ ContentEnd(te) \in Nat /\ ContentEnd(te) <= limit
  BY <1>1, <1>2 DEF ContentEnd
<1>4. Levels(depth) \in Nat \ {0}
  BY <1>1, BerAssumption DEF Levels
<1> QED BY <1>1, <1>2, <1>3, <1>4

\* Where readObject refuses the header, the grammar has no object.
LEMMA ObjectRefused ==
  ASSUME input \in Seq(Byte), NEW p \in Nat, NEW limit \in Nat, limit <= Len(input),
         NEW depth \in Nat, depth <= MaxNestingDepth + 1, NEW q, NEW y,
         ObjectAt(p, limit, Levels(depth), q, y)
  PROVE  HeaderOK(p, limit, depth)
<1> DEFINE l == Levels(depth)
           te == TagEnd(p, limit)
<1>1. q \in Nat /\ p <= q /\ q <= limit /\ y \in DersOf(Slice(p, q), l)
  BY Zenon DEF ObjectAt
<1>2. l # 0
  BY <1>1, DersOfCases, Zenon
<1>3. l \in Nat \ {0} /\ depth <= MaxNestingDepth
  BY <1>2, BerAssumption DEF Levels
<1> HIDE DEF l
<1>4. DefiniteAt(p, limit, q) \/ IndefiniteAt(p, limit, q)
  BY <1>1, <1>3, ObjectIs, Zenon
<1>5. CASE DefiniteAt(p, limit, q)
  <2>1. TagOK(p, limit) /\ LengthOK(te, limit) /\ ~Indefinite(te) /\ q = ContentEnd(te)
    BY <1>5, Zenon DEF DefiniteAt
  <2>2. Length(te) \in Nat /\ ContentStart(te) \in Nat
    BY <2>1, HeaderParts
  <2> HIDE DEF te
  <2>3. Length(te) <= limit - ContentStart(te)
    BY <1>1, <2>1, <2>2 DEF ContentEnd
  <2> QED BY <1>3, <2>1, <2>3, Zenon DEF HeaderOK, te
<1>6. CASE IndefiniteAt(p, limit, q)
  <2>1. TagOK(p, limit) /\ LengthOK(te, limit) /\ Indefinite(te) /\ Constructed(p)
    BY <1>6, Zenon DEF IndefiniteAt
  <2>2. Length(te) = 0 /\ ContentStart(te) \in Nat /\ ContentStart(te) <= limit
    BY <2>1, HeaderParts
  <2> HIDE DEF te
  <2>3. Length(te) <= limit - ContentStart(te)
    BY <2>2
  <2> QED BY <1>3, <2>1, <2>3, Zenon DEF HeaderOK, te
<1> QED BY <1>4, <1>5, <1>6

\* A primitive object is the header and the content that readObject copies.
LEMMA ObjectPrimitive ==
  ASSUME input \in Seq(Byte), NEW p \in Nat, NEW limit \in Nat, limit <= Len(input),
         NEW depth \in Nat, HeaderOK(p, limit, depth), ~Constructed(p),
         NEW te, te = TagEnd(p, limit), NEW q, NEW y
  PROVE  ObjectAt(p, limit, Levels(depth), q, y) <=>
           /\ q = ContentEnd(te)
           /\ y = EncodeTo(Slice(p, te), Slice(ContentStart(te), ContentEnd(te)))
<1> DEFINE l == Levels(depth)
           e == ContentEnd(te)
           z == EncodeTo(Slice(p, te), Slice(ContentStart(te), e))
<1>1. /\ TagOK(p, limit) /\ LengthOK(te, limit) /\ (Indefinite(te) => Constructed(p))
      /\ te \in Nat /\ p + 1 <= te /\ te < limit /\ ContentStart(te) \in Nat
      /\ te + 1 <= ContentStart(te) /\ ContentStart(te) <= e
      /\ e \in Nat /\ e <= limit /\ l \in Nat \ {0}
  BY HeaderAccepted
<1>2. p <= e /\ e <= limit
  BY <1>1
<1>3. ~Indefinite(te)
  BY <1>1
<1>4. \A x : BodyAt(p, te, ContentStart(te), e, l, FALSE, x) <=> x = z
  BY Zenon DEF BodyAt, BodiesAt
<1> HIDE DEF l, e, z
<1>5. ASSUME ObjectAt(p, limit, l, q, y)
      PROVE  q = e /\ y = z
  <2>1. q \in Nat /\ p <= q /\ q <= limit /\ y \in DersOf(Slice(p, q), l)
    BY <1>5, Zenon DEF ObjectAt
  <2>2. ~IndefiniteAt(p, limit, q)
    BY <1>3, Zenon DEF IndefiniteAt
  <2>3. DefiniteAt(p, limit, q) /\ BodyAt(p, te, ContentStart(te), q, l, FALSE, y)
    BY <1>1, <2>1, <2>2, ObjectIs, Zenon
  <2>4. q = e
    BY <2>3, Zenon DEF DefiniteAt, e
  <2> QED BY <1>4, <2>3, <2>4, Zenon
<1>6. ObjectAt(p, limit, l, e, z)
  <2>1. DefiniteAt(p, limit, e)
    BY <1>1, <1>3, Zenon DEF DefiniteAt, e
  <2>2. BodyAt(p, te, ContentStart(te), e, l, FALSE, z)
    BY <1>4, Zenon
  <2>3. z \in DersOf(Slice(p, e), l)
    BY <1>1, <1>2, <2>1, <2>2, ObjectIs, Zenon
  <2> QED BY <1>1, <1>2, <2>3, Zenon DEF ObjectAt
<1> QED BY <1>5, <1>6, Zenon DEF l, e, z

\* The content that starts at p ends at q, and with the tag it encodes as y.
ContentAt(p, limit, l, i, tag, q, y) ==
  \E c : RestAt(p, limit, l, i, q, c) /\ y = EncodeTo(tag, c)

\* A constructed object is the header and all of the content that follows.
LEMMA ObjectConstructed ==
  ASSUME input \in Seq(Byte), NEW p \in Nat, NEW limit \in Nat, limit <= Len(input),
         NEW depth \in Nat, HeaderOK(p, limit, depth), Constructed(p),
         NEW te, te = TagEnd(p, limit), NEW q, NEW y,
         NEW end, end = IF Indefinite(te) THEN limit ELSE ContentEnd(te)
  PROVE  ObjectAt(p, limit, Levels(depth), q, y) <=>
           ContentAt(ContentStart(te), end, Levels(depth) - 1, Indefinite(te), Slice(p, te), q, y)
<1> DEFINE l == Levels(depth)
           s == ContentStart(te)
           r(c) == RestAt(s, end, l - 1, Indefinite(te), q, c)
           R == \E c : r(c) /\ y = EncodeTo(Slice(p, te), c)
<1>1. /\ TagOK(p, limit) /\ LengthOK(te, limit) /\ (Indefinite(te) => Constructed(p))
      /\ te \in Nat /\ p + 1 <= te /\ te < limit /\ s \in Nat
      /\ te + 1 <= s /\ s <= ContentEnd(te)
      /\ ContentEnd(te) \in Nat /\ ContentEnd(te) <= limit /\ l \in Nat \ {0}
  BY HeaderAccepted
<1>2. p <= s /\ p <= ContentEnd(te)
  BY <1>1
<1> HIDE DEF l, s
<1>4. CASE ~Indefinite(te)
  <2> DEFINE e == ContentEnd(te)
  <2>1. end = e
    BY <1>4
  <2> HIDE DEF e
  <2>2. R <=> q = e /\ BodyAt(p, te, s, e, l, FALSE, y)
    <3> DEFINE K == Contents[PartOf(Slice(s, e), l - 1, FALSE)]
    <3>1. \A c : r(c) <=> q = e /\ c \in K
      BY <1>1, <1>4, <2>1, Zenon DEF RestAt, e
    <3>2. BodyAt(p, te, s, e, l, FALSE, y) <=> \E c \in K : y = EncodeTo(Slice(p, te), c)
      BY Zenon DEF BodyAt, BodiesAt
    <3> HIDE DEF r, K
    <3> QED BY ONLY <3>1, <3>2, Zenon DEF R
  <2>3. ASSUME ObjectAt(p, limit, l, q, y) PROVE R
    <3>1. q \in Nat /\ p <= q /\ q <= limit /\ y \in DersOf(Slice(p, q), l)
      BY <2>3, Zenon DEF ObjectAt
    <3>2. ~IndefiniteAt(p, limit, q)
      BY <1>4, Zenon DEF IndefiniteAt
    <3>3. DefiniteAt(p, limit, q) /\ BodyAt(p, te, s, q, l, FALSE, y)
      BY <1>1, <3>1, <3>2, ObjectIs, Zenon DEF s
    <3>4. q = e
      BY <3>3, Zenon DEF DefiniteAt, e
    <3> QED BY <2>2, <3>3, <3>4, Zenon
  <2>4. ASSUME R PROVE ObjectAt(p, limit, l, q, y)
    <3>1. q = e /\ BodyAt(p, te, s, q, l, FALSE, y)
      BY <2>2, <2>4, Zenon
    <3>2. DefiniteAt(p, limit, q)
      BY <1>1, <1>4, <3>1, Zenon DEF DefiniteAt, e
    <3>3. q \in Nat /\ p <= q /\ q <= limit
      BY <1>1, <1>2, <3>1, Zenon DEF e
    <3>4. y \in DersOf(Slice(p, q), l)
      BY <1>1, <3>1, <3>2, <3>3, ObjectIs, Zenon DEF s
    <3> QED BY <3>3, <3>4, Zenon DEF ObjectAt
  <2> QED BY <2>3, <2>4, Zenon DEF l, s, ContentAt
<1>5. CASE Indefinite(te)
  <2>1. end = limit
    BY <1>5
  <2> DEFINE M == q \in Nat /\ s + 2 <= q /\ q <= limit /\ Slice(q - 2, q) = <<0, 0>>
  <2>2. R <=> M /\ BodyAt(p, te, s, q - 2, l, TRUE, y)
    <3> DEFINE K == Contents[PartOf(Slice(s, q - 2), l - 1, TRUE)]
    <3>1. \A c : r(c) <=> M /\ c \in K
      BY <1>5, <2>1, Zenon DEF RestAt
    <3>2. BodyAt(p, te, s, q - 2, l, TRUE, y) <=> \E c \in K : y = EncodeTo(Slice(p, te), c)
      BY Zenon DEF BodyAt, BodiesAt
    <3> HIDE DEF M, r, K
    <3> QED BY ONLY <3>1, <3>2, Zenon DEF R
  <2>3. ASSUME ObjectAt(p, limit, l, q, y) PROVE R
    <3>1. q \in Nat /\ p <= q /\ q <= limit /\ y \in DersOf(Slice(p, q), l)
      BY <2>3, Zenon DEF ObjectAt
    <3>2. ~DefiniteAt(p, limit, q)
      BY <1>5, Zenon DEF DefiniteAt
    <3>3. IndefiniteAt(p, limit, q) /\ BodyAt(p, te, s, q - 2, l, TRUE, y)
      BY <1>1, <3>1, <3>2, ObjectIs, Zenon DEF s
    <3>4. M
      BY <3>1, <3>3, Zenon DEF IndefiniteAt, s
    <3> QED BY <2>2, <3>3, <3>4, Zenon
  <2>4. ASSUME R PROVE ObjectAt(p, limit, l, q, y)
    <3>1. M /\ BodyAt(p, te, s, q - 2, l, TRUE, y)
      BY <2>2, <2>4, Zenon
    <3>2. IndefiniteAt(p, limit, q)
      BY <1>1, <1>5, <3>1, Zenon DEF IndefiniteAt, s
    <3>3. q \in Nat /\ p <= q /\ q <= limit
      BY <1>1, <1>2, <3>1
    <3>4. y \in DersOf(Slice(p, q), l)
      BY <1>1, <3>1, <3>2, <3>3, ObjectIs, Zenon DEF s
    <3> QED BY <3>3, <3>4, Zenon DEF ObjectAt
  <2> QED BY <2>3, <2>4, Zenon DEF l, s, ContentAt
<1> QED BY <1>4, <1>5

\* An object has at least two bytes.
LEMMA ObjectSize ==
  ASSUME NEW s \in Seq(Byte), NEW l \in Nat, NEW y \in DersOf(s, l)
  PROVE  Len(s) >= 2
<1>1. PICK t \in 1 .. Len(s), k \in 1 .. 5, c \in Seq(Byte) : Len(s) = t + k + Len(c)
  BY ObjectParts
<1>2. Len(c) \in Nat /\ Len(s) \in Nat
  BY LenProperties
<1> QED BY <1>1, <1>2

\* c is the DER of an object at p, and of the rest of the content that ends at b.
Splits(p, b, l, i, c) ==
  \E m, x, r : /\ m \in Nat /\ p + 2 <= m /\ m <= b /\ x \in DersOf(Slice(p, m), l)
               /\ r \in Contents[PartOf(Slice(m, b), l, i)] /\ c = x \o r

\* A content that is not empty is an object and the rest.
LEMMA ContentSplits ==
  ASSUME input \in Seq(Byte), NEW p \in Nat, NEW b \in Nat, p < b, b <= Len(input),
         NEW l \in Nat, NEW i \in BOOLEAN, ~(i /\ IsMarked(Slice(p, b))), NEW c
  PROVE  c \in Contents[PartOf(Slice(p, b), l, i)] <=> Splits(p, b, l, i, c)
<1> DEFINE s == Slice(p, b)
           S(m, x, r) == /\ m \in Nat /\ p + 2 <= m /\ m <= b /\ x \in DersOf(Slice(p, m), l)
                         /\ r \in Contents[PartOf(Slice(m, b), l, i)] /\ c = x \o r
<1>1. p <= b /\ p <= p /\ p - p + 1 = 1
  OBVIOUS
<1>2. s \in Seq(Byte) /\ Len(s) = b - p
  BY <1>1, SliceIs
<1>3. s # <<>>
  BY <1>2
<1>4. \A a, d \in Nat : p <= a /\ a <= d /\ d <= b => SubSeq(s, a - p + 1, d - p) = Slice(a, d)
  BY <1>1, SubSlices, Zenon
<1>5. \A a \in Nat : p <= a /\ a <= b => From(s, a - p + 1) = Slice(a, b)
  BY <1>1, SliceTail, Zenon
<1>6. c \in Contents[PartOf(s, l, i)] <=> FirstThenRest(c, s, l, i)
  BY <1>2, <1>3, ContentsCons
<1>7. ~(i /\ IsMarked(s))
  OBVIOUS
<1>8. \A m \in Nat : p <= m /\ m <= Len(input) => Slice(p, m) \in Seq(Byte) /\ Len(Slice(p, m)) = m - p
  BY SliceIs
<1> HIDE DEF s
<1>9. ASSUME NEW m \in Nat, p <= m, m <= b
      PROVE  SubSeq(s, 1, m - p) = Slice(p, m) /\ From(s, (m - p) + 1) = Slice(m, b)
  <2>1. SubSeq(s, p - p + 1, m - p) = Slice(p, m)
    BY ONLY <1>1, <1>4, <1>9, p \in Nat, m \in Nat, Zenon
  <2>2. From(s, m - p + 1) = Slice(m, b)
    BY ONLY <1>5, <1>9, m \in Nat, Zenon
  <2> QED BY ONLY <1>1, <2>1, <2>2, Zenon
<1>10. ASSUME FirstThenRest(c, s, l, i)
       PROVE  \E m, x, r : S(m, x, r)
  <2>1. PICK k \in 1 .. Len(s) : \E x \in DersOf(SubSeq(s, 1, k), l) :
           \E r \in Contents[PartOf(From(s, k + 1), l, i)] : c = x \o r
    BY <1>10, Zenon DEF FirstThenRest
  <2> DEFINE m == p + k
  <2>2. m \in Nat /\ p <= m /\ m <= b /\ m - p = k
    BY <1>2
  <2> HIDE DEF m
  <2>3. SubSeq(s, 1, k) = Slice(p, m) /\ From(s, k + 1) = Slice(m, b)
    BY <1>9, <2>2, Zenon
  <2>4. PICK x \in DersOf(Slice(p, m), l) : \E r \in Contents[PartOf(Slice(m, b), l, i)] : c = x \o r
    BY <2>1, <2>3, Zenon
  <2>5. p + 2 <= m
    <3>1. m <= Len(input)
      BY <2>2, LenProperties
    <3>2. Slice(p, m) \in Seq(Byte) /\ Len(Slice(p, m)) = m - p
      BY <1>8, <2>2, <3>1
    <3>3. Len(Slice(p, m)) >= 2
      BY <2>4, <3>2, ObjectSize
    <3> QED BY <2>2, <3>2, <3>3
  <2> QED BY <2>2, <2>4, <2>5, Zenon
<1>11. ASSUME NEW m, NEW x, NEW r, S(m, x, r)
       PROVE  FirstThenRest(c, s, l, i)
  <2>1. m \in Nat /\ p + 2 <= m /\ m <= b
    BY <1>11
  <2>2. p <= m
    BY <2>1
  <2> DEFINE k == m - p
  <2>3. k \in 1 .. Len(s)
    BY <1>2, <2>1
  <2>4. SubSeq(s, 1, k) = Slice(p, m) /\ From(s, k + 1) = Slice(m, b)
    BY <1>9, <2>1, <2>2, Zenon
  <2> HIDE DEF k
  <2> QED BY <1>7, <1>11, <2>3, <2>4, Zenon DEF FirstThenRest
<1> QED BY <1>6, <1>10, <1>11, Zenon DEF s, Splits

\* The end-of-contents marker, in a slice and in the input.
LEMMA MarkerAt ==
  ASSUME input \in Seq(Byte), NEW p \in Nat, NEW b \in Nat, p <= b, b <= Len(input)
  PROVE  /\ IsMarked(Slice(p, b)) <=> p + 2 <= b /\ At(p) = 0 /\ At(p + 1) = 0
         /\ Slice(p, b) = <<0, 0>> <=> b = p + 2 /\ At(p) = 0 /\ At(p + 1) = 0
<1> DEFINE s == Slice(p, b)
<1>1. s \in Seq(Byte) /\ Len(s) = b - p
  BY SliceIs
<1>2. \A j \in p .. b - 1 : s[j - p + 1] = At(j) /\ At(j) \in 0 .. 255
  BY SliceBytes
<1> HIDE DEF s
<1>3. ASSUME p + 2 <= b
      PROVE  s[1] = At(p) /\ s[2] = At(p + 1)
  <2>1. p \in p .. b - 1 /\ p + 1 \in p .. b - 1 /\ p - p + 1 = 1 /\ (p + 1) - p + 1 = 2
    BY <1>3
  <2>2. s[p - p + 1] = At(p) /\ s[(p + 1) - p + 1] = At(p + 1)
    BY ONLY <1>2, <2>1, Zenon
  <2> QED BY ONLY <2>1, <2>2, Zenon
<1>4. Len(s) >= 2 <=> p + 2 <= b
  BY <1>1
<1>5. IsMarked(s) <=> p + 2 <= b /\ At(p) = 0 /\ At(p + 1) = 0
  BY <1>3, <1>4, Zenon DEF IsMarked
<1>6. ASSUME s = <<0, 0>>
      PROVE  b = p + 2 /\ At(p) = 0 /\ At(p + 1) = 0
  <2>1. Len(s) = 2 /\ s[1] = 0 /\ s[2] = 0
    BY <1>6
  <2>2. b = p + 2
    <3>1. b - p = 2
      BY ONLY <1>1, <2>1, Zenon
    <3> QED BY ONLY <3>1, b \in Nat, p \in Nat
  <2>3. p + 2 <= b
    BY <2>2
  <2> QED BY <1>3, <2>1, <2>2, <2>3, Zenon
<1>7. ASSUME b = p + 2, At(p) = 0, At(p + 1) = 0
      PROVE  s = <<0, 0>>
  <2> DEFINE z == <<0, 0>>
  <2>1. z \in Seq(Byte) /\ Len(z) = 2 /\ z[1] = 0 /\ z[2] = 0
    BY DEF Byte
  <2> HIDE DEF z
  <2>2. Len(s) = 2 /\ s[1] = 0 /\ s[2] = 0
    BY <1>1, <1>3, <1>7
  <2>3. \A i \in 1 .. Len(s) : s[i] = z[i]
    BY ONLY <2>1, <2>2
  <2>4. s = z
    BY <1>1, <2>1, <2>2, <2>3, SeqEqual
  <2> QED BY <2>4 DEF z
<1> QED BY <1>5, <1>6, <1>7, Zenon DEF s

\* A slice that ends where it starts is empty.
LEMMA EmptySlice ==
  ASSUME input \in Seq(Byte), NEW p \in Nat, p <= Len(input)
  PROVE  Slice(p, p) = <<>>
<1>1. Slice(p, p) \in Seq(Byte) /\ Len(Slice(p, p)) = p - p
  BY SliceIs
<1>2. Len(Slice(p, p)) = 0
  BY <1>1
<1> QED BY <1>1, <1>2, EmptySeq

\* Nothing is left of a definite content at its end.
LEMMA RestAtEnd ==
  ASSUME input \in Seq(Byte), NEW limit \in Nat, limit <= Len(input), NEW l \in Nat,
         NEW q, NEW c
  PROVE  RestAt(limit, limit, l, FALSE, q, c) <=> q = limit /\ c = <<>>
<1>1. Slice(limit, limit) = <<>>
  BY EmptySlice
<1>2. Contents[PartOf(<<>>, l, FALSE)] = {<<>>}
  BY ContentsEmpty
<1>3. limit <= limit
  OBVIOUS
<1>4. c \in {<<>>} <=> c = <<>>
  OBVIOUS
<1>5. c \in Contents[PartOf(Slice(limit, limit), l, FALSE)] <=> c = <<>>
  BY <1>1, <1>2, <1>4, Zenon
<1> QED BY <1>3, <1>5, Zenon DEF RestAt

\* At the end-of-contents marker, nothing is left but the marker.
LEMMA RestAtMarker ==
  ASSUME input \in Seq(Byte), NEW p \in Nat, NEW limit \in Nat, p + 2 <= limit,
         limit <= Len(input), At(p) = 0, At(p + 1) = 0, NEW l \in Nat, NEW q, NEW c
  PROVE  RestAt(p, limit, l, TRUE, q, c) <=> q = p + 2 /\ c = <<>>
<1>1. p <= Len(input) /\ p + 2 <= Len(input) /\ p + 2 \in Nat /\ p <= p + 2 /\ (p + 2) - 2 = p
      /\ p + 2 <= p + 2 /\ Len(input) \in Nat
  BY LenProperties
<1>2. Slice(p, p) = <<>>
  BY <1>1, EmptySlice
<1>3. Contents[PartOf(<<>>, l, TRUE)] = {<<>>}
  BY ContentsEmpty
<1>4. \A z : z \in Contents[PartOf(Slice(p, p), l, TRUE)] <=> z = <<>>
  <2>1. \A z : z \in {<<>>} <=> z = <<>>
    OBVIOUS
  <2> QED BY <1>2, <1>3, <2>1, Zenon
<1>5. Slice(p, p + 2) = <<0, 0>>
  BY <1>1, MarkerAt
<1>6. ASSUME RestAt(p, limit, l, TRUE, q, c)
      PROVE  q = p + 2 /\ c = <<>>
  <2> DEFINE b == q - 2
  <2>1. /\ q \in Nat /\ p + 2 <= q /\ q <= limit
        /\ c \in Contents[PartOf(Slice(p, b), l, TRUE)]
    BY <1>6, Zenon DEF RestAt
  <2>2. b \in Nat /\ p <= b /\ b <= Len(input) /\ q = b + 2
    BY <1>1, <2>1
  <2> HIDE DEF b
  <2>3. CASE b = p
    <3>1. q = p + 2
      BY <2>2, <2>3
    <3> QED BY <1>4, <2>1, <2>3, <3>1, Zenon
  <2>4. CASE b # p
    <3>1. p < b
      BY <2>2, <2>4
    <3>2. CASE p + 2 <= b
      <4>1. IsMarked(Slice(p, b))
        BY <2>2, <3>2, MarkerAt
      <4>2. Slice(p, b) \in Seq(Byte) /\ Slice(p, b) # <<>>
        <5>1. Slice(p, b) \in Seq(Byte) /\ Len(Slice(p, b)) = b - p
          BY <2>2, SliceIs
        <5> QED BY <2>2, <3>1, <5>1
      <4>3. FirstThenRest(c, Slice(p, b), l, TRUE)
        BY <2>1, <4>2, ContentsCons
      <4> QED BY <4>1, <4>3, Zenon DEF FirstThenRest
    <3>3. CASE ~(p + 2 <= b)
      <4>1. ~IsMarked(Slice(p, b))
        BY <2>2, <3>3, MarkerAt
      <4>2. Splits(p, b, l, TRUE, c)
        BY <2>1, <2>2, <3>1, <4>1, ContentSplits
      <4>3. PICK m : m \in Nat /\ p + 2 <= m /\ m <= b
        BY <4>2, Zenon DEF Splits
      <4> QED BY <2>2, <3>3, <4>3
    <3> QED BY <3>2, <3>3
  <2> QED BY <2>3, <2>4
<1>7. RestAt(p, limit, l, TRUE, p + 2, <<>>)
  BY <1>1, <1>4, <1>5, Zenon DEF RestAt
<1> QED BY <1>6, <1>7, Zenon

\* Without room for the marker, the content of an indefinite object has no end.
LEMMA RestWithoutRoom ==
  ASSUME NEW p \in Nat, NEW limit \in Nat, limit - p < 2, NEW l, NEW q, NEW c
  PROVE  ~RestAt(p, limit, l, TRUE, q, c)
<1>1. \A x \in Nat : ~(p + 2 <= x /\ x <= limit)
  OBVIOUS
<1> QED BY <1>1, Zenon DEF RestAt

\* The end of q, and the DER of the rest, after a first object.
RestAfter(p, limit, l, i, q, c) ==
  \E m, x, r : ObjectAt(p, limit, l, m, x) /\ RestAt(m, limit, l, i, q, r) /\ c = x \o r

\* Anywhere else, what is left is an object and then the rest.
LEMMA RestSplits ==
  ASSUME input \in Seq(Byte), NEW p \in Nat, NEW limit \in Nat, limit <= Len(input),
         NEW l \in Nat, NEW i \in BOOLEAN, NEW q, NEW c,
         IF i THEN p + 2 <= limit /\ ~(At(p) = 0 /\ At(p + 1) = 0) ELSE p < limit
  PROVE  RestAt(p, limit, l, i, q, c) <=> RestAfter(p, limit, l, i, q, c)
<1> DEFINE R == \E m, x, r : ObjectAt(p, limit, l, m, x) /\ RestAt(m, limit, l, i, q, r) /\ c = x \o r
<1>0. Len(input) \in Nat
  BY LenProperties
<1>1. ASSUME NEW m, NEW x, ObjectAt(p, limit, l, m, x)
      PROVE  m \in Nat /\ p + 2 <= m /\ m <= limit /\ x \in DersOf(Slice(p, m), l)
  <2>1. m \in Nat /\ p <= m /\ m <= limit /\ x \in DersOf(Slice(p, m), l)
    BY <1>1, Zenon DEF ObjectAt
  <2>2. m <= Len(input)
    BY <1>0, <2>1
  <2>3. Slice(p, m) \in Seq(Byte) /\ Len(Slice(p, m)) = m - p
    BY <2>1, <2>2, SliceIs
  <2>4. Len(Slice(p, m)) >= 2
    BY <2>1, <2>3, ObjectSize
  <2> QED BY <2>1, <2>3, <2>4
<1>2. CASE i = FALSE
  <2> DEFINE K(m) == Contents[PartOf(Slice(m, limit), l, FALSE)]
  <2>1. p < limit /\ p <= limit
    BY <1>2
  <2>2. c \in K(p) <=>
          \E m, x, r : /\ m \in Nat /\ p + 2 <= m /\ m <= limit /\ x \in DersOf(Slice(p, m), l)
                       /\ r \in K(m) /\ c = x \o r
    <3>1. c \in K(p) <=> Splits(p, limit, l, FALSE, c)
      BY <2>1, ContentSplits
    <3> QED BY <3>1, Zenon DEF Splits
  <2>3. \A m, r : RestAt(m, limit, l, i, q, r) <=> q = limit /\ m <= limit /\ r \in K(m)
    BY <1>2, Zenon DEF RestAt
  <2> HIDE DEF K
  <2>4. ASSUME NEW m \in Nat, NEW x, p + 2 <= m, m <= limit, x \in DersOf(Slice(p, m), l)
        PROVE  ObjectAt(p, limit, l, m, x)
    <3>1. p <= m
      BY <2>4
    <3> QED BY <2>4, <3>1, Zenon DEF ObjectAt
  <2> QED BY <1>1, <2>1, <2>2, <2>3, <2>4, Zenon DEF RestAfter
<1>3. CASE i = TRUE
  <2> DEFINE b == q - 2
             K(m) == Contents[PartOf(Slice(m, b), l, TRUE)]
             E == q \in Nat /\ q <= limit /\ Slice(q - 2, q) = <<0, 0>>
  <2>1. p + 2 <= limit /\ ~(At(p) = 0 /\ At(p + 1) = 0)
    BY <1>3
  <2>2. \A m, r : RestAt(m, limit, l, i, q, r) <=> E /\ m + 2 <= q /\ r \in K(m)
    BY <1>3, Zenon DEF RestAt
  <2>3. ASSUME E
        PROVE  q \in Nat /\ q <= limit /\ q <= Len(input) /\ Slice(q - 2, q) = <<0, 0>>
    BY <1>0, <2>3
  <2>4. ASSUME E, p + 2 <= q
        PROVE  /\ b \in Nat /\ p < b /\ b <= Len(input) /\ q = b + 2
               /\ ~(TRUE /\ IsMarked(Slice(p, b)))
    <3>1. b \in Nat /\ p <= b /\ b <= Len(input) /\ q = b + 2
      BY <1>0, <2>3, <2>4
    <3>2. b # p
      <4>1. ASSUME b = p PROVE FALSE
        <5>1. q = p + 2 /\ q - 2 = p /\ p <= q /\ q \in Nat /\ q <= Len(input)
          BY <2>3, <2>4, <3>1, <4>1
        <5>2. Slice(p, q) = <<0, 0>>
          BY <2>3, <2>4, <5>1, Zenon
        <5>3. At(p) = 0 /\ At(p + 1) = 0
          BY <5>1, <5>2, MarkerAt
        <5> QED BY <2>1, <5>3
      <4> QED BY <4>1
    <3>3. ~IsMarked(Slice(p, b))
      BY <2>1, <3>1, MarkerAt
    <3>4. p < b
      BY <3>1, <3>2
    <3> QED BY <3>1, <3>3, <3>4
  <2>5. ASSUME E, p + 2 <= q
        PROVE  c \in K(p) <=>
                 \E m, x, r : /\ m \in Nat /\ p + 2 <= m /\ m <= b /\ x \in DersOf(Slice(p, m), l)
                              /\ r \in K(m) /\ c = x \o r
    <3>1. /\ b \in Nat /\ p < b /\ b <= Len(input)
          /\ ~(TRUE /\ IsMarked(Slice(p, b)))
      BY <2>4, <2>5, Zenon
    <3> HIDE DEF b
    <3>2. c \in K(p) <=> Splits(p, b, l, TRUE, c)
      BY <3>1, ContentSplits
    <3> QED BY <3>2, Zenon DEF Splits
  <2>6. ASSUME NEW m \in Nat, NEW x, p + 2 <= m, m <= limit, x \in DersOf(Slice(p, m), l)
        PROVE  ObjectAt(p, limit, l, m, x)
    <3>1. p <= m
      BY <2>6
    <3> QED BY <2>6, <3>1, Zenon DEF ObjectAt
  <2>7. ASSUME RestAt(p, limit, l, i, q, c) PROVE R
    <3>1. E /\ p + 2 <= q /\ c \in K(p)
      BY <2>2, <2>7, Zenon
    <3> HIDE DEF K
    <3>2. PICK m, x, r : /\ m \in Nat /\ p + 2 <= m /\ m <= b /\ x \in DersOf(Slice(p, m), l)
                         /\ r \in K(m) /\ c = x \o r
      BY <2>5, <3>1, Zenon
    <3>3. m + 2 <= q /\ m <= limit
      BY <2>3, <3>1, <3>2
    <3>4. ObjectAt(p, limit, l, m, x)
      BY <2>6, <3>2, <3>3, Zenon
    <3>5. RestAt(m, limit, l, i, q, r)
      BY <2>2, <3>1, <3>2, <3>3, Zenon
    <3> QED BY <3>2, <3>4, <3>5, Zenon
  <2>8. ASSUME R PROVE RestAt(p, limit, l, i, q, c)
    <3>1. PICK m, x, r : ObjectAt(p, limit, l, m, x) /\ RestAt(m, limit, l, i, q, r) /\ c = x \o r
      BY <2>8, Zenon
    <3>2. m \in Nat /\ p + 2 <= m /\ m <= limit /\ x \in DersOf(Slice(p, m), l)
      BY <1>1, <3>1, Zenon
    <3>3. E /\ m + 2 <= q /\ r \in K(m)
      BY <2>2, <3>1, Zenon
    <3>4. p + 2 <= q /\ m <= b
      BY <2>3, <3>2, <3>3
    <3> HIDE DEF K, b
    <3>5. c \in K(p)
      BY <2>5, <3>1, <3>2, <3>3, <3>4, Zenon
    <3> QED BY <2>2, <3>3, <3>4, <3>5, Zenon
  <2> QED BY <2>7, <2>8, Zenon DEF RestAfter
<1> QED BY <1>2, <1>3

(***************************************************************************)
(* The objects that are open.  Whatever completes the outermost object     *)
(* does so by completing the innermost one, then the one around it, and so *)
(* on: a chain of positions and encodings, one per frame of the stack.     *)
(* The input is a parameter here, so that a step that leaves it alone      *)
(* leaves these alone.                                                     *)
(***************************************************************************)

ObjectIn(w, p, limit, l, q, y) ==
  q \in Nat /\ p <= q /\ q <= limit /\ y \in DersOf(SubSeq(w, p + 1, q), l)

RestIn(w, p, limit, l, indefinite, q, c) ==
  IF indefinite
  THEN /\ q \in Nat /\ p + 2 <= q /\ q <= limit /\ SubSeq(w, (q - 2) + 1, q) = <<0, 0>>
       /\ c \in Contents[PartOf(SubSeq(w, p + 1, q - 2), l, TRUE)]
  ELSE /\ q = limit /\ p <= limit
       /\ c \in Contents[PartOf(SubSeq(w, p + 1, limit), l, FALSE)]

\* In the input of the machine they are the same ...
LEMMA ObjectInIs ==
  ASSUME NEW p, NEW limit, NEW l, NEW q, NEW y
  PROVE  ObjectIn(input, p, limit, l, q, y) <=> ObjectAt(p, limit, l, q, y)
BY Zenon DEF ObjectIn, ObjectAt, Slice

\* ... for objects and for contents.
LEMMA RestInIs ==
  ASSUME NEW p, NEW limit, NEW l, NEW i, NEW q, NEW c
  PROVE  RestIn(input, p, limit, l, i, q, c) <=> RestAt(p, limit, l, i, q, c)
BY Zenon DEF RestIn, RestAt, Slice

\* Reading of frame f at depth i goes on at p after a child whose DER is a, and
\* ends at q with the DER y.
CompletesIn(w, f, i, p, a, q, y) ==
  \E c : /\ RestIn(w, p, f.limit, Levels(i), f.indefinite, q, c)
         /\ y = EncodeTo(f.tagBytes, (f.inner \o a) \o c)

\* The frames of s are completed from p and a on, and the outermost object ends
\* at k with the DER x.
Links(w, s, p, a, k, x, E, X) ==
  /\ E[Len(s) + 1] = p /\ X[Len(s) + 1] = a /\ E[1] = k /\ X[1] = x
  /\ \A i \in 1 .. Len(s) : CompletesIn(w, s[i], i, E[i + 1], X[i + 1], E[i], X[i])
ChainIn(w, s, p, a, k, x) == \E E, X : Links(w, s, p, a, k, x, E, X)

\* With nothing open, the object has ended and its encoding is at hand.
LEMMA ChainEmpty ==
  ASSUME NEW w, NEW p, NEW a, NEW k, NEW x
  PROVE  ChainIn(w, <<>>, p, a, k, x) <=> k = p /\ x = a
<1>1. Len(<<>>) + 1 = 1 /\ 1 .. Len(<<>>) = {}
  OBVIOUS
<1>2. ASSUME ChainIn(w, <<>>, p, a, k, x)
      PROVE  k = p /\ x = a
  BY <1>1, <1>2, Zenon DEF ChainIn, Links
<1>3. ChainIn(w, <<>>, p, a, p, a)
  <2> DEFINE E == [i \in {1} |-> p]
             X == [i \in {1} |-> a]
  <2>1. E[1] = p /\ X[1] = a
    OBVIOUS
  <2> HIDE DEF E, X
  <2>2. Links(w, <<>>, p, a, p, a, E, X)
    BY <1>1, <2>1, Zenon DEF Links
  <2> QED BY <2>2, Zenon DEF ChainIn
<1> QED BY <1>2, <1>3, Zenon

\* The innermost object is completed first.
LEMMA ChainOver ==
  ASSUME NEW s, NEW t, NEW n \in Nat, Len(t) = n, Len(s) = n + 1,
         \A i \in 1 .. n : t[i] = s[i],
         NEW w, NEW p, NEW a, NEW k, NEW x
  PROVE  ChainIn(w, s, p, a, k, x) <=>
           \E e, z : CompletesIn(w, s[n + 1], n + 1, p, a, e, z) /\ ChainIn(w, t, e, z, k, x)
<1>1. n + 1 \in 1 .. n + 1 /\ \A i \in 1 .. n : i \in 1 .. n + 1
  OBVIOUS
<1>2. ASSUME NEW E, NEW X, Links(w, s, p, a, k, x, E, X)
      PROVE  \E e, z : CompletesIn(w, s[n + 1], n + 1, p, a, e, z) /\ ChainIn(w, t, e, z, k, x)
  <2>1. /\ E[(n + 1) + 1] = p /\ X[(n + 1) + 1] = a /\ E[1] = k /\ X[1] = x
        /\ \A i \in 1 .. n + 1 : CompletesIn(w, s[i], i, E[i + 1], X[i + 1], E[i], X[i])
    BY <1>2, Zenon DEF Links
  <2>2. CompletesIn(w, s[n + 1], n + 1, p, a, E[n + 1], X[n + 1])
    BY ONLY <1>1, <2>1, Zenon
  <2>3. \A i \in 1 .. n : CompletesIn(w, t[i], i, E[i + 1], X[i + 1], E[i], X[i])
    BY <1>1, <2>1, Zenon
  <2>4. Links(w, t, E[n + 1], X[n + 1], k, x, E, X)
    BY <2>1, <2>3, Zenon DEF Links
  <2> QED BY <2>2, <2>4, Zenon DEF ChainIn
<1>3. ASSUME NEW e, NEW z, NEW E, NEW X, CompletesIn(w, s[n + 1], n + 1, p, a, e, z),
             Links(w, t, e, z, k, x, E, X)
      PROVE  ChainIn(w, s, p, a, k, x)
  <2> DEFINE F == [i \in 1 .. n + 2 |-> IF i = n + 2 THEN p ELSE E[i]]
             Y == [i \in 1 .. n + 2 |-> IF i = n + 2 THEN a ELSE X[i]]
  <2>1. /\ E[n + 1] = e /\ X[n + 1] = z /\ E[1] = k /\ X[1] = x
        /\ \A i \in 1 .. n : CompletesIn(w, t[i], i, E[i + 1], X[i + 1], E[i], X[i])
    BY <1>3, Zenon DEF Links
  <2>2. F[n + 2] = p /\ Y[n + 2] = a
    OBVIOUS
  <2>3. \A i \in 1 .. n + 1 : F[i] = E[i] /\ Y[i] = X[i]
    OBVIOUS
  <2> HIDE DEF F, Y
  <2>4. (n + 1) + 1 = n + 2 /\ 1 \in 1 .. n + 1
    OBVIOUS
  <2>5. F[(n + 1) + 1] = p /\ Y[(n + 1) + 1] = a /\ F[1] = k /\ Y[1] = x
    BY <2>1, <2>2, <2>3, <2>4, Zenon
  <2>6. ASSUME NEW i \in 1 .. n + 1
        PROVE  CompletesIn(w, s[i], i, F[i + 1], Y[i + 1], F[i], Y[i])
    <3>1. CASE i = n + 1
      <4>1. F[i + 1] = p /\ Y[i + 1] = a /\ F[i] = e /\ Y[i] = z
        BY <1>1, <2>1, <2>3, <2>5, <3>1, Zenon
      <4> QED BY <1>3, <3>1, <4>1, Zenon
    <3>2. CASE i # n + 1
      <4>1. i \in 1 .. n /\ i + 1 \in 1 .. n + 1
        BY <3>2
      <4>2. F[i + 1] = E[i + 1] /\ Y[i + 1] = X[i + 1] /\ F[i] = E[i] /\ Y[i] = X[i]
        BY <2>3, <4>1, Zenon
      <4> QED BY <2>1, <4>1, <4>2, Zenon
    <3> QED BY <3>1, <3>2
  <2>7. Links(w, s, p, a, k, x, F, Y)
    BY <2>5, <2>6, Zenon DEF Links
  <2> QED BY <2>7, Zenon DEF ChainIn
<1> QED BY <1>2, <1>3, Zenon DEF ChainIn

\* The innermost object of a stack that is not empty is completed first.
LEMMA ChainTop ==
  ASSUME NEW s \in Seq(Frame), s # <<>>, NEW w, NEW p, NEW a, NEW k, NEW x
  PROVE  ChainIn(w, s, p, a, k, x) <=>
           \E e, z : /\ CompletesIn(w, s[Len(s)], Len(s), p, a, e, z)
                     /\ ChainIn(w, Pop(s), e, z, k, x)
<1> DEFINE n == Len(s) - 1
           t == Pop(s)
<1>1. n \in Nat /\ Len(t) = n /\ Len(s) = n + 1 /\ \A i \in 1 .. n : t[i] = s[i]
  BY PopIs
<1> HIDE DEF n, t
<1>2. ChainIn(w, s, p, a, k, x) <=>
        \E e, z : CompletesIn(w, s[n + 1], n + 1, p, a, e, z) /\ ChainIn(w, t, e, z, k, x)
  BY ONLY <1>1, ChainOver
<1> QED BY <1>1, <1>2, Zenon DEF t

\* A child that has been added to the frame is no longer carried along.
LEMMA ChainInner ==
  ASSUME NEW s \in Seq(Frame), s # <<>>, NEW der \in Seq(Byte),
         NEW t, t = [s EXCEPT ![Len(s)].inner = @ \o der],
         NEW w, NEW p, NEW k, NEW x
  PROVE  ChainIn(w, t, p, <<>>, k, x) <=> ChainIn(w, s, p, der, k, x)
<1> DEFINE n == Len(s) - 1
           r == Pop(s)
           f == s[Len(s)]
           g == [f EXCEPT !.inner = @ \o der]
<1>1. /\ n \in Nat /\ Len(r) = n /\ Len(s) = n + 1 /\ Len(s) \in 1 .. Len(s)
      /\ \A i \in 1 .. n : r[i] = s[i]
  BY PopIs
<1>2. f \in Frame
  BY <1>1, ElementOfSeq
<1>3. f.inner \in Seq(Byte) /\ f.inner \o der \in Seq(Byte)
  <2>1. f.inner \in Seq(Byte)
    BY <1>2 DEF Frame
  <2> QED BY <2>1, ConcatProperties
<1>4. /\ g \in Frame /\ g.limit = f.limit /\ g.indefinite = f.indefinite
      /\ g.tagBytes = f.tagBytes /\ g.inner = f.inner \o der
  BY <1>2, <1>3 DEF Frame
<1>5. t = [s EXCEPT ![Len(s)] = g]
  OBVIOUS
<1> HIDE DEF f, g, r, n
<1>6. /\ t \in Seq(Frame) /\ Len(t) = Len(s) /\ t[Len(s)] = g
      /\ \A i \in 1 .. Len(s) : i # Len(s) => t[i] = s[i]
  BY ONLY <1>1, <1>4, <1>5, s \in Seq(Frame), ExceptSeq
<1>7. \A i \in 1 .. n : r[i] = t[i]
  BY <1>1, <1>6
<1>8. t[n + 1] = g /\ s[n + 1] = f /\ Len(t) = n + 1
  BY <1>1, <1>6 DEF f
<1>9. ASSUME NEW e, NEW z
      PROVE  CompletesIn(w, g, n + 1, p, <<>>, e, z) <=> CompletesIn(w, f, n + 1, p, der, e, z)
  <2>1. g.inner \o <<>> = f.inner \o der
    BY <1>3, <1>4, ConcatEmptySeq
  <2> QED BY <1>4, <2>1, Zenon DEF CompletesIn
<1>10. ChainIn(w, s, p, der, k, x) <=>
         \E e, z : CompletesIn(w, s[n + 1], n + 1, p, der, e, z) /\ ChainIn(w, r, e, z, k, x)
  BY ONLY <1>1, ChainOver
<1>11. ChainIn(w, t, p, <<>>, k, x) <=>
         \E e, z : CompletesIn(w, t[n + 1], n + 1, p, <<>>, e, z) /\ ChainIn(w, r, e, z, k, x)
  BY ONLY <1>1, <1>7, <1>8, ChainOver
<1> QED BY <1>8, <1>9, <1>10, <1>11, Zenon

\* Returning from readObject keeps the chain, from the stack of the callers on.
LEMMA ReturnChain ==
  ASSUME NEW s \in Seq(Frame), NEW der \in Seq(Byte), status = "running", out = <<>>,
         Return(der, s)
  PROVE  /\ \A w, p, k, x : ChainIn(w, stack', p, out', k, x) <=> ChainIn(w, s, p, der, k, x)
         /\ status' \in {"running", "done"}
         /\ status' = "running" => out' = <<>> /\ stack' # <<>>
<1>1. CASE s = <<>>
  <2>1. status' = "done" /\ out' = der /\ stack' = s
    BY <1>1 DEF Return
  <2> QED BY <2>1
<1>2. CASE s # <<>>
  <2>1. /\ stack' = [s EXCEPT ![Len(s)].inner = @ \o der]
        /\ status' = status /\ out' = out
    BY <1>2 DEF Return
  <2>2. \A w, p, k, x : ChainIn(w, stack', p, <<>>, k, x) <=> ChainIn(w, s, p, der, k, x)
    BY <1>2, <2>1, ChainInner, ZenonT(40)
  <2>3. stack' # <<>>
    <3>1. DOMAIN stack' = DOMAIN s /\ DOMAIN s # {}
      BY <1>2, <2>1
    <3>2. DOMAIN <<>> = {}
      OBVIOUS
    <3> QED BY <3>1, <3>2, Zenon
  <2> QED BY <2>1, <2>2, <2>3
<1> QED BY <1>1, <1>2

(***************************************************************************)
(* The invariant that ties the reader to the grammar: the input begins     *)
(* with an object that ends at k and whose DER is x exactly when the open  *)
(* objects can be completed so, from where the reader is.                  *)
(***************************************************************************)

Derives(k, x) == ObjectIn(input, 0, Len(input), Levels(0), k, x)

GrammarInv ==
  /\ status = "running" => out = <<>> /\ (stack = <<>> => offset = 0)
  /\ (status = "running" /\ stack # <<>>) \/ status = "done" =>
       \A k, x : Derives(k, x) <=> ChainIn(input, stack, offset, out, k, x)
  /\ status = "error" => \A k, x : ~Derives(k, x)

\* The innermost open object, by the invariant.
LEMMA TopFacts ==
  ASSUME BerInv, stack # <<>>
  PROVE  /\ Top \in Frame /\ Top = stack[Len(stack)]
         /\ Top.limit \in Nat /\ Top.limit <= Len(input) /\ offset <= Top.limit
         /\ ~Top.indefinite => Top.limit = Top.contentEnd
         /\ Top.indefinite \in BOOLEAN
         /\ Top.inner \in Seq(Byte) /\ Top.tagBytes \in Seq(Byte)
<1>1. stack \in Seq(Frame) /\ Len(stack) \in 1 .. Len(stack)
  BY DEF BerInv, TypeOK
<1>2. /\ Limit \in Nat /\ offset <= Limit /\ Limit <= Len(input)
      /\ Limit = stack[Len(stack)].limit
      /\ Top = stack[Len(stack)]
      /\ Top \in Frame
  BY LimitBounds
<1>3. ~Top.indefinite => Top.limit = Top.contentEnd
  BY <1>1, <1>2, Zenon DEF BerInv, Nested
<1>4. Top.indefinite \in BOOLEAN /\ Top.inner \in Seq(Byte) /\ Top.tagBytes \in Seq(Byte)
  BY <1>2 DEF Frame
<1> QED BY <1>2, <1>3, <1>4

\* The variables, by the invariant.
LEMMA RunFacts ==
  ASSUME BerInv
  PROVE  /\ input \in Seq(Byte) /\ Len(input) \in Nat /\ offset \in Nat /\ stack \in Seq(Frame)
         /\ Len(stack) \in Nat /\ Len(stack) <= MaxNestingDepth + 1
         /\ Levels(Len(stack)) \in Nat
<1>1. /\ input \in Seq(Byte) /\ offset \in Nat /\ stack \in Seq(Frame)
      /\ Len(stack) <= MaxNestingDepth + 1
  BY Zenon DEF BerInv, TypeOK
<1>2. Len(input) \in Nat /\ Len(stack) \in Nat
  BY <1>1, LenProperties
<1>3. Levels(Len(stack)) \in Nat
  BY <1>1, <1>2, BerAssumption DEF Levels
<1> QED BY <1>1, <1>2, <1>3

\* What the encoding of a content is, with one more object in it.
LEMMA RestBytes ==
  ASSUME input \in Seq(Byte), NEW p \in Nat, NEW limit \in Nat, limit <= Len(input),
         NEW l \in Nat, NEW i \in BOOLEAN, NEW q, NEW c, RestAt(p, limit, l, i, q, c)
  PROVE  c \in Seq(Byte)
<1>0. Len(input) \in Nat
  BY LenProperties
<1>1. CASE i = FALSE
  <2>1. p <= limit /\ c \in Contents[PartOf(Slice(p, limit), l, FALSE)]
    BY <1>1, Zenon DEF RestAt
  <2>2. Slice(p, limit) \in Seq(Byte)
    BY <2>1, SliceIs
  <2> QED BY <2>1, <2>2, ContentsBytes
<1>2. CASE i = TRUE
  <2> DEFINE b == q - 2
  <2>1. /\ q \in Nat /\ p + 2 <= q /\ q <= limit
        /\ c \in Contents[PartOf(Slice(p, b), l, TRUE)]
    BY <1>2, Zenon DEF RestAt
  <2>2. b \in Nat /\ p <= b /\ b <= Len(input)
    BY <1>0, <2>1
  <2> HIDE DEF b
  <2>3. Slice(p, b) \in Seq(Byte)
    BY <2>2, SliceIs
  <2> QED BY <2>1, <2>3, ContentsBytes
<1> QED BY <1>1, <1>2

\* An object ends in the slice, and its encoding is a string of bytes.
LEMMA ObjectBytes ==
  ASSUME input \in Seq(Byte), NEW p \in Nat, NEW limit \in Nat, limit <= Len(input),
         NEW l \in Nat, NEW q, NEW y, ObjectAt(p, limit, l, q, y)
  PROVE  /\ q \in Nat /\ p <= q /\ q <= limit /\ y \in Seq(Byte)
<1>1. q \in Nat /\ p <= q /\ q <= limit /\ y \in DersOf(Slice(p, q), l)
  BY Zenon DEF ObjectAt
<1>2. q <= Len(input)
  BY <1>1, LenProperties
<1>3. Slice(p, q) \in Seq(Byte)
  BY <1>1, <1>2, SliceIs
<1>4. y \in Seq(Byte)
  BY <1>1, <1>3, DerIsDer
<1> QED BY <1>1, <1>4

\* Byte strings are concatenated in any grouping.
LEMMA Associative == \A s, t, u \in Seq(Byte) : (s \o t) \o u = s \o (t \o u)
BY ConcatAssociative

\* How the innermost object is completed from p on.
LEMMA TopCompletes ==
  ASSUME BerInv, stack # <<>>, NEW p \in Nat, NEW a \in Seq(Byte), NEW e, NEW z
  PROVE  CompletesIn(input, Top, Len(stack), p, a, e, z) <=>
           \E c : /\ RestAt(p, Top.limit, Levels(Len(stack)), Top.indefinite, e, c)
                  /\ z = EncodeTo(Top.tagBytes, Top.inner \o (a \o c))
<1> DEFINE l == Levels(Len(stack))
           r(c) == RestAt(p, Top.limit, l, Top.indefinite, e, c)
<1>1. /\ Top.limit \in Nat /\ Top.limit <= Len(input)
      /\ Top.indefinite \in BOOLEAN /\ Top.inner \in Seq(Byte)
  BY TopFacts
<1>2. input \in Seq(Byte) /\ l \in Nat
  BY RunFacts
<1>3. ASSUME NEW c, r(c)
      PROVE  (Top.inner \o a) \o c = Top.inner \o (a \o c)
  <2>1. c \in Seq(Byte)
    BY <1>1, <1>2, <1>3, RestBytes
  <2> QED BY ONLY <1>1, <2>1, a \in Seq(Byte), Associative, Zenon
<1>4. \A c : RestIn(input, p, Top.limit, l, Top.indefinite, e, c) <=> r(c)
  BY RestInIs, Zenon
<1>5. CompletesIn(input, Top, Len(stack), p, a, e, z) <=>
        \E c : r(c) /\ z = EncodeTo(Top.tagBytes, (Top.inner \o a) \o c)
  BY <1>4, Zenon DEF CompletesIn
<1> HIDE DEF r
<1>6. CompletesIn(input, Top, Len(stack), p, a, e, z) <=>
        \E c : r(c) /\ z = EncodeTo(Top.tagBytes, Top.inner \o (a \o c))
  BY <1>3, <1>5, Zenon
<1> QED BY <1>6 DEF r

\* The same, and how all of the open objects are completed.
AllComplete(p, a, k, x) ==
  \E e, c : /\ RestAt(p, Top.limit, Levels(Len(stack)), Top.indefinite, e, c)
            /\ ChainIn(input, Pop(stack), e, EncodeTo(Top.tagBytes, Top.inner \o (a \o c)), k, x)

\* All of the open objects are completed from the innermost one on.
LEMMA ChainCompletes ==
  ASSUME BerInv, stack # <<>>, NEW p \in Nat, NEW a \in Seq(Byte), NEW k, NEW x
  PROVE  ChainIn(input, stack, p, a, k, x) <=> AllComplete(p, a, k, x)
<1> DEFINE n == Len(stack)
           completes(e, z) == CompletesIn(input, Top, n, p, a, e, z)
           rest(e, c) == RestAt(p, Top.limit, Levels(n), Top.indefinite, e, c)
           enc(c) == EncodeTo(Top.tagBytes, Top.inner \o (a \o c))
           after(e, z) == ChainIn(input, Pop(stack), e, z, k, x)
<1>1. stack \in Seq(Frame) /\ Top = stack[n]
  BY RunFacts, TopFacts, Zenon
<1>2. ChainIn(input, stack, p, a, k, x) <=> \E e, z : completes(e, z) /\ after(e, z)
  <2>1. ChainIn(input, stack, p, a, k, x) <=>
          \E e, z : CompletesIn(input, stack[n], n, p, a, e, z) /\ after(e, z)
    BY <1>1, ChainTop
  <2> QED BY <1>1, <2>1, Zenon
<1>3. \A e, z : completes(e, z) <=> \E c : rest(e, c) /\ z = enc(c)
  BY TopCompletes, Zenon
<1>4. AllComplete(p, a, k, x) <=> \E e, c : rest(e, c) /\ after(e, enc(c))
  BY Zenon DEF AllComplete
<1> HIDE DEF completes, rest, enc, after
<1> QED BY ONLY <1>2, <1>3, <1>4, Zenon

\* Where readObject is called, the input is an object exactly when there is one
\* at the position of the call that completes the open objects.
LEMMA CallChain ==
  ASSUME BerInv, GrammarInv, status = "running", CallsReadObject, NEW k, NEW x
  PROVE  Derives(k, x) <=>
           \E q, y : /\ ObjectAt(offset, Limit, Levels(Len(stack)), q, y)
                     /\ ChainIn(input, stack, q, y, k, x)
<1> DEFINE n == Len(stack)
           l == Levels(n)
<1>1. /\ input \in Seq(Byte) /\ Len(input) \in Nat /\ offset \in Nat /\ stack \in Seq(Frame)
      /\ n \in Nat /\ n <= MaxNestingDepth + 1 /\ l \in Nat
  BY RunFacts
<1>2. CASE stack = <<>>
  <2>1. offset = 0 /\ Limit = Len(input) /\ n = 0
    BY <1>2 DEF GrammarInv, Limit
  <2>2. \A q, y : ChainIn(input, stack, q, y, k, x) <=> k = q /\ x = y
    BY <1>2, ChainEmpty, ZenonT(30)
  <2>3. Derives(k, x) <=> ObjectAt(offset, Limit, l, k, x)
    BY <2>1, ObjectInIs, Zenon DEF Derives
  <2> QED BY <2>2, <2>3, Zenon
<1>3. CASE stack # <<>>
  <2> DEFINE f == Top
             lim == f.limit
             i == f.indefinite
             rest(p, e, c) == RestAt(p, lim, l, i, e, c)
             object(q, y) == ObjectAt(offset, lim, l, q, y)
             split(e, c) == \E m, y, r : object(m, y) /\ rest(m, e, r) /\ c = y \o r
             after(e, c) == ChainIn(input, Pop(stack), e, EncodeTo(f.tagBytes, f.inner \o c), k, x)
  <2>1. /\ lim \in Nat /\ lim <= Len(input) /\ offset <= lim
        /\ ~i => lim = f.contentEnd
        /\ i \in BOOLEAN
    BY <1>3, TopFacts
  <2>2. Limit = lim
    BY <1>3, Zenon DEF Limit
  <2>3. IF i THEN offset + 2 <= lim /\ ~(At(offset) = 0 /\ At(offset + 1) = 0) ELSE offset < lim
    <3>1. IF i THEN ~(lim - offset < 2) /\ ~(At(offset) = 0 /\ At(offset + 1) = 0)
               ELSE offset < f.contentEnd
      BY <1>3, Zenon DEF CallsReadObject, NoRoomForTermination, AtTermination
    <3>2. ~(lim - offset < 2) => offset + 2 <= lim
      BY <1>1, <2>1
    <3> QED BY <2>1, <3>1, <3>2
  <2>4. Derives(k, x) <=> ChainIn(input, stack, offset, <<>>, k, x)
    BY <1>3, Zenon DEF GrammarInv
  <2>5. \A p \in Nat : \A a \in Seq(Byte) :
          ChainIn(input, stack, p, a, k, x) <=> \E e, c : rest(p, e, c) /\ after(e, a \o c)
    <3> SUFFICES ASSUME NEW p \in Nat, NEW a \in Seq(Byte)
                 PROVE  ChainIn(input, stack, p, a, k, x) <=>
                          \E e, c : rest(p, e, c) /\ after(e, a \o c)
      OBVIOUS
    <3>1. ChainIn(input, stack, p, a, k, x) <=> AllComplete(p, a, k, x)
      BY <1>3, ChainCompletes, Zenon
    <3> QED BY <3>1, Zenon DEF AllComplete
  <2>6. \A e, c : rest(offset, e, c) <=> split(e, c)
    <3> SUFFICES ASSUME NEW e, NEW c
                 PROVE  rest(offset, e, c) <=> split(e, c)
      OBVIOUS
    <3>1. RestAt(offset, lim, l, i, e, c) <=> RestAfter(offset, lim, l, i, e, c)
      BY <1>1, <2>1, <2>3, RestSplits, Zenon
    <3> QED BY <3>1, Zenon DEF RestAfter
  <2>7. \A m, y : object(m, y) => m \in Nat /\ y \in Seq(Byte)
    BY <1>1, <2>1, ObjectBytes, Zenon
  <2>8. \A e, c : rest(offset, e, c) => <<>> \o c = c
    <3> SUFFICES ASSUME NEW e, NEW c, RestAt(offset, lim, l, i, e, c) PROVE <<>> \o c = c
      OBVIOUS
    <3>1. c \in Seq(Byte)
      BY <1>1, <2>1, RestBytes, Zenon
    <3> QED BY ONLY <3>1, ConcatEmptySeq, Zenon
  <2>9. <<>> \in Seq(Byte)
    BY EmptySeq
  <2> HIDE DEF rest, object, after, split
  <2>10. ChainIn(input, stack, offset, <<>>, k, x) <=>
           \E e, c : rest(offset, e, c) /\ after(e, c)
    <3>1. ChainIn(input, stack, offset, <<>>, k, x) <=>
            \E e, c : rest(offset, e, c) /\ after(e, <<>> \o c)
      BY <1>1, <2>5, <2>9, Zenon
    <3>2. \A e, c : rest(offset, e, c) => (after(e, <<>> \o c) <=> after(e, c))
      BY ONLY <2>8, Zenon
    <3> QED BY ONLY <3>1, <3>2, Zenon
  <2>11. ASSUME NEW e, NEW c, rest(offset, e, c), after(e, c)
         PROVE  \E q, y : object(q, y) /\ ChainIn(input, stack, q, y, k, x)
    <3>1. PICK m, y, r : object(m, y) /\ rest(m, e, r) /\ c = y \o r
      <4>1. split(e, c)
        BY <2>6, <2>11, Zenon
      <4> QED BY ONLY <4>1, Zenon DEF split
    <3>2. m \in Nat /\ y \in Seq(Byte)
      BY <2>7, <3>1, Zenon
    <3>3. after(e, y \o r)
      BY <2>11, <3>1, Zenon
    <3>4. ChainIn(input, stack, m, y, k, x)
      BY <2>5, <3>1, <3>2, <3>3, Zenon
    <3> QED BY <3>1, <3>4, Zenon
  <2>12. ASSUME NEW q, NEW y, object(q, y), ChainIn(input, stack, q, y, k, x)
         PROVE  \E e, c : rest(offset, e, c) /\ after(e, c)
    <3>1. q \in Nat /\ y \in Seq(Byte)
      BY <2>7, <2>12, Zenon
    <3>2. PICK e, r : rest(q, e, r) /\ after(e, y \o r)
      BY <2>5, <2>12, <3>1, Zenon
    <3>3. rest(offset, e, y \o r)
      BY <2>6, <2>12, <3>2, Zenon DEF split
    <3> QED BY <3>2, <3>3, Zenon
  <2>13. ChainIn(input, stack, offset, <<>>, k, x) <=>
           \E q, y : object(q, y) /\ ChainIn(input, stack, q, y, k, x)
    BY ONLY <2>10, <2>11, <2>12, Zenon
  <2> QED BY <2>2, <2>4, <2>13, Zenon DEF object
<1> QED BY <1>2, <1>3

(***************************************************************************)
(* Every step keeps the invariant.                                         *)
(***************************************************************************)

\* What the input is an encoding of does not change while it is read.
LEMMA DerivesKept == input' = input => \A k, x : Derives(k, x)' <=> Derives(k, x)
BY Zenon DEF Derives

\* A return keeps it when the chain starts with what is returned.
LEMMA ReturnGrammar ==
  ASSUME BerInv, GrammarInv, status = "running", input' = input,
         NEW s \in Seq(Frame), NEW der \in Seq(Byte), Return(der, s),
         \A k, x : Derives(k, x) <=> ChainIn(input, s, offset', der, k, x)
  PROVE  GrammarInv'
<1>1. out = <<>>
  BY Zenon DEF GrammarInv
<1>2. /\ \A w, p, k, x : ChainIn(w, stack', p, out', k, x) <=> ChainIn(w, s, p, der, k, x)
      /\ status' \in {"running", "done"}
      /\ status' = "running" => out' = <<>> /\ stack' # <<>>
  BY <1>1, ReturnChain
<1>3. \A k, x : Derives(k, x)' <=> ChainIn(input', stack', offset', out', k, x)
  BY <1>2, DerivesKept, Zenon
<1>4. status' # "error"
  BY <1>2
<1> QED BY <1>2, <1>3, <1>4, Zenon DEF GrammarInv

\* Position q and DER y are the only way to go on when nothing else is an object there.
LEMMA OneObject ==
  ASSUME NEW object(_, _), NEW e, NEW z, \A q, y : object(q, y) <=> q = e /\ y = z,
         NEW after(_, _)
  PROVE  (\E q, y : object(q, y) /\ after(q, y)) <=> after(e, z)
BY Zenon

\* A primitive object is the only object at its offset.
LEMMA ReadPrimitiveGrammar ==
  ASSUME BerInv, GrammarInv, ReadPrimitive
  PROVE  GrammarInv'
<1> DEFINE te == TagEnd(offset, Limit)
           e == ContentEnd(te)
           der == EncodeTo(Slice(offset, te), Slice(ContentStart(te), e))
           n == Len(stack)
           object(q, y) == ObjectAt(offset, Limit, Levels(n), q, y)
<1>1. /\ status = "running" /\ CallsReadObject /\ HeaderOK(offset, Limit, n)
      /\ ~Constructed(offset) /\ Return(der, stack) /\ offset' = e /\ input' = input
  BY Zenon DEF ReadPrimitive
<1>2. /\ input \in Seq(Byte) /\ Len(input) \in Nat /\ offset \in Nat /\ stack \in Seq(Frame)
      /\ n \in Nat /\ n <= MaxNestingDepth + 1 /\ Levels(n) \in Nat
      /\ Limit \in Nat /\ Limit <= Len(input)
  BY RunFacts, LimitBounds
<1> HIDE DEF n
<1>3. \A q, y : object(q, y) <=> q = e /\ y = der
  <2> SUFFICES ASSUME NEW q, NEW y PROVE object(q, y) <=> q = e /\ y = der
    OBVIOUS
  <2> QED BY <1>1, <1>2, ObjectPrimitive
<1>4. der \in Seq(Byte)
  <2>1. ObjectAt(offset, Limit, Levels(n), e, der)
    BY <1>3, Zenon
  <2> HIDE DEF e, der
  <2> QED BY <1>2, <2>1, ObjectBytes
<1>5. \A k, x : Derives(k, x) <=> \E q, y : object(q, y) /\ ChainIn(input, stack, q, y, k, x)
  BY <1>1, CallChain, Zenon DEF n
<1> HIDE DEF object, e, der
<1>6. \A k, x : Derives(k, x) <=> ChainIn(input, stack, offset', der, k, x)
  BY <1>1, <1>3, <1>5, Zenon
<1> QED BY <1>1, <1>2, <1>4, <1>6, ReturnGrammar

\* Where the header is refused there is no object, so the open ones have no end.
LEMMA RejectHeaderGrammar ==
  ASSUME BerInv, GrammarInv, RejectHeader
  PROVE  GrammarInv'
<1> DEFINE n == Len(stack)
           object(q, y) == ObjectAt(offset, Limit, Levels(n), q, y)
<1>1. /\ status = "running" /\ CallsReadObject /\ ~HeaderOK(offset, Limit, n)
      /\ status' = "error" /\ input' = input
  BY Zenon DEF RejectHeader
<1>2. /\ input \in Seq(Byte) /\ Len(input) \in Nat /\ offset \in Nat
      /\ n \in Nat /\ n <= MaxNestingDepth + 1
      /\ Limit \in Nat /\ Limit <= Len(input)
  BY RunFacts, LimitBounds
<1> HIDE DEF n
<1>3. \A q, y : ~object(q, y)
  BY <1>1, <1>2, ObjectRefused, Zenon
<1>4. \A k, x : Derives(k, x) <=> \E q, y : object(q, y) /\ ChainIn(input, stack, q, y, k, x)
  BY <1>1, CallChain, Zenon DEF n
<1> HIDE DEF object
<1>5. \A k, x : ~Derives(k, x)'
  BY <1>1, <1>3, <1>4, DerivesKept, Zenon
<1>6. status' # "running" /\ status' # "done"
  BY <1>1
<1> QED BY <1>5, <1>6, Zenon DEF GrammarInv

\* Without room for the marker an indefinite object has no end.
LEMMA RejectUnterminatedGrammar ==
  ASSUME BerInv, GrammarInv, RejectUnterminated
  PROVE  GrammarInv'
<1> DEFINE rest(e, c) == RestAt(offset, Top.limit, Levels(Len(stack)), Top.indefinite, e, c)
<1>1. /\ status = "running" /\ stack # <<>> /\ Top.indefinite
      /\ Top.limit - offset < 2 /\ status' = "error" /\ input' = input
  BY Zenon DEF RejectUnterminated, NoRoomForTermination
<1>2. /\ Top.indefinite = TRUE /\ Top.limit \in Nat /\ Top.limit <= Len(input)
      /\ offset <= Top.limit
  BY <1>1, TopFacts
<1>3. input \in Seq(Byte) /\ offset \in Nat /\ Levels(Len(stack)) \in Nat
  BY RunFacts
<1>4. \A e, c : ~RestAt(offset, Top.limit, Levels(Len(stack)), TRUE, e, c)
  BY <1>1, <1>2, <1>3, RestWithoutRoom
<1>5. \A e, c : ~rest(e, c)
  BY <1>2, <1>4
<1>6. \A k, x : Derives(k, x) <=> ChainIn(input, stack, offset, <<>>, k, x)
  BY <1>1, Zenon DEF GrammarInv
<1>7. <<>> \in Seq(Byte)
  BY EmptySeq
<1>8. ASSUME NEW k, NEW x PROVE ~ChainIn(input, stack, offset, <<>>, k, x)
  <2>1. ChainIn(input, stack, offset, <<>>, k, x) <=> AllComplete(offset, <<>>, k, x)
    BY <1>1, <1>3, <1>7, ChainCompletes
  <2> QED BY <1>5, <2>1, Zenon DEF AllComplete
<1>9. \A k, x : ~Derives(k, x)'
  BY <1>1, <1>6, <1>8, DerivesKept, Zenon
<1>10. status' # "running" /\ status' # "done"
  BY <1>1
<1> QED BY <1>9, <1>10, Zenon DEF GrammarInv

\* A frame that has just been opened is completed by what completes the object.
LEMMA FrameCompletes ==
  ASSUME input \in Seq(Byte), NEW f, f.inner = <<>>, f.limit \in Nat, f.limit <= Len(input),
         f.indefinite \in BOOLEAN, NEW d, Levels(d) \in Nat, NEW p \in Nat, NEW e, NEW z
  PROVE  CompletesIn(input, f, d, p, <<>>, e, z) <=>
           ContentAt(p, f.limit, Levels(d), f.indefinite, f.tagBytes, e, z)
<1> DEFINE r(c) == RestAt(p, f.limit, Levels(d), f.indefinite, e, c)
<1>1. ASSUME NEW c, r(c) PROVE (f.inner \o <<>>) \o c = c
  <2>1. c \in Seq(Byte)
    BY <1>1, RestBytes
  <2>2. <<>> \o <<>> = <<>> /\ <<>> \o c = c
    BY ONLY <2>1, EmptySeq, ConcatEmptySeq
  <2> QED BY ONLY <2>2, f.inner = <<>>, Zenon
<1>2. \A c : RestIn(input, p, f.limit, Levels(d), f.indefinite, e, c) <=> r(c)
  BY RestInIs, Zenon
<1>3. CompletesIn(input, f, d, p, <<>>, e, z) <=>
        \E c : r(c) /\ z = EncodeTo(f.tagBytes, (f.inner \o <<>>) \o c)
  BY <1>2, Zenon DEF CompletesIn
<1> HIDE DEF r
<1>4. CompletesIn(input, f, d, p, <<>>, e, z) <=> \E c : r(c) /\ z = EncodeTo(f.tagBytes, c)
  BY ONLY <1>1, <1>3, Zenon
<1> QED BY <1>4, Zenon DEF r, ContentAt

\* A constructed object is completed by completing its frame.
LEMMA OpenConstructedGrammar ==
  ASSUME BerInv, GrammarInv, OpenConstructed
  PROVE  GrammarInv'
<1> DEFINE te == TagEnd(offset, Limit)
           start == ContentStart(te)
           f == NewFrame(te)
           n == Len(stack)
           l == Levels(n)
           object(q, y) == ObjectAt(offset, Limit, l, q, y)
<1>1. /\ status = "running" /\ CallsReadObject /\ HeaderOK(offset, Limit, n)
      /\ Constructed(offset) /\ stack' = Append(stack, f)
      /\ offset' = start /\ input' = input /\ status' = status /\ out' = out
  BY Zenon DEF OpenConstructed
<1>2. /\ input \in Seq(Byte) /\ Len(input) \in Nat /\ offset \in Nat /\ stack \in Seq(Frame)
      /\ n \in Nat /\ n <= MaxNestingDepth + 1 /\ l \in Nat
      /\ Limit \in Nat /\ Limit <= Len(input)
  BY RunFacts, LimitBounds
<1>3. /\ f.tagBytes = Slice(offset, te)
      /\ f.limit = IF Indefinite(te) THEN Limit ELSE ContentEnd(te)
      /\ f.indefinite = Indefinite(te) /\ f.inner = <<>>
  BY DEF NewFrame
<1>4. /\ start \in Nat /\ ContentEnd(te) \in Nat /\ ContentEnd(te) <= Limit
      /\ l \in Nat \ {0}
  <2> HIDE DEF l, n
  <2> QED BY <1>1, <1>2, HeaderAccepted, Zenon DEF l
<1>5. f.limit \in Nat /\ f.limit <= Len(input)
  <2> HIDE DEF f, te
  <2> QED BY <1>2, <1>3, <1>4
<1>6. f.indefinite \in BOOLEAN
  BY <1>3 DEF Indefinite
<1>7. Levels(n + 1) = l - 1 /\ Levels(n + 1) \in Nat
  BY <1>2, <1>4, BerAssumption DEF Levels
<1>8. \A q, y : object(q, y) <=>
        ContentAt(start, f.limit, l - 1, f.indefinite, f.tagBytes, q, y)
  <2> SUFFICES ASSUME NEW q, NEW y
               PROVE  object(q, y) <=>
                        ContentAt(start, f.limit, l - 1, f.indefinite, f.tagBytes, q, y)
    OBVIOUS
  <2> DEFINE end == f.limit
  <2>1. end = IF Indefinite(te) THEN Limit ELSE ContentEnd(te)
    BY <1>3, Zenon
  <2> HIDE DEF end, n, f
  <2>2. object(q, y) <=>
          ContentAt(start, end, l - 1, Indefinite(te), Slice(offset, te), q, y)
    BY <1>1, <1>2, <2>1, ObjectConstructed, Zenon
  <2> QED BY <1>3, <2>2, Zenon DEF end
<1> HIDE DEF f, te, start, object, l
<1>9. \A q, y : CompletesIn(input, f, n + 1, start, <<>>, q, y) <=> object(q, y)
  <2> SUFFICES ASSUME NEW q, NEW y
               PROVE  CompletesIn(input, f, n + 1, start, <<>>, q, y) <=> object(q, y)
    OBVIOUS
  <2> DEFINE d == n + 1
  <2>1. Levels(d) \in Nat /\ Levels(d) = l - 1
    BY <1>7
  <2> HIDE DEF d
  <2>2. CompletesIn(input, f, d, start, <<>>, q, y) <=>
          ContentAt(start, f.limit, Levels(d), f.indefinite, f.tagBytes, q, y)
    BY <1>2, <1>3, <1>4, <1>5, <1>6, <2>1, FrameCompletes, Zenon
  <2> QED BY <1>8, <2>1, <2>2, Zenon DEF d
<1>10. /\ Len(stack') = n + 1 /\ stack'[n + 1] = f /\ stack' # <<>>
       /\ \A j \in 1 .. n : stack[j] = stack'[j]
  BY <1>1, <1>2
<1>11. \A k, x : ChainIn(input, stack', start, <<>>, k, x) <=>
         \E q, y : object(q, y) /\ ChainIn(input, stack, q, y, k, x)
  <2> SUFFICES ASSUME NEW k, NEW x
               PROVE  ChainIn(input, stack', start, <<>>, k, x) <=>
                        \E q, y : object(q, y) /\ ChainIn(input, stack, q, y, k, x)
    OBVIOUS
  <2>1. ChainIn(input, stack', start, <<>>, k, x) <=>
          \E q, y : /\ CompletesIn(input, stack'[n + 1], n + 1, start, <<>>, q, y)
                    /\ ChainIn(input, stack, q, y, k, x)
    BY ONLY <1>2, <1>10, ChainOver, SMTT(20)
  <2> QED BY <1>9, <1>10, <2>1, Zenon
<1>12. \A k, x : Derives(k, x) <=> \E q, y : object(q, y) /\ ChainIn(input, stack, q, y, k, x)
  BY <1>1, CallChain, Zenon DEF object, l
<1>13. out' = <<>> /\ status' = "running"
  BY <1>1 DEF GrammarInv
<1>14. \A k, x : Derives(k, x)' <=> ChainIn(input', stack', offset', out', k, x)
  BY <1>1, <1>11, <1>12, <1>13, DerivesKept, Zenon
<1>15. status' # "error"
  BY <1>13
<1> QED BY <1>10, <1>13, <1>14, <1>15, Zenon DEF GrammarInv

\* When nothing is left of the innermost object, it returns to its caller.
LEMMA CloseGrammar ==
  ASSUME BerInv, GrammarInv, status = "running", stack # <<>>, input' = input,
         Return(EncodeTo(Top.tagBytes, Top.inner), Pop(stack)),
         \A e, c : RestAt(offset, Top.limit, Levels(Len(stack)), Top.indefinite, e, c) <=>
                     e = offset' /\ c = <<>>
  PROVE  GrammarInv'
<1> DEFINE der == EncodeTo(Top.tagBytes, Top.inner)
           s == Pop(stack)
<1>1. Top.inner \in Seq(Byte) /\ Top.tagBytes \in Seq(Byte)
  BY TopFacts
<1>2. offset \in Nat /\ stack \in Seq(Frame)
  BY RunFacts
<1>3. <<>> \in Seq(Byte)
  BY EmptySeq
<1>4. Top.inner \o (<<>> \o <<>>) = Top.inner
  <2>1. <<>> \o <<>> = <<>> /\ Top.inner \o <<>> = Top.inner
    BY ONLY <1>1, EmptySeq, ConcatEmptySeq
  <2> QED BY ONLY <2>1, Zenon
<1>5. der \in Seq(Byte)
  BY <1>1, EncodeToType
<1>6. s \in Seq(Frame)
  BY <1>2, PopIs
<1>7. \A k, x : Derives(k, x) <=> ChainIn(input, stack, offset, <<>>, k, x)
  BY Zenon DEF GrammarInv
<1>8. \A k, x : ChainIn(input, stack, offset, <<>>, k, x) <=> AllComplete(offset, <<>>, k, x)
  BY <1>2, <1>3, ChainCompletes, Zenon
<1>9. \A k, x : AllComplete(offset, <<>>, k, x) <=> ChainIn(input, s, offset', der, k, x)
  <2> SUFFICES ASSUME NEW k, NEW x
               PROVE  AllComplete(offset, <<>>, k, x) <=> ChainIn(input, s, offset', der, k, x)
    OBVIOUS
  <2> DEFINE rest(e, c) == RestAt(offset, Top.limit, Levels(Len(stack)), Top.indefinite, e, c)
             enc(a) == EncodeTo(Top.tagBytes, Top.inner \o a)
             after(e, z) == ChainIn(input, s, e, z, k, x)
  <2>1. \A e, c : rest(e, c) <=> e = offset' /\ c = <<>>
    OBVIOUS
  <2>2. AllComplete(offset, <<>>, k, x) <=>
          \E e, c : rest(e, c) /\ after(e, enc(<<>> \o c))
    BY Zenon DEF AllComplete
  <2>3. enc(<<>> \o <<>>) = der
    BY <1>4, Zenon
  <2> HIDE DEF rest, enc, after
  <2>4. AllComplete(offset, <<>>, k, x) <=> after(offset', enc(<<>> \o <<>>))
    BY ONLY <2>1, <2>2, Zenon
  <2> QED BY <2>3, <2>4, Zenon DEF after
<1>10. \A k, x : Derives(k, x) <=> ChainIn(input, s, offset', der, k, x)
  BY ONLY <1>7, <1>8, <1>9, Zenon
<1>11. Return(der, s)
  OBVIOUS
<1> HIDE DEF der, s
<1> QED BY <1>5, <1>6, <1>10, <1>11, ReturnGrammar

\* At the content end nothing is left of a definite object.
LEMMA CloseDefiniteGrammar ==
  ASSUME BerInv, GrammarInv, CloseDefinite
  PROVE  GrammarInv'
<1> DEFINE l == Levels(Len(stack))
<1>1. /\ status = "running" /\ stack # <<>> /\ ~Top.indefinite /\ offset >= Top.contentEnd
      /\ Return(EncodeTo(Top.tagBytes, Top.inner), Pop(stack))
      /\ offset' = Top.contentEnd /\ input' = input
  BY Zenon DEF CloseDefinite
<1>2. /\ Top.indefinite = FALSE /\ Top.limit \in Nat /\ Top.limit <= Len(input)
      /\ offset <= Top.limit /\ Top.limit = Top.contentEnd
  BY <1>1, TopFacts
<1>3. input \in Seq(Byte) /\ offset \in Nat /\ l \in Nat
  BY RunFacts
<1>4. offset = Top.limit /\ offset' = Top.limit
  BY <1>1, <1>2, <1>3
<1> HIDE DEF l
<1>5. \A e, c : RestAt(Top.limit, Top.limit, l, FALSE, e, c) <=> e = Top.limit /\ c = <<>>
  <2> DEFINE lim == Top.limit
  <2>1. lim \in Nat /\ lim <= Len(input)
    BY <1>2
  <2> HIDE DEF lim
  <2>2. \A e, c : RestAt(lim, lim, l, FALSE, e, c) <=> e = lim /\ c = <<>>
    BY ONLY <1>3, <2>1, RestAtEnd
  <2> QED BY <2>2 DEF lim
<1>6. \A e, c : RestAt(offset, Top.limit, l, Top.indefinite, e, c) <=> e = offset' /\ c = <<>>
  <2> SUFFICES ASSUME NEW e, NEW c
               PROVE  RestAt(offset, Top.limit, l, Top.indefinite, e, c) <=> e = offset' /\ c = <<>>
    OBVIOUS
  <2> DEFINE lim == Top.limit
             i == Top.indefinite
  <2>1. RestAt(lim, lim, l, i, e, c) <=> e = lim /\ c = <<>>
    BY <1>2, <1>5
  <2>2. offset = lim /\ offset' = lim
    BY <1>4
  <2> HIDE DEF lim, i
  <2>3. RestAt(offset, lim, l, i, e, c) <=> e = offset' /\ c = <<>>
    BY ONLY <2>1, <2>2, Zenon
  <2> QED BY <2>3 DEF lim, i
<1> QED BY <1>1, <1>6, CloseGrammar DEF l

\* At the marker nothing is left of an indefinite object.
LEMMA CloseIndefiniteGrammar ==
  ASSUME BerInv, GrammarInv, CloseIndefinite
  PROVE  GrammarInv'
<1> DEFINE l == Levels(Len(stack))
<1>1. /\ status = "running" /\ stack # <<>> /\ Top.indefinite /\ ~(Top.limit - offset < 2)
      /\ At(offset) = 0 /\ At(offset + 1) = 0
      /\ Return(EncodeTo(Top.tagBytes, Top.inner), Pop(stack))
      /\ offset' = offset + 2 /\ input' = input
  BY Zenon DEF CloseIndefinite, NoRoomForTermination, AtTermination
<1>2. /\ Top.indefinite = TRUE /\ Top.limit \in Nat /\ Top.limit <= Len(input)
      /\ offset <= Top.limit
  BY <1>1, TopFacts
<1>3. input \in Seq(Byte) /\ offset \in Nat /\ l \in Nat
  BY RunFacts
<1>4. offset + 2 <= Top.limit
  BY <1>1, <1>2, <1>3
<1> HIDE DEF l
<1>5. \A e, c : RestAt(offset, Top.limit, l, TRUE, e, c) <=> e = offset + 2 /\ c = <<>>
  BY <1>1, <1>2, <1>3, <1>4, RestAtMarker
<1>6. \A e, c : RestAt(offset, Top.limit, l, Top.indefinite, e, c) <=> e = offset' /\ c = <<>>
  BY <1>1, <1>2, <1>5
<1> QED BY <1>1, <1>6, CloseGrammar DEF l

\* The second call starts as the first one does.
LEMMA TranscodeAgainGrammar ==
  ASSUME BerInv, GrammarInv, TranscodeAgain
  PROVE  GrammarInv'
<1>1. status = "done" /\ status' = "running" /\ offset' = 0 /\ out' = <<>> /\ stack' = stack
  BY Zenon DEF TranscodeAgain
<1>2. stack = <<>>
  BY <1>1 DEF BerInv
<1>3. status' # "done" /\ status' # "error" /\ stack' = <<>>
  BY <1>1, <1>2
<1> QED BY <1>1, <1>3, Zenon DEF GrammarInv

\* Nothing has been read when ber2der is called.
LEMMA GrammarInit == Init => GrammarInv
<1> SUFFICES ASSUME Init PROVE GrammarInv
  OBVIOUS
<1>1. status = "running" /\ stack = <<>> /\ offset = 0 /\ out = <<>>
  BY DEF Init
<1>2. status # "done" /\ status # "error"
  BY <1>1
<1> QED BY <1>1, <1>2, Zenon DEF GrammarInv

\* Every step of readObject keeps the invariant.
LEMMA GrammarStep ==
  ASSUME BerInv, GrammarInv, [Next]_vars
  PROVE  GrammarInv'
<1>1. CASE ReadPrimitive
  BY <1>1, ReadPrimitiveGrammar
<1>2. CASE OpenConstructed
  BY <1>2, OpenConstructedGrammar
<1>3. CASE RejectHeader
  BY <1>3, RejectHeaderGrammar
<1>4. CASE RejectUnterminated
  BY <1>4, RejectUnterminatedGrammar
<1>5. CASE CloseDefinite
  BY <1>5, CloseDefiniteGrammar
<1>6. CASE CloseIndefinite
  BY <1>6, CloseIndefiniteGrammar
<1>7. CASE TranscodeAgain
  BY <1>7, TranscodeAgainGrammar
<1>8. CASE UNCHANGED vars
  BY <1>8, Zenon DEF vars, GrammarInv, Derives
<1>9. CASE Returned
  BY <1>8, <1>9 DEF Returned
<1> QED BY <1>1, <1>2, <1>3, <1>4, <1>5, <1>6, <1>7, <1>8, <1>9 DEF Next

\* ber.go, readObject: what is open, where the reader is and what it has
\* collected always stand for the same objects of the grammar.
THEOREM GrammarInvariant == Spec => [](BerInv /\ GrammarInv)
<1>1. Init => GrammarInv
  BY GrammarInit
<1>2. BerInv /\ GrammarInv /\ [Next]_vars => GrammarInv'
  BY GrammarStep
<1> QED BY <1>1, <1>2, BerInvariant, PTL DEF Spec

(***************************************************************************)
(* What the invariant says when ber2der has returned.                      *)
(***************************************************************************)

\* Encodings of the objects that the first k bytes of the input are.
Ders(k) == DersOf(SubSeq(input, 1, k), MaxNestingDepth + 1)

\* Derives, in the words of MatchesGrammar.
LEMMA DerivesIs ==
  ASSUME BerInv, NEW k, NEW x
  PROVE  Derives(k, x) <=> k \in 1 .. Len(input) /\ x \in Ders(k)
<1> DEFINE l == MaxNestingDepth + 1
<1>1. input \in Seq(Byte) /\ Len(input) \in Nat
  BY RunFacts
<1>2. l \in Nat /\ Levels(0) = l /\ 0 + 1 = 1
  BY BerAssumption DEF Levels
<1> HIDE DEF l
<1>3. Derives(k, x) <=> k \in Nat /\ 0 <= k /\ k <= Len(input) /\ x \in DersOf(SubSeq(input, 1, k), l)
  BY <1>2, Zenon DEF Derives, ObjectIn
<1>4. ASSUME k \in Nat, 0 <= k, k <= Len(input), x \in DersOf(SubSeq(input, 1, k), l)
      PROVE  k \in 1 .. Len(input)
  <2>1. Slice(0, k) = SubSeq(input, 1, k)
    BY <1>2, Zenon DEF Slice
  <2>2. Slice(0, k) \in Seq(Byte) /\ Len(Slice(0, k)) = k - 0
    BY <1>1, <1>4, SliceIs
  <2>3. Len(Slice(0, k)) >= 2
    BY <1>2, <1>4, <2>1, <2>2, ObjectSize
  <2> QED BY <1>1, <1>4, <2>2, <2>3
<1>5. k \in 1 .. Len(input) => k \in Nat /\ 0 <= k /\ k <= Len(input)
  BY <1>1
<1>6. x \in Ders(k) <=> x \in DersOf(SubSeq(input, 1, k), l)
  BY Zenon DEF Ders, l
<1> QED BY <1>3, <1>4, <1>5, <1>6, Zenon

\* After an error no prefix of the input is an object.
LEMMA Refused ==
  ASSUME BerInv, GrammarInv, status = "error"
  PROVE  Objects = {}
<1>1. \A k, x : ~Derives(k, x)
  BY Zenon DEF GrammarInv
<1>2. \A k \in 1 .. Len(input) : Ders(k) = {}
  BY <1>1, DerivesIs, Zenon
<1>3. Objects = {k \in 1 .. Len(input) : Ders(k) # {}}
  BY Zenon DEF Objects, Ders
<1> QED BY <1>2, <1>3, Zenon

\* After a return one prefix is an object, with one encoding.
LEMMA Accepted ==
  ASSUME BerInv, GrammarInv, status = "done"
  PROVE  /\ \A k, x : Derives(k, x) <=> k = offset /\ x = out
         /\ offset \in 1 .. Len(input) /\ Ders(offset) = {out} /\ Objects = {offset}
<1>1. stack = <<>>
  BY DEF BerInv
<1>2. \A k, x : Derives(k, x) <=> ChainIn(input, <<>>, offset, out, k, x)
  BY <1>1, Zenon DEF GrammarInv
<1>3. \A k, x : Derives(k, x) <=> k = offset /\ x = out
  BY <1>2, ChainEmpty, Zenon
<1>4. offset \in 1 .. Len(input) /\ out \in Ders(offset)
  BY <1>3, DerivesIs, Zenon
<1>5. \A x \in Ders(offset) : x = out
  <2> SUFFICES ASSUME NEW x \in Ders(offset) PROVE x = out
    OBVIOUS
  <2>1. Derives(offset, x)
    BY <1>4, DerivesIs, Zenon
  <2> QED BY <1>3, <2>1, Zenon
<1>6. Ders(offset) = {out}
  BY <1>4, <1>5
<1>7. Objects = {k \in 1 .. Len(input) : Ders(k) # {}}
  BY Zenon DEF Objects, Ders
<1>8. \A k \in 1 .. Len(input) : Ders(k) # {} => k = offset
  <2> SUFFICES ASSUME NEW k \in 1 .. Len(input), Ders(k) # {} PROVE k = offset
    OBVIOUS
  <2>1. PICK x : x \in Ders(k)
    OBVIOUS
  <2> QED BY <1>3, <2>1, DerivesIs, Zenon
<1>9. Ders(offset) # {}
  BY <1>4
<1>10. Objects = {offset}
  BY <1>4, <1>7, <1>8, <1>9
<1> QED BY <1>3, <1>4, <1>6, <1>10

\* ber.go, ber2der and readObject, for every input and every bound on the
\* nesting: ber2der fails exactly when no prefix of the input is an object of
\* the grammar, and otherwise there is one such prefix, it has one DER form,
\* and that is what ber2der has read and returns.
THEOREM MatchesGrammarHolds == Spec => []MatchesGrammar
<1>1. BerInv /\ GrammarInv => MatchesGrammar
  <2> SUFFICES ASSUME BerInv, GrammarInv, status # "running"
               PROVE  IF status = "error" THEN Objects = {}
                      ELSE Objects = {offset} /\ Ders(offset) = {out}
    BY DEF MatchesGrammar, Ders
  <2>1. status \in {"running", "done", "error"}
    BY DEF BerInv, TypeOK
  <2> QED BY <2>1, Refused, Accepted
<1> QED BY <1>1, GrammarInvariant, PTL

\* What makes the second call succeed: its input is an object, and its own DER.
PassInv ==
  /\ pass = 1 => input \in Inputs
  /\ pass = 2 => input \in DersOf(input, MaxNestingDepth + 1)

Short == \A s \in Inputs : 2 * Len(s) <= Largest[4]

\* Only the second call changes the input, and it gets what the first one returned.
LEMMA PassStep ==
  ASSUME Short, BerInv, GrammarInv, PassInv, [Next]_vars
  PROVE  PassInv'
<1>1. CASE TranscodeAgain
  <2> DEFINE s == SubSeq(input, 1, offset)
             l == MaxNestingDepth + 1
  <2>1. status = "done" /\ pass = 1 /\ input' = out /\ pass' = 2
    BY <1>1 DEF TranscodeAgain
  <2>2. input \in Inputs /\ input \in Seq(Byte) /\ Len(input) \in Nat
    BY <2>1, RunFacts DEF PassInv
  <2>3. offset \in 1 .. Len(input) /\ Ders(offset) = {out}
    BY <2>1, Accepted
  <2>4. out \in DersOf(s, l)
    BY <2>3 DEF Ders
  <2>5. s \in Seq(Byte) /\ Len(s) = offset
    <3>1. Slice(0, offset) \in Seq(Byte) /\ Len(Slice(0, offset)) = offset - 0
      BY <2>2, <2>3, SliceIs
    <3>2. Slice(0, offset) = s
      BY DEF Slice
    <3> QED BY <2>2, <2>3, <3>1, <3>2
  <2>6. l \in Nat
    BY BerAssumption
  <2> HIDE DEF s, l
  <2>7. /\ out \in Seq(Byte) /\ Len(out) <= 2 * Len(s)
        /\ Len(out) <= Largest[4] => out \in DersOf(out, l)
    BY <2>4, <2>5, <2>6, DerIsDer
  <2>8. 2 * Len(input) <= Largest[4]
    BY <2>2 DEF Short
  <2>9. Len(out) <= Largest[4]
    BY <2>2, <2>3, <2>5, <2>7, <2>8, LenProperties DEF Largest
  <2> QED BY <2>1, <2>7, <2>9 DEF PassInv, l
<1>2. CASE UNCHANGED <<input, pass>>
  BY <1>2, Zenon DEF PassInv
<1> QED BY <1>1, <1>2 DEF Next, vars, ReadPrimitive, OpenConstructed, RejectHeader,
          RejectUnterminated, CloseDefinite, CloseIndefinite, Returned

\* ber.go, ber2der on its own output: for inputs of less than 2^30 bytes (a DER
\* form is at most twice as long as the object, and readObject refuses a length
\* of 2^31 or more) it never fails and returns what it is given.
THEOREM IdempotentHolds ==
  ASSUME \A s \in Inputs : 2 * Len(s) <= Largest[4]
  PROVE  Spec => []Idempotent
<1>0. Short
  BY DEF Short
<1>1. Init => PassInv
  BY DEF Init, PassInv
<1>2. PassInv /\ BerInv /\ GrammarInv /\ [Next]_vars => PassInv'
  BY <1>0, PassStep
<1>3. BerInv /\ GrammarInv /\ PassInv => Idempotent
  <2> SUFFICES ASSUME BerInv, GrammarInv, PassInv, pass = 2
               PROVE  status # "error" /\ (status = "done" => out = input)
    BY DEF Idempotent
  <2>1. input \in DersOf(input, MaxNestingDepth + 1) /\ input \in Seq(Byte)
    BY RunFacts DEF PassInv
  <2>2. Len(input) \in 1 .. Len(input)
    <3>1. MaxNestingDepth + 1 \in Nat /\ Len(input) \in Nat
      BY <2>1, BerAssumption
    <3>2. Len(input) >= 2
      BY <2>1, <3>1, ObjectSize
    <3> QED BY <3>1, <3>2
  <2>3. SubSeq(input, 1, Len(input)) = input
    BY <2>1
  <2>4. Derives(Len(input), input)
    BY <2>1, <2>2, <2>3, DerivesIs, Zenon DEF Ders
  <2>5. status # "error"
    BY <2>4, Zenon DEF GrammarInv
  <2>6. status = "done" => out = input
    BY <2>4, Accepted, Zenon
  <2> QED BY <2>5, <2>6
<1> QED BY <1>1, <1>2, <1>3, GrammarInvariant, PTL DEF Spec

=============================================================================
