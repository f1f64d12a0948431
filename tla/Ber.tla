-------------------------------- MODULE Ber --------------------------------
(***************************************************************************)
(* ber.go: ber2der, the transcoder from BER to DER that Parse runs on      *)
(* every message before encoding/asn1 sees it.                             *)
(*                                                                         *)
(* readObject is recursive in Go; here the recursion is a stack of frames, *)
(* one per constructed object whose content is being read, and one step of *)
(* the machine is one call, one return or one loop exit of readObject.     *)
(* An asn1Object is represented by what its only method, EncodeTo, writes: *)
(* a frame collects in "inner" the DER of the children read so far, as     *)
(* asn1Structured.EncodeTo does.  Offsets are 0-based as in the code.      *)
(* Every error return ends in the same way for the only caller, so all of  *)
(* them lead to status "error".                                            *)
(*                                                                         *)
(* Inputs are shorter than 2^31 bytes (TLC's integers, and a 4-byte BER    *)
(* length in the code), so a length needs at most 4 bytes.                 *)
(***************************************************************************)
EXTENDS BerReference

CONSTANTS
  MaxNestingDepth,  \* maxNestingDepth, 500 in the code
  Inputs            \* the byte strings ber2der is called with

ASSUME BerAssumption ==
  /\ MaxNestingDepth \in Nat
  /\ \A s \in Inputs : s \in Seq(Byte)

VARIABLES
  input,    \* the byte string under transcoding (the outermost ber)
  offset,   \* the variable offset of the innermost call
  stack,    \* calls of readObject that are in their content loop
  nodes,    \* number of objects whose header has been accepted
  status,   \* "running", "done" or "error"
  out,      \* the DER ber2der returns when status is "done"
  pass      \* 2 when the input is itself the output of ber2der

vars == <<input, offset, stack, nodes, status, out, pass>>

(***************************************************************************)
(* Writing DER.                                                            *)
(***************************************************************************)

\* 256 taken for a length of one byte.
lengthLengthOffByOne(i) ==
  IF i <= 256 THEN 1 ELSE IF i < 65536 THEN 2 ELSE IF i < 16777216 THEN 3 ELSE 4

\* lengthLength: how many bytes the value of a length needs.
lengthLength(i) ==
  IF i < 256 THEN 1 ELSE IF i < 65536 THEN 2 ELSE IF i < 16777216 THEN 3 ELSE 4

\* marshalLongLength: the value of a length, big endian.
marshalLongLength(i) ==
  LET low(k) == (i \div k) % 256
      all    == <<low(16777216), low(65536), low(256), low(1)>>
  IN  SubSeq(all, 5 - lengthLength(i), 4)

\* A length written as one byte whatever its value.
encodeLengthShortOnly(length) == <<length>>

\* The length in DER form.
encodeLength(length) ==
  IF length >= 128
  THEN <<128 + lengthLength(length)>> \o marshalLongLength(length)
  ELSE <<length>>

\* EncodeTo of both kinds of object: tag bytes, length, content.
EncodeTo(tagBytes, content) == tagBytes \o encodeLength(Len(content)) \o content

(***************************************************************************)
(* Reading one header at offset off of a slice that ends at limit.         *)
(***************************************************************************)

\* ber[i] and ber[i:j] with Go's 0-based offsets.
At(i) == input[i + 1]
Slice(i, j) == SubSeq(input, i + 1, j)

HighTag(off) == At(off) % 32 = 31
Constructed(off) == (At(off) \div 32) % 2 = 1

\* The last byte of a tag in high-tag form is the first one below 0x80.
EndsTag(off, i) == /\ At(i) < 128
                   /\ \A j \in (off + 1) .. (i - 1) : At(j) >= 128

\* The tag is complete and at least the length byte follows it.
TagOK(off, limit) ==
  /\ off + 1 < limit
  /\ HighTag(off) => \E i \in (off + 1) .. (limit - 2) : EndsTag(off, i)

TagEnd(off, limit) ==
  IF HighTag(off)
  THEN 1 + CHOOSE i \in (off + 1) .. (limit - 2) : EndsTag(off, i)
  ELSE off + 1

\* Number of bytes that follow the length byte at te.
LengthBytes(te) == IF At(te) > 128 THEN At(te) % 128 ELSE 0

\* Length fields with any number of leading zeros.
LengthOKLeadingZero(te, limit) ==
  At(te) >= 128 =>
    /\ te + 1 < limit
    /\ At(te) > 128 =>
         /\ LengthBytes(te) <= 4
         /\ LengthBytes(te) = 4 => At(te + 1) <= 127
         /\ te + 1 + LengthBytes(te) <= limit

\* The length field at te is one readObject accepts: at most 4 bytes, not
\* negative as a 32-bit number, inside the slice, and with no leading zero
\* (a zero is tolerated when the next byte has its top bit set).
LengthOK(te, limit) ==
  At(te) >= 128 =>
    /\ te + 1 < limit
    /\ At(te) > 128 =>
         /\ LengthBytes(te) <= 4
         /\ LengthBytes(te) = 4 => At(te + 1) <= 127
         /\ te + 1 + LengthBytes(te) <= limit
         /\ At(te + 1) = 0 => LengthBytes(te) # 1 /\ At(te + 2) > 127

Indefinite(te) == At(te) = 128

\* Byte j of a long length, counted from its last one.
LengthDigit(te, j) == IF j < LengthBytes(te) THEN At(te + LengthBytes(te) - j) ELSE 0

\* The length of the content: the short form, or the number that the bytes of
\* the long form are in base 256 (0 for an indefinite length, which has none).
Length(te) ==
  IF At(te) < 128
  THEN At(te)
  ELSE LengthDigit(te, 0) + 256 * LengthDigit(te, 1) + 65536 * LengthDigit(te, 2)
         + 16777216 * LengthDigit(te, 3)

\* Where the content starts, and where it ends unless it is indefinite.
ContentStart(te) == te + 1 + LengthBytes(te)
ContentEnd(te) == ContentStart(te) + Length(te)

\* The checks without the one on the depth of the recursion.
HeaderOKAnyDepth(off, limit, depth) ==
  /\ TagOK(off, limit)
  /\ LET te == TagEnd(off, limit)
     IN  /\ LengthOK(te, limit)
         /\ Length(te) <= limit - ContentStart(te)
         /\ Indefinite(te) => Constructed(off)

\* Every check between the entry of readObject and the construction of obj.
HeaderOK(off, limit, depth) ==
  /\ depth <= MaxNestingDepth
  /\ TagOK(off, limit)
  /\ LET te == TagEnd(off, limit)
     IN  /\ LengthOK(te, limit)
         /\ Length(te) <= limit - ContentStart(te)
         /\ Indefinite(te) => Constructed(off)

(***************************************************************************)
(* The machine.                                                            *)
(***************************************************************************)

Frame == [tagBytes   : Seq(Byte),
          limit      : Nat,       \* len(ber) inside the loop
          contentEnd : Nat,       \* meaningless when indefinite
          indefinite : BOOLEAN,
          inner      : Seq(Byte)] \* DER of the children so far

Top == stack[Len(stack)]
Pop(s) == SubSeq(s, 1, Len(s) - 1)

\* len(ber) as the next call of readObject sees it.
Limit == IF stack = <<>> THEN Len(input) ELSE Top.limit

\* isIndefiniteTermination(ber, offset); the first one is its error return.
NoRoomForTermination == Top.limit - offset < 2
AtTermination == At(offset) = 0 /\ At(offset + 1) = 0

\* The next step is a call of readObject at offset: the outermost call, or
\* another iteration of the content loop.
CallsReadObject ==
  \/ stack = <<>>
  \/ /\ stack # <<>>
     /\ IF Top.indefinite THEN ~NoRoomForTermination /\ ~AtTermination
                          ELSE offset < Top.contentEnd

\* An object whose DER is der is complete; s is the stack of the callers.
Return(der, s) ==
  IF s = <<>>
  THEN /\ status' = "done"
       /\ out' = der
       /\ stack' = s
  ELSE /\ stack' = [s EXCEPT ![Len(s)].inner = @ \o der]
       /\ UNCHANGED <<status, out>>

Init ==
  /\ input \in Inputs
  /\ offset = 0
  /\ stack = <<>>
  /\ nodes = 0
  /\ status = "running"
  /\ out = <<>>
  /\ pass = 1

\* readObject on a primitive object: the content is copied.
ReadPrimitive ==
  /\ status = "running"
  /\ CallsReadObject
  /\ HeaderOK(offset, Limit, Len(stack))
  /\ ~Constructed(offset)
  /\ LET te == TagEnd(offset, Limit)
     IN  /\ Return(EncodeTo(Slice(offset, te), Slice(ContentStart(te), ContentEnd(te))),
                   stack)
         /\ offset' = ContentEnd(te)
  /\ nodes' = nodes + 1
  /\ UNCHANGED <<input, pass>>

\* The slice a child is given when the content end is only compared with the
\* child's end after the child was read.
NewFrameUnrestricted(te) ==
  [tagBytes   |-> Slice(offset, te),
   limit      |-> Limit,
   contentEnd |-> ContentEnd(te),
   indefinite |-> Indefinite(te),
   inner      |-> <<>>]

\* The local variables of readObject when it enters its content loop: for a
\* definite object ber is cut at contentEnd first.
NewFrame(te) ==
  [tagBytes   |-> Slice(offset, te),
   limit      |-> IF Indefinite(te) THEN Limit ELSE ContentEnd(te),
   contentEnd |-> ContentEnd(te),
   indefinite |-> Indefinite(te),
   inner      |-> <<>>]

\* readObject on a constructed object, up to its content loop.
OpenConstructed ==
  /\ status = "running"
  /\ CallsReadObject
  /\ HeaderOK(offset, Limit, Len(stack))
  /\ Constructed(offset)
  /\ LET te == TagEnd(offset, Limit)
     IN  /\ stack' = Append(stack, NewFrame(te))
         /\ offset' = ContentStart(te)
  /\ nodes' = nodes + 1
  /\ UNCHANGED <<input, status, out, pass>>

\* readObject refuses a header, or ber2der an empty input.
RejectHeader ==
  /\ status = "running"
  /\ CallsReadObject
  /\ ~HeaderOK(offset, Limit, Len(stack))
  /\ status' = "error"
  /\ UNCHANGED <<input, offset, stack, nodes, out, pass>>

\* The content loop goes round again instead of giving up at the end of ber.
RejectUnterminatedNever ==
  /\ status = "running"
  /\ stack # <<>> /\ Top.indefinite /\ NoRoomForTermination
  /\ UNCHANGED vars

\* isIndefiniteTermination has fewer than two bytes to look at.
RejectUnterminated ==
  /\ status = "running"
  /\ stack # <<>> /\ Top.indefinite /\ NoRoomForTermination
  /\ status' = "error"
  /\ UNCHANGED <<input, offset, stack, nodes, out, pass>>

\* The content of a definite object is used up.
CloseDefinite ==
  /\ status = "running"
  /\ stack # <<>> /\ ~Top.indefinite /\ offset >= Top.contentEnd
  /\ Return(EncodeTo(Top.tagBytes, Top.inner), Pop(stack))
  /\ offset' = Top.contentEnd
  /\ UNCHANGED <<input, nodes, pass>>

\* Return from an indefinite object that leaves the terminator unread.
CloseIndefiniteKeepTerminator ==
  /\ status = "running"
  /\ stack # <<>> /\ Top.indefinite /\ ~NoRoomForTermination /\ AtTermination
  /\ Return(EncodeTo(Top.tagBytes, Top.inner), Pop(stack))
  /\ UNCHANGED <<input, offset, nodes, pass>>

\* The end-of-contents marker of an indefinite object is at offset.
CloseIndefinite ==
  /\ status = "running"
  /\ stack # <<>> /\ Top.indefinite /\ ~NoRoomForTermination /\ AtTermination
  /\ Return(EncodeTo(Top.tagBytes, Top.inner), Pop(stack))
  /\ offset' = offset + 2
  /\ UNCHANGED <<input, nodes, pass>>

\* ber2der is called again on what it returned.
TranscodeAgain ==
  /\ status = "done" /\ pass = 1
  /\ input' = out
  /\ offset' = 0
  /\ nodes' = 0
  /\ status' = "running"
  /\ out' = <<>>
  /\ pass' = 2
  /\ UNCHANGED stack

\* ber2der has returned for good.
Returned ==
  /\ status = "error" \/ (status = "done" /\ pass = 2)
  /\ UNCHANGED vars

Next ==
  \/ ReadPrimitive
  \/ OpenConstructed
  \/ RejectHeader
  \/ RejectUnterminated
  \/ CloseDefinite
  \/ CloseIndefinite
  \/ TranscodeAgain
  \/ Returned

Spec == Init /\ [][Next]_vars

\* A sequential function that is called runs until it returns.
FairSpec == Spec /\ WF_vars(Next)

-----------------------------------------------------------------------------

\* Every variable of the transcoder keeps its type.
TypeOK ==
  /\ input \in Seq(Byte)
  /\ offset \in Nat
  /\ stack \in Seq(Frame)
  /\ nodes \in Nat
  /\ status \in {"running", "done", "error"}
  /\ out \in Seq(Byte)
  /\ pass \in {1, 2}

\* "Data beyond that boundary must not be traversed": at every moment of the
\* recursive descent the read position is inside the content of every
\* definite-length object that is still open, whatever indefinite-length
\* objects are in between, and it never leaves the input.
Containment ==
  /\ offset <= Len(input)
  /\ \A i \in 1 .. Len(stack) :
       ~stack[i].indefinite =>
         /\ offset <= stack[i].contentEnd
         /\ \A j \in 1 .. Len(stack) :
              i < j /\ ~stack[j].indefinite => stack[j].contentEnd <= stack[i].contentEnd

\* The resources a message can make readObject use: the recursion is never
\* deeper than maxNestingDepth allows, and objects never overlap, so that each
\* of them has at least two bytes of the input for itself (no message makes
\* the transcoder do more than linear work).
BoundedWork ==
  /\ Len(stack) <= MaxNestingDepth + 1
  /\ 2 * nodes <= offset

\* ber2der accepts exactly the inputs that begin with an object of the grammar,
\* returns that object's DER, and there is never a second way to read it: a
\* relaxed or a missing check of readObject, or a wrong resumption after an
\* indefinite object, changes the set of accepted inputs or the bytes returned.
Objects == {k \in 1 .. Len(input) : DersOf(SubSeq(input, 1, k), MaxNestingDepth + 1) # {}}
MatchesGrammar ==
  status # "running" =>
    IF status = "error" THEN Objects = {}
    ELSE /\ Objects = {offset}
         /\ DersOf(SubSeq(input, 1, offset), MaxNestingDepth + 1) = {out}

\* What ber2der returns is a fixed point: called on its own output it accepts
\* and returns the same bytes, so there is nothing left to normalise.
Idempotent ==
  pass = 2 => /\ status # "error"
              /\ status = "done" => out = input

\* ber2der returns on every input.
Terminates == <>[](status # "running")

=============================================================================
