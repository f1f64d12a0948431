---------------------------- MODULE PaddingProofs ---------------------------
(***************************************************************************)
(* unpad undoes pad and accepts nothing else, for contents of any length   *)
(* and every block size up to that of AES.                                 *)
(***************************************************************************)
EXTENDS Padding, SequenceTheorems, TLAPS

\* des.BlockSize is 8 and aes.BlockSize 16; the runs use smaller ones.
BlockSizes == 1 .. 16

\* The provers' arithmetic knows remainders only for numerals.
LEMMA BlockSizeCases ==
  ASSUME NEW b \in BlockSizes
  PROVE  \/ b = 1 \/ b = 2 \/ b = 3 \/ b = 4 \/ b = 5 \/ b = 6 \/ b = 7 \/ b = 8
         \/ b = 9 \/ b = 10 \/ b = 11 \/ b = 12 \/ b = 13 \/ b = 14 \/ b = 15 \/ b = 16
BY DEF BlockSizes

\* The padding fills the last block and is never empty.
LEMMA PadlenFills ==
  ASSUME NEW n \in Nat, NEW b \in BlockSizes
  PROVE  padlen(n, b) \in 1 .. b /\ (n + padlen(n, b)) % b = 0
<1> QED
  BY BlockSizeCases DEF padlen

\* There is only one number of bytes that does.
LEMMA PadlenUnique ==
  ASSUME NEW n \in Nat, NEW b \in BlockSizes, NEW p \in 1 .. b, (n + p) % b = 0
  PROVE  padlen(n, b) = p
<1>1. CASE b \in 1 .. 4
  BY <1>1, BlockSizeCases DEF padlen
<1>2. CASE b \in 5 .. 8
  BY <1>2, BlockSizeCases DEF padlen
<1>3. CASE b \in 9 .. 12
  BY <1>3, BlockSizeCases DEF padlen
<1>4. CASE b \in 13 .. 16
  BY <1>4, BlockSizeCases DEF padlen
<1> QED
  BY <1>1, <1>2, <1>3, <1>4 DEF BlockSizes

\* What pad returns, byte by byte.
LEMMA PadBytes ==
  ASSUME NEW s \in Seq(Byte), NEW b \in BlockSizes
  PROVE  LET p == padlen(Len(s), b)
             x == s \o padding(Len(s), b)
         IN  /\ p \in 1 .. b /\ pad(s, b) = Bytes(x)
             /\ x \in Seq(Byte) /\ Len(x) = Len(s) + p
             /\ \A k \in 1 .. Len(s) : x[k] = s[k]
             /\ \A k \in Len(s) + 1 .. Len(s) + p : x[k] = p
<1> DEFINE n == Len(s)
           p == padlen(n, b)
           w == padding(n, b)
           x == s \o w
<1>0. n \in Nat /\ b \in 1 .. 16
  BY LenProperties DEF BlockSizes
<1> HIDE DEF n
<1>1. n \in Nat /\ b \in 1 .. 16 /\ p \in 1 .. b
  BY <1>0, PadlenFills
<1> HIDE DEF p
<1>2. w = [k \in 1 .. p |-> p]
  BY <1>1 DEF padding, p
<1>3. w \in Seq(Byte) /\ Len(w) = p /\ \A k \in 1 .. p : w[k] = p
  BY <1>1, <1>2 DEF Byte
<1> HIDE DEF w
<1>4. /\ x \in Seq(Byte) /\ Len(x) = n + p
      /\ \A k \in 1 .. n + p : x[k] = IF k <= n THEN s[k] ELSE w[k - n]
  BY <1>1, <1>3, ConcatProperties DEF n
<1>5. pad(s, b) = Bytes(x)
  BY <1>1 DEF pad, n, w
<1> HIDE DEF x
<1>6. /\ \A k \in 1 .. n : x[k] = s[k]
      /\ \A k \in n + 1 .. n + p : x[k] = p
  BY <1>1, <1>3, <1>4
<1> QED
  BY <1>1, <1>4, <1>5, <1>6 DEF n, p, w, x

\* The first n bytes of a sequence.
LEMMA Front ==
  ASSUME NEW x \in Seq(Byte), NEW n \in Nat, n <= Len(x)
  PROVE  /\ SubSeq(x, 1, n) \in Seq(Byte) /\ Len(SubSeq(x, 1, n)) = n
         /\ \A k \in 1 .. n : SubSeq(x, 1, n)[k] = x[k]
BY SubSeqProperties, LenProperties

\* What decrypt unpads is what encryptDESCBC and encryptAESCBC padded, whatever
\* the content ends in and whatever its length.
THEOREM UnpadInvertsPad ==
  ASSUME NEW s \in Seq(Byte), NEW b \in BlockSizes
  PROVE  pad(s, b).ok /\ unpad(pad(s, b).bytes, b) = Bytes(s)
<1> DEFINE n == Len(s)
           p == padlen(n, b)
           x == s \o padding(n, b)
<1>1. /\ p \in 1 .. b /\ pad(s, b) = Bytes(x)
      /\ x \in Seq(Byte) /\ Len(x) = n + p
      /\ \A k \in 1 .. n : x[k] = s[k]
      /\ \A k \in n + 1 .. n + p : x[k] = p
  BY PadBytes
<1>2. n \in Nat /\ b \in 1 .. 16 /\ (n + p) % b = 0
  BY PadlenFills, LenProperties DEF BlockSizes
<1> HIDE DEF n, p, x
<1>3. x # << >> /\ Len(x) % b = 0 /\ ~(b < 1) /\ x[Len(x)] = p
  BY <1>1, <1>2, EmptySeq
<1>4. ValidPadding(x, b)
  BY <1>1, <1>2, <1>3 DEF ValidPadding
<1>5. unpad(x, b) = Bytes(SubSeq(x, 1, n))
  BY <1>1, <1>2, <1>3, <1>4 DEF unpad
<1>6. SubSeq(x, 1, n) = s
  <2>1. /\ SubSeq(x, 1, n) \in Seq(Byte) /\ Len(SubSeq(x, 1, n)) = n
        /\ \A k \in 1 .. n : SubSeq(x, 1, n)[k] = x[k]
    BY <1>1, <1>2, Front
  <2> QED
    BY <1>1, <2>1, SeqEqual DEF n
<1>7. pad(s, b).ok /\ pad(s, b).bytes = x
  BY <1>1 DEF Bytes
<1> QED
  BY <1>5, <1>6, <1>7

\* unpad accepts no byte string but the padding of the one it returns, so the
\* scan of the final block leaves no malformed padding.
THEOREM UnpadAcceptsOnlyPads ==
  ASSUME NEW x \in Seq(Byte), NEW b \in BlockSizes, unpad(x, b).ok
  PROVE  unpad(x, b).bytes \in Seq(Byte) /\ pad(unpad(x, b).bytes, b) = Bytes(x)
<1> DEFINE p == x[Len(x)]
           n == Len(x) - p
           s == SubSeq(x, 1, n)
<1>1. /\ b \in 1 .. 16 /\ x # << >> /\ Len(x) % b = 0 /\ ValidPadding(x, b)
      /\ unpad(x, b) = Bytes(s)
  BY DEF unpad, Invalid, BlockSizes
<1>2. Len(x) \in Nat /\ Len(x) >= b
  <2>1. Len(x) \in Nat /\ Len(x) # 0
    BY <1>1, EmptySeq, LenProperties
  <2> QED
    BY <1>1, <2>1, BlockSizeCases
<1>3. p \in 1 .. b /\ \A k \in 0 .. b - 1 : k + 1 <= p => x[Len(x) - k] = p
  BY <1>1 DEF ValidPadding
<1> HIDE DEF p
<1>4. n \in Nat /\ n <= Len(x) /\ Len(x) = n + p
  BY <1>1, <1>2, <1>3
<1>5. /\ s \in Seq(Byte) /\ Len(s) = n
      /\ \A k \in 1 .. n : s[k] = x[k]
  BY <1>4, Front
<1>6. \A k \in n + 1 .. n + p : x[k] = p
  <2>1. ASSUME NEW k \in n + 1 .. n + p PROVE x[k] = p
    <3>1. Len(x) - k \in 0 .. b - 1 /\ (Len(x) - k) + 1 <= p /\ Len(x) - (Len(x) - k) = k
      BY <1>1, <1>3, <1>4
    <3> QED
      BY <1>3, <3>1
  <2> QED
    BY <2>1
<1>7. padlen(n, b) = p
  BY <1>1, <1>3, <1>4, PadlenUnique
<1> HIDE DEF n, s
<1> DEFINE y == s \o padding(Len(s), b)
<1>8. /\ pad(s, b) = Bytes(y)
      /\ y \in Seq(Byte) /\ Len(y) = n + p
      /\ \A k \in 1 .. n : y[k] = s[k]
      /\ \A k \in n + 1 .. n + p : y[k] = p
  BY <1>5, <1>7, PadBytes, ZenonT(60)
<1> HIDE DEF y
<1>9. \A k \in 1 .. n + p : y[k] = x[k]
  BY <1>3, <1>4, <1>5, <1>6, <1>8
<1>10. y = x
  BY <1>4, <1>8, <1>9, SeqEqual
<1> QED
  BY <1>1, <1>5, <1>8, <1>10 DEF Bytes

=============================================================================
