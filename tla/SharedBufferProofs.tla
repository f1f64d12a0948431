-------------------------- MODULE SharedBufferProofs --------------------------
(***************************************************************************)
(* Calls on independent slices of one array encrypt what they were given,  *)
(* for any number of calls, any array and any slices of it, and however    *)
(* their writes and reads interleave.                                      *)
(***************************************************************************)
EXTENDS SharedBuffer, PaddingProofs

-----------------------------------------------------------------------------
(***************************************************************************)
(* The invariant.                                                          *)
(***************************************************************************)

Fits(c) == slice[c].len + Padlen(c) <= slice[c].cap
Alone(c) == \A d \in Calls \ {c} : Independent(slice[c], slice[d])

\* What a call should encrypt.
PaddedContent(c) == pad(Part(original, slice[c]), slice[c].blocklen).bytes

BufferType ==
  /\ array \in Seq(Byte) /\ original \in Seq(Byte) /\ Len(array) = Len(original)
  /\ slice \in [Calls -> Slice]
  /\ \A c \in Calls : slice[c].lo + slice[c].cap <= Len(array) + 1
  /\ written \in [Calls -> Nat]
  /\ pc \in [Calls -> {"pad", "crypt", "done"}]
  /\ private = [c \in Calls |-> private[c]] /\ crypted = [c \in Calls |-> crypted[c]]

\* How far each call has come.
Phase(c) ==
  /\ pc[c] = "pad" => private[c] = <<>> /\ crypted[c] = <<>>
  /\ Fits(c) => /\ private[c] = <<>>
                /\ IF pc[c] = "pad" THEN written[c] < Padlen(c) ELSE written[c] = Padlen(c)

\* The array still holds what a call was given and what it has written.
Undisturbed(c) ==
  /\ \A k \in Cells(slice[c]) : array[k] = original[k]
  /\ Fits(c) => \A k \in 0 .. written[c] - 1 :
                  array[slice[c].lo + slice[c].len + k] = Padlen(c) % 256

\* What a call has read so far is the front of what it should encrypt.
Progress(c) ==
  LET x == PaddedContent(c)
      n == Len(crypted[c])
  IN  /\ ~Fits(c) /\ pc[c] # "pad" => private[c] = x
      /\ n \in 0 .. Len(x) /\ n % slice[c].blocklen = 0
      /\ crypted[c] = SubSeq(x, 1, n)
      /\ IF pc[c] = "done" THEN n = Len(x) ELSE n < Len(x)

BufferInv ==
  /\ BufferType
  /\ \A c \in Calls : Phase(c) /\ (Alone(c) => Undisturbed(c) /\ Progress(c))

-----------------------------------------------------------------------------
(***************************************************************************)
(* What a slice holds.                                                     *)
(***************************************************************************)

LEMMA SliceFacts ==
  ASSUME BufferType, NEW c \in Calls
  PROVE  /\ slice[c].lo \in Nat \ {0} /\ slice[c].len \in Nat /\ slice[c].cap \in Nat
         /\ slice[c].blocklen \in BlockSizes /\ slice[c].len <= slice[c].cap
         /\ slice[c].lo + slice[c].cap <= Len(array) + 1 /\ Len(array) \in Nat
         /\ Padlen(c) \in 1 .. slice[c].blocklen
         /\ array \in Seq(Byte) /\ original \in Seq(Byte)
         /\ slice[c].lo + slice[c].len <= Len(array) + 1
         /\ slice[c].lo + slice[c].len <= Len(original) + 1
<1>1. slice[c] \in Slice
  BY DEF BufferType
<1>2. slice[c].len \in Nat /\ slice[c].blocklen \in BlockSizes
  BY <1>1 DEF Slice, BlockSizes
<1>3. Padlen(c) \in 1 .. slice[c].blocklen
  BY <1>2, PadlenFills DEF Padlen
<1>4. /\ slice[c].lo \in Nat \ {0} /\ slice[c].cap \in Nat /\ slice[c].len <= slice[c].cap
      /\ slice[c].lo + slice[c].cap <= Len(array) + 1 /\ Len(array) = Len(original)
      /\ array \in Seq(Byte) /\ original \in Seq(Byte) /\ Len(array) \in Nat
  BY <1>1, LenProperties DEF Slice, BufferType
<1> QED BY <1>2, <1>3, <1>4

LEMMA PartOf ==
  ASSUME NEW a \in Seq(Byte), NEW lo \in Nat \ {0}, NEW n \in Nat, lo + n <= Len(a) + 1
  PROVE  LET x == SubSeq(a, lo, lo + n - 1)
         IN  x \in Seq(Byte) /\ Len(x) = n /\ \A k \in 1 .. n : x[k] = a[lo + k - 1]
<1> DEFINE m == lo + n - 1
           x == SubSeq(a, lo, m)
<1>1. Len(a) \in Nat /\ \A i \in 1 .. Len(a) : a[i] \in Byte
  BY LenProperties, ElementOfSeq
<1>2. m \in Int /\ lo \in Int /\ \A i \in lo .. m : a[i] \in Byte
  BY <1>1
<1>3. m - lo + 1 = n /\ (lo <= m <=> n >= 1)
  OBVIOUS
<1> HIDE DEF m
<1>4. /\ x \in Seq(Byte) /\ Len(x) = IF lo <= m THEN m - lo + 1 ELSE 0
      /\ \A i \in 1 .. m - lo + 1 : x[i] = a[lo + i - 1]
  BY <1>2, SubSeqProperties
<1> HIDE DEF x
<1> QED BY <1>3, <1>4 DEF m, x

\* The content of a call, padded.
LEMMA ContentFacts ==
  ASSUME BufferType, NEW c \in Calls
  PROVE  LET x == PaddedContent(c)
             n == slice[c].len
             p == Padlen(c)
         IN  /\ Part(original, slice[c]) \in Seq(Byte)
             /\ x \in Seq(Byte) /\ Len(x) = n + p /\ Len(x) % slice[c].blocklen = 0
             /\ \A k \in 1 .. n : x[k] = original[slice[c].lo + k - 1]
             /\ \A k \in n + 1 .. n + p : x[k] = p
<1> DEFINE lo == slice[c].lo
           n == slice[c].len
           b == slice[c].blocklen
           s == Part(original, slice[c])
           p == Padlen(c)
           x == PaddedContent(c)
           y == s \o padding(Len(s), b)
<1>1. lo \in Nat \ {0} /\ n \in Nat /\ lo + n <= Len(original) + 1 /\ b \in BlockSizes
      /\ original \in Seq(Byte)
  BY SliceFacts
<1>2. s = SubSeq(original, lo, lo + n - 1) /\ p = padlen(n, b) /\ x = pad(s, b).bytes
  BY DEF Part, Padlen, PaddedContent
<1> HIDE DEF lo, n, b, s, p, x
<1>3. s \in Seq(Byte) /\ Len(s) = n /\ \A k \in 1 .. n : s[k] = original[lo + k - 1]
  <2> DEFINE t == SubSeq(original, lo, lo + n - 1)
  <2>1. t \in Seq(Byte) /\ Len(t) = n /\ \A k \in 1 .. n : t[k] = original[lo + k - 1]
    BY <1>1, PartOf
  <2>2. s = t
    BY <1>2
  <2> HIDE DEF t
  <2> QED BY <2>1, <2>2
<1>4. /\ pad(s, b) = Bytes(y) /\ y \in Seq(Byte) /\ Len(y) = n + p
      /\ \A k \in 1 .. n : y[k] = s[k]
      /\ \A k \in n + 1 .. n + p : y[k] = p
  <2>1. LET q == padlen(Len(s), b)
        IN  /\ q \in 1 .. b /\ pad(s, b) = Bytes(y)
            /\ y \in Seq(Byte) /\ Len(y) = Len(s) + q
            /\ \A k \in 1 .. Len(s) : y[k] = s[k]
            /\ \A k \in Len(s) + 1 .. Len(s) + q : y[k] = q
    BY <1>1, <1>3, PadBytes
  <2> HIDE DEF y
  <2> QED BY <1>2, <1>3, <2>1
<1>5. (n + p) % b = 0
  BY <1>1, <1>2, PadlenFills
<1> HIDE DEF y
<1>6. x = y
  BY <1>2, <1>4 DEF Bytes
<1>7. /\ s \in Seq(Byte) /\ x \in Seq(Byte) /\ Len(x) = n + p /\ Len(x) % b = 0
      /\ \A k \in 1 .. n : x[k] = original[lo + k - 1]
      /\ \A k \in n + 1 .. n + p : x[k] = p
  BY <1>3, <1>4, <1>5, <1>6
<1> QED BY <1>7 DEF lo, n, b, s, p, x

\* The part of the array that was given to a call that nobody disturbed.
LEMMA PartKept ==
  ASSUME BufferType, NEW c \in Calls, Undisturbed(c)
  PROVE  Part(array, slice[c]) = Part(original, slice[c])
<1> DEFINE lo == slice[c].lo
           n == slice[c].len
           s == SubSeq(array, lo, lo + n - 1)
           t == SubSeq(original, lo, lo + n - 1)
<1>1. lo \in Nat \ {0} /\ n \in Nat /\ lo + n <= Len(original) + 1 /\ lo + n <= Len(array) + 1
      /\ original \in Seq(Byte) /\ array \in Seq(Byte)
  BY SliceFacts
<1>2. \A k \in lo .. lo + n - 1 : array[k] = original[k]
  BY DEF Undisturbed, Cells
<1> HIDE DEF lo, n
<1>3. /\ s \in Seq(Byte) /\ Len(s) = n /\ \A k \in 1 .. n : s[k] = array[lo + k - 1]
      /\ t \in Seq(Byte) /\ Len(t) = n /\ \A k \in 1 .. n : t[k] = original[lo + k - 1]
  BY <1>1, PartOf
<1> HIDE DEF s, t
<1>4. ASSUME NEW k \in 1 .. n PROVE s[k] = t[k]
  <2>1. lo + k - 1 \in lo .. lo + n - 1
    BY <1>1
  <2> QED BY <1>2, <1>3, <2>1
<1>5. s = t
  BY <1>3, <1>4, SeqEqual
<1> QED BY <1>5 DEF s, t, lo, n, Part

\* What CryptBlocks reads.
LEMMA ReadsContent ==
  ASSUME BufferType, NEW c \in Calls, Phase(c), Undisturbed(c), Progress(c), pc[c] = "crypt"
  PROVE  Padded(c) = PaddedContent(c)
<1> DEFINE lo == slice[c].lo
           n == slice[c].len
           p == Padlen(c)
           cap == slice[c].cap
           x == PaddedContent(c)
           y == SubSeq(array, lo, lo + (n + p) - 1)
<1>0. /\ lo \in Nat \ {0} /\ n \in Nat /\ p \in 1 .. 16
      /\ lo + cap <= Len(array) + 1 /\ cap \in Nat
      /\ array \in Seq(Byte) /\ Len(array) \in Nat
  <2> DEFINE b == slice[c].blocklen
  <2>1. /\ lo \in Nat \ {0} /\ n \in Nat /\ p \in 1 .. b /\ b \in BlockSizes
        /\ lo + cap <= Len(array) + 1 /\ cap \in Nat
        /\ array \in Seq(Byte) /\ Len(array) \in Nat
    BY SliceFacts
  <2> HIDE DEF lo, n, p, b, cap
  <2> QED BY <2>1 DEF BlockSizes
<1>1. /\ x \in Seq(Byte) /\ Len(x) = n + p
      /\ \A k \in 1 .. n : x[k] = original[lo + k - 1]
      /\ \A k \in n + 1 .. n + p : x[k] = p
  BY ContentFacts
<1>2. CASE ~Fits(c)
  <2>1. private[c] = x
    BY <1>2 DEF Progress
  <2> HIDE DEF x, p, n, lo, cap
  <2>2. x # <<>>
    BY <1>0, <1>1, EmptySeq
  <2>3. private[c] # <<>>
    BY <2>1, <2>2
  <2> QED BY <2>1, <2>3 DEF Padded, x
<1>3. CASE Fits(c)
  <2>1. /\ n + p <= cap /\ written[c] = p /\ private[c] = <<>>
        /\ \A k \in lo .. lo + n - 1 : array[k] = original[k]
        /\ \A k \in 0 .. p - 1 : array[lo + n + k] = p % 256
    BY <1>3 DEF Fits, Phase, Undisturbed, Cells
  <2>2. Padded(c) = y
    <3>1. Padded(c) = SubSeq(array, lo, lo + n + p - 1)
      BY <2>1 DEF Padded
    <3> HIDE DEF lo, n, p, cap
    <3>2. lo + n + p - 1 = lo + (n + p) - 1
      BY <1>0
    <3> QED BY <3>1, <3>2
  <2> HIDE DEF lo, n, p, cap, x
  <2>3. y \in Seq(Byte) /\ Len(y) = n + p /\ \A k \in 1 .. n + p : y[k] = array[lo + k - 1]
    BY <1>0, <2>1, PartOf
  <2>4. ASSUME NEW k \in 1 .. n + p PROVE y[k] = x[k]
    <3>1. CASE k <= n
      <4>1. k \in 1 .. n /\ lo + k - 1 \in lo .. lo + n - 1
        BY <1>0, <3>1
      <4> QED BY <1>1, <2>1, <2>3, <4>1
    <3>2. CASE k > n
      <4>1. k \in n + 1 .. n + p /\ k - n - 1 \in 0 .. p - 1 /\ lo + n + (k - n - 1) = lo + k - 1
        BY <1>0, <3>2
      <4>2. array[lo + k - 1] = p % 256 /\ p % 256 = p
        <5>1. array[lo + n + (k - n - 1)] = p % 256
          BY <2>1, <4>1
        <5> QED BY <1>0, <4>1, <5>1
      <4> QED BY <1>1, <2>3, <4>1, <4>2
    <3> QED BY <1>0, <3>1, <3>2
  <2> HIDE DEF y
  <2>5. y = x
    BY <1>1, <2>3, <2>4, SeqEqual
  <2> QED BY <2>2, <2>5 DEF x
<1> QED BY <1>2, <1>3

\* The front of a sequence and the next block.
LEMMA FrontGrows ==
  ASSUME NEW x \in Seq(Byte), NEW n \in Nat, NEW b \in Nat, n + b <= Len(x)
  PROVE  /\ SubSeq(x, 1, n) \o SubSeq(x, n + 1, n + b) = SubSeq(x, 1, n + b)
         /\ Len(SubSeq(x, 1, n + b)) = n + b
<1> DEFINE s == SubSeq(x, 1, n)
           t == SubSeq(x, n + 1, n + b)
           u == SubSeq(x, 1, n + b)
<1>0. Len(x) \in Nat
  BY LenProperties
<1>1. s \in Seq(Byte) /\ Len(s) = n /\ \A k \in 1 .. n : s[k] = x[k]
  BY <1>0, Front
<1>2. u \in Seq(Byte) /\ Len(u) = n + b /\ \A k \in 1 .. n + b : u[k] = x[k]
  BY <1>0, Front
<1>3. t \in Seq(Byte) /\ Len(t) = b /\ \A k \in 1 .. b : t[k] = x[n + k]
  <2> DEFINE lo == n + 1
             v == SubSeq(x, lo, lo + b - 1)
  <2>1. lo \in Nat \ {0} /\ lo + b <= Len(x) + 1 /\ lo + b - 1 = n + b
        /\ \A k \in 1 .. b : lo + k - 1 = n + k
    BY <1>0
  <2> HIDE DEF lo
  <2>2. v \in Seq(Byte) /\ Len(v) = b /\ \A k \in 1 .. b : v[k] = x[lo + k - 1]
    BY <2>1, PartOf
  <2>3. v = t
    BY <2>1 DEF lo
  <2> HIDE DEF v, t
  <2> QED BY <2>1, <2>2, <2>3
<1> HIDE DEF s, t, u
<1> DEFINE w == s \o t
<1>4. w \in Seq(Byte) /\ Len(w) = n + b /\ \A k \in 1 .. n + b : w[k] = IF k <= n THEN s[k] ELSE t[k - n]
  BY <1>1, <1>3, ConcatProperties, ZenonT(60)
<1> HIDE DEF w
<1>5. ASSUME NEW k \in 1 .. n + b PROVE w[k] = u[k]
  <2>1. CASE k <= n
    BY <1>1, <1>2, <1>4, <2>1
  <2>2. CASE k > n
    <3>1. k - n \in 1 .. b /\ n + (k - n) = k /\ ~(k <= n)
      BY <2>2
    <3> QED BY <1>2, <1>3, <1>4, <3>1
  <2> QED BY <2>1, <2>2
<1>6. w = u
  BY <1>2, <1>4, <1>5, SeqEqual
<1> QED BY <1>2, <1>6 DEF s, t, u, w

LEMMA NextBlock ==
  ASSUME NEW b \in BlockSizes, NEW n \in Nat, NEW m \in Nat, n < m, n % b = 0, m % b = 0
  PROVE  n + b <= m /\ (n + b) % b = 0
<1>1. CASE b \in 1 .. 4
  BY <1>1, BlockSizeCases
<1>2. CASE b \in 5 .. 8
  BY <1>2, BlockSizeCases
<1>3. CASE b \in 9 .. 12
  BY <1>3, BlockSizeCases
<1>4. CASE b \in 13 .. 16
  BY <1>4, BlockSizeCases
<1> QED BY <1>1, <1>2, <1>3, <1>4 DEF BlockSizes

-----------------------------------------------------------------------------
(***************************************************************************)
(* The steps.                                                              *)
(***************************************************************************)

\* What depends on the slices and on the original contents only.
LEMMA Frame ==
  ASSUME slice' = slice, original' = original, NEW c \in Calls
  PROVE  /\ Padlen(c)' = Padlen(c) /\ (Fits(c)' <=> Fits(c)) /\ (Alone(c)' <=> Alone(c))
         /\ PaddedContent(c)' = PaddedContent(c)
BY DEF Padlen, Fits, Alone, PaddedContent

\* A call that does not take the step.
LEMMA Others ==
  ASSUME slice' = slice, original' = original, NEW c \in Calls,
         private'[c] = private[c], written'[c] = written[c], crypted'[c] = crypted[c],
         pc'[c] = pc[c]
  PROVE  /\ Phase(c) => Phase(c)'
         /\ Progress(c) => Progress(c)'
         /\ array' = array /\ Undisturbed(c) => Undisturbed(c)'
<1>1. /\ Padlen(c)' = Padlen(c) /\ (Fits(c)' <=> Fits(c))
      /\ PaddedContent(c)' = PaddedContent(c)
  BY Frame
<1>2. Phase(c) => Phase(c)'
  BY <1>1 DEF Phase
<1>3. Progress(c) => Progress(c)'
  BY <1>1 DEF Progress
<1>4. array' = array /\ Undisturbed(c) => Undisturbed(c)'
  BY <1>1 DEF Undisturbed
<1> QED BY <1>2, <1>3, <1>4

LEMMA CopyStep ==
  ASSUME BufferInv, NEW a \in Calls, AppendCopies(a)
  PROVE  BufferInv'
<1>1. /\ BufferType /\ \A c \in Calls : Phase(c) /\ (Alone(c) => Undisturbed(c) /\ Progress(c))
      /\ pc[a] = "pad" /\ ~Fits(a)
      /\ private' = [private EXCEPT ![a] = pad(Part(array, slice[a]), slice[a].blocklen).bytes]
      /\ pc' = [pc EXCEPT ![a] = "crypt"]
      /\ array' = array /\ slice' = slice /\ written' = written /\ crypted' = crypted
      /\ original' = original
  <2>1. slice[a].len + Padlen(a) \in Int /\ slice[a].cap \in Int
    <3> DEFINE n == slice[a].len
               p == Padlen(a)
               b == slice[a].blocklen
    <3>1. n \in Nat /\ p \in 1 .. b /\ b \in BlockSizes /\ slice[a].cap \in Nat
      BY SliceFacts DEF BufferInv
    <3> HIDE DEF n, p, b
    <3>2. n + p \in Int /\ slice[a].cap \in Int
      BY <3>1
    <3> QED BY <3>2 DEF n, p
  <2> QED BY <2>1 DEF BufferInv, AppendCopies, Fits
<1>2. BufferType'
  BY <1>1 DEF BufferType
<1>3. /\ pc'[a] = "crypt" /\ private'[a] = pad(Part(array, slice[a]), slice[a].blocklen).bytes
      /\ \A c \in Calls \ {a} : pc'[c] = pc[c] /\ private'[c] = private[c]
  BY <1>1 DEF BufferType
<1>4. ASSUME NEW c \in Calls
      PROVE  Phase(c)' /\ (Alone(c)' => Undisturbed(c)' /\ Progress(c)')
  <2>1. CASE c # a
    BY <1>1, <1>3, <2>1, Others, Frame
  <2>2. CASE c = a
    <3>1. /\ ~Fits(a)' /\ (Alone(a)' <=> Alone(a)) /\ PaddedContent(a)' = PaddedContent(a)
          /\ Padlen(a)' = Padlen(a)
      BY <1>1, Frame
    <3>2. Phase(a)'
      BY <1>3, <3>1 DEF Phase
    <3>3. ASSUME Alone(a) PROVE Undisturbed(a)' /\ Progress(a)'
      <4>1. Undisturbed(a) /\ Progress(a)
        BY <1>1, <3>3
      <4>2. Undisturbed(a)'
        BY <1>1, <3>1, <4>1 DEF Undisturbed
      <4>3. private'[a] = PaddedContent(a)
        BY <1>1, <1>3, <4>1, PartKept DEF PaddedContent
      <4> QED BY <1>1, <1>3, <3>1, <4>1, <4>2, <4>3 DEF Progress
    <3> QED BY <2>2, <3>1, <3>2, <3>3
  <2> QED BY <2>1, <2>2
<1> QED BY <1>2, <1>4 DEF BufferInv

LEMMA CryptStep ==
  ASSUME BufferInv, NEW a \in Calls, CryptBlock(a)
  PROVE  BufferInv'
<1> DEFINE n == Len(crypted[a])
           b == slice[a].blocklen
           y == crypted[a] \o SubSeq(Padded(a), n + 1, n + b)
           q == IF n + b = Len(Padded(a)) THEN "done" ELSE "crypt"
<1>1. /\ BufferType /\ \A c \in Calls : Phase(c) /\ (Alone(c) => Undisturbed(c) /\ Progress(c))
      /\ pc[a] = "crypt"
      /\ crypted' = [crypted EXCEPT ![a] = y]
      /\ pc' = [pc EXCEPT ![a] = q]
      /\ array' = array /\ slice' = slice /\ written' = written /\ private' = private
      /\ original' = original
  BY DEF BufferInv, CryptBlock
<1>a. q \in {"done", "crypt"}
  OBVIOUS
<1>b. n + b = Len(Padded(a)) <=> q = "done"
  OBVIOUS
<1>c. b \in BlockSizes
  BY <1>1, SliceFacts
<1> HIDE DEF y, q
<1>2. BufferType'
  BY <1>1, <1>a DEF BufferType
<1>3. /\ pc'[a] = q /\ crypted'[a] = y
      /\ \A c \in Calls \ {a} : pc'[c] = pc[c] /\ crypted'[c] = crypted[c]
  BY <1>1 DEF BufferType
<1>4. ASSUME NEW c \in Calls
      PROVE  Phase(c)' /\ (Alone(c)' => Undisturbed(c)' /\ Progress(c)')
  <2>1. CASE c # a
    BY <1>1, <1>3, <2>1, Others, Frame
  <2>2. CASE c = a
    <3>1. /\ (Fits(a)' <=> Fits(a)) /\ (Alone(a)' <=> Alone(a))
          /\ PaddedContent(a)' = PaddedContent(a) /\ Padlen(a)' = Padlen(a)
      BY <1>1, Frame
    <3>2. Phase(a)'
      BY <1>1, <1>3, <1>a, <3>1 DEF Phase
    <3>3. ASSUME Alone(a) PROVE Undisturbed(a)' /\ Progress(a)'
      <4> DEFINE x == PaddedContent(a)
                 m == Len(x)
      <4>1. Phase(a) /\ Undisturbed(a) /\ Progress(a)
        BY <1>1, <3>3
      <4>2. Undisturbed(a)'
        BY <1>1, <3>1, <4>1 DEF Undisturbed
      <4>3. Padded(a) = x
        BY <1>1, <4>1, ReadsContent
      <4>4. x \in Seq(Byte) /\ m % b = 0 /\ m \in Nat
        BY <1>1, ContentFacts, LenProperties
      <4>5. /\ ~Fits(a) => private[a] = x
            /\ n \in 0 .. m /\ n % b = 0 /\ crypted[a] = SubSeq(x, 1, n) /\ n < m
        BY <1>1, <4>1 DEF Progress
      <4>6. y = SubSeq(x, 1, n) \o SubSeq(x, n + 1, n + b)
        BY <4>3, <4>5 DEF y
      <4> HIDE DEF n, b, m
      <4>7. n + b <= m /\ (n + b) % b = 0 /\ n \in Nat /\ b \in Nat
        BY <1>c, <4>4, <4>5, NextBlock, SMTT(30) DEF BlockSizes
      <4>8. /\ SubSeq(x, 1, n) \o SubSeq(x, n + 1, n + b) = SubSeq(x, 1, n + b)
            /\ Len(SubSeq(x, 1, n + b)) = n + b
        <5> HIDE DEF x
        <5> QED BY <4>4, <4>7, FrontGrows DEF m
      <4>9. y = SubSeq(x, 1, n + b) /\ Len(y) = n + b
        BY <4>6, <4>8
      <4>10. n + b = m <=> q = "done"
        BY <1>b, <4>3 DEF m
      <4> HIDE DEF x
      <4>11. /\ ~Fits(a) => private'[a] = x
             /\ n + b \in 0 .. m /\ (n + b) % b = 0 /\ y = SubSeq(x, 1, n + b)
             /\ IF q = "done" THEN n + b = m ELSE n + b < m
        BY <1>1, <4>4, <4>5, <4>7, <4>9, <4>10
      <4>12. Progress(a)'
        <5>1. slice'[a].blocklen = b /\ Len(crypted'[a]) = n + b /\ PaddedContent(a)' = x
          BY <1>1, <1>3, <3>1, <4>9 DEF b, x
        <5> QED BY <1>3, <3>1, <4>11, <5>1 DEF Progress, m
      <4> QED BY <4>2, <4>12
    <3> QED BY <2>2, <3>1, <3>2, <3>3
  <2> QED BY <2>1, <2>2
<1> QED BY <1>2, <1>4 DEF BufferInv

\* The cell that the next byte of padding goes to.
Target(a) == slice[a].lo + slice[a].len + written[a]

LEMMA TargetFacts ==
  ASSUME BufferType, NEW a \in Calls, Phase(a), Fits(a), pc[a] = "pad"
  PROVE  /\ Target(a) \in 1 .. Len(array) /\ Target(a) \in Spare(slice[a])
         /\ Target(a) \notin Cells(slice[a])
         /\ written[a] \in Nat /\ written[a] < Padlen(a) /\ Padlen(a) \in 1 .. 16
         /\ Padlen(a) % 256 \in Byte
<1> DEFINE lo == slice[a].lo
           n == slice[a].len
           cap == slice[a].cap
           b == slice[a].blocklen
           p == Padlen(a)
           w == written[a]
<1>1. /\ lo \in Nat \ {0} /\ n \in Nat /\ cap \in Nat /\ b \in BlockSizes /\ p \in 1 .. b
      /\ lo + cap <= Len(array) + 1 /\ Len(array) \in Nat
  BY SliceFacts
<1>2. w \in Nat /\ w < p /\ n + p <= cap
  BY DEF BufferType, Phase, Fits
<1>3. Spare(slice[a]) = lo + n .. lo + cap - 1 /\ Cells(slice[a]) = lo .. lo + n - 1
  BY DEF Spare, Cells
<1>4. Target(a) = lo + n + w
  BY DEF Target
<1> HIDE DEF lo, n, cap, b, p, w
<1>5. lo + n + w \in 1 .. Len(array) /\ lo + n + w \in lo + n .. lo + cap - 1
  BY <1>1, <1>2
<1>6. lo + n + w \notin lo .. lo + n - 1
  BY <1>1, <1>2
<1>7. p \in 1 .. 16 /\ p % 256 \in Byte
  BY <1>1 DEF BlockSizes, Byte
<1> QED BY <1>2, <1>3, <1>4, <1>5, <1>6, <1>7 DEF p, w

\* The padding of a call is in its spare capacity.
LEMMA WrittenInSpare ==
  ASSUME BufferType, NEW c \in Calls, Phase(c), Fits(c), NEW k \in 0 .. written[c] - 1
  PROVE  slice[c].lo + slice[c].len + k \in Spare(slice[c])
<1> DEFINE lo == slice[c].lo
           n == slice[c].len
           cap == slice[c].cap
           b == slice[c].blocklen
           p == Padlen(c)
           w == written[c]
<1>1. lo \in Nat \ {0} /\ n \in Nat /\ cap \in Nat /\ b \in BlockSizes /\ p \in 1 .. b
  BY SliceFacts
<1>2. w \in Nat /\ w <= p /\ n + p <= cap /\ k \in 0 .. w - 1
  <2>1. w \in Nat /\ (w < p \/ w = p) /\ n + p <= cap
    BY DEF BufferType, Phase, Fits
  <2> HIDE DEF w, p, n, cap, b
  <2> QED BY <1>1, <2>1 DEF BlockSizes, w
<1>3. Spare(slice[c]) = lo + n .. lo + cap - 1
  BY DEF Spare
<1> HIDE DEF lo, n, cap, b, p, w
<1>4. lo + n + k \in lo + n .. lo + cap - 1
  BY <1>1, <1>2
<1> QED BY <1>3, <1>4 DEF lo, n

\* A byte that a call writes does not disturb a call that is independent of it.
LEMMA OtherUndisturbed ==
  ASSUME BufferType, NEW a \in Calls, Phase(a), Fits(a), pc[a] = "pad",
         NEW c \in Calls, Independent(slice[c], slice[a]), Phase(c), Undisturbed(c),
         array' = [array EXCEPT ![Target(a)] = Padlen(a) % 256],
         slice' = slice, original' = original, written'[c] = written[c]
  PROVE  Undisturbed(c)'
<1> DEFINE i == Target(a)
           v == Padlen(a) % 256
           C == Cells(slice[c])
           S == Spare(slice[c])
<1>1. array' = [array EXCEPT ![i] = v]
  OBVIOUS
<1>2. i \in 1 .. Len(array) /\ i \in Spare(slice[a]) /\ i \notin Cells(slice[a])
  BY TargetFacts
<1>3. DOMAIN array = 1 .. Len(array)
  BY LenProperties DEF BufferType
<1>4. Padlen(c)' = Padlen(c) /\ (Fits(c)' <=> Fits(c))
  BY Frame
<1>5. (i \notin C /\ i \notin S) \/ (i \notin C /\ v = Padlen(c) % 256)
  <2>1. CASE Spare(slice[a]) \cap (C \cup S) = {}
    BY <1>2, <2>1
  <2>2. CASE /\ slice[c].lo = slice[a].lo /\ slice[c].len = slice[a].len
             /\ slice[c].blocklen = slice[a].blocklen
    BY <1>2, <2>2 DEF Cells, Padlen
  <2> QED BY <2>1, <2>2 DEF Independent
<1> HIDE DEF i, v
<1>6. ASSUME NEW k \in C PROVE array'[k] = original[k]
  BY <1>1, <1>5 DEF Undisturbed
<1>7. ASSUME Fits(c), NEW k \in 0 .. written[c] - 1
      PROVE  array'[slice[c].lo + slice[c].len + k] = Padlen(c) % 256
  <2> DEFINE j == slice[c].lo + slice[c].len + k
  <2>1. j \in S /\ array[j] = Padlen(c) % 256
    BY <1>7, WrittenInSpare DEF Undisturbed
  <2> HIDE DEF j
  <2>2. array'[j] = Padlen(c) % 256
    BY <1>1, <1>2, <1>3, <1>5, <2>1
  <2> QED BY <2>2 DEF j
<1> QED BY <1>4, <1>6, <1>7 DEF Undisturbed

LEMMA InPlaceStep ==
  ASSUME BufferInv, NEW a \in Calls, AppendInPlace(a)
  PROVE  BufferInv'
<1> DEFINE i == Target(a)
           p == Padlen(a)
           v == p % 256
           w == written[a]
           q == IF w + 1 = p THEN "crypt" ELSE "pad"
<1>1. /\ BufferType /\ \A c \in Calls : Phase(c) /\ (Alone(c) => Undisturbed(c) /\ Progress(c))
      /\ pc[a] = "pad" /\ Fits(a)
      /\ array' = [array EXCEPT ![i] = v]
      /\ written' = [written EXCEPT ![a] = w + 1]
      /\ pc' = [pc EXCEPT ![a] = q]
      /\ slice' = slice /\ private' = private /\ crypted' = crypted /\ original' = original
  BY DEF BufferInv, AppendInPlace, Fits, Target
<1>a. q \in {"crypt", "pad"} /\ (q = "pad" <=> w + 1 # p)
  OBVIOUS
<1>2. /\ i \in 1 .. Len(array) /\ i \in Spare(slice[a]) /\ i \notin Cells(slice[a])
      /\ w \in Nat /\ w < p /\ p \in 1 .. 16 /\ v \in Byte
  BY <1>1, TargetFacts
<1>b. i = slice[a].lo + slice[a].len + w
  BY DEF Target
<1> HIDE DEF i, p, v, w, q
<1>3. BufferType'
  <2>1. array' \in Seq(Byte) /\ Len(array') = Len(array)
    <3>1. array \in Seq(Byte)
      BY <1>1 DEF BufferType
    <3> QED BY <1>1, <1>2, <3>1, ExceptSeq
  <2>2. written' \in [Calls -> Nat]
    BY <1>1, <1>2 DEF BufferType
  <2>3. pc' \in [Calls -> {"pad", "crypt", "done"}]
    BY <1>1, <1>a DEF BufferType
  <2> QED BY <1>1, <2>1, <2>2, <2>3 DEF BufferType
<1>4. /\ pc'[a] = q /\ written'[a] = w + 1
      /\ \A c \in Calls \ {a} : pc'[c] = pc[c] /\ written'[c] = written[c]
  BY <1>1 DEF BufferType
<1>5. ASSUME NEW c \in Calls
      PROVE  Phase(c)' /\ (Alone(c)' => Undisturbed(c)' /\ Progress(c)')
  <2>1. CASE c # a
    <3>1. Phase(c)' /\ (Alone(c)' <=> Alone(c)) /\ (Progress(c) => Progress(c)')
      BY <1>1, <1>4, <2>1, Others, Frame
    <3>2. ASSUME Alone(c) PROVE Undisturbed(c)'
      <4>1. Independent(slice[c], slice[a])
        BY <2>1, <3>2 DEF Alone
      <4> QED BY <1>1, <1>4, <2>1, <3>2, <4>1, OtherUndisturbed DEF i, v, p
    <3> QED BY <1>1, <3>1, <3>2
  <2>2. CASE c = a
    <3>1. /\ Fits(a)' /\ (Alone(a)' <=> Alone(a))
          /\ PaddedContent(a)' = PaddedContent(a) /\ Padlen(a)' = p
      BY <1>1, Frame DEF p
    <3>2. private'[a] = <<>> /\ crypted'[a] = <<>>
      BY <1>1 DEF Phase
    <3>3. IF q = "pad" THEN w + 1 < p ELSE w + 1 = p
      BY <1>2, <1>a
    <3>4. Phase(a)'
      BY <1>4, <3>1, <3>2, <3>3 DEF Phase
    <3>5. ASSUME Alone(a) PROVE Undisturbed(a)' /\ Progress(a)'
      <4>1. Undisturbed(a) /\ Progress(a)
        BY <1>1, <3>5
      <4>2. ASSUME NEW k \in Cells(slice[a]) PROVE array'[k] = original[k]
        BY <1>1, <1>2, <4>1 DEF Undisturbed
      <4>3. ASSUME NEW k \in 0 .. w
            PROVE  array'[slice[a].lo + slice[a].len + k] = v
        <5> DEFINE j == slice[a].lo + slice[a].len + k
        <5>1. CASE k = w
          <6>1. array'[i] = v
            BY <1>1, <1>2, LenProperties DEF BufferType
          <6> QED BY <1>b, <5>1, <6>1
        <5>2. CASE k # w
          <6>1. k \in 0 .. w - 1
            BY <1>2, <5>2
          <6>2. array[j] = v
            BY <1>1, <4>1, <6>1 DEF Undisturbed, w, v, p
          <6> HIDE DEF j
          <6>3. array'[j] = v
            BY <1>1, <1>2, <6>2, LenProperties DEF BufferType
          <6> QED BY <6>3 DEF j
        <5> QED BY <5>1, <5>2
      <4>4. Undisturbed(a)'
        <5>1. 0 .. written'[a] - 1 = 0 .. w
          BY <1>2, <1>4
        <5> QED BY <1>1, <3>1, <4>2, <4>3, <5>1, ZenonT(60) DEF Undisturbed, v
      <4>5. Progress(a)'
        <5>1. pc[a] # "done" /\ pc'[a] # "done"
          BY <1>1, <1>4, <1>a
        <5> QED BY <1>1, <3>1, <4>1, <5>1 DEF Progress
      <4> QED BY <4>4, <4>5
    <3> QED BY <2>2, <3>1, <3>4, <3>5
  <2> QED BY <2>1, <2>2
<1> QED BY <1>3, <1>5 DEF BufferInv

-----------------------------------------------------------------------------
(***************************************************************************)
(* The theorem.                                                            *)
(***************************************************************************)

\* Nothing is written or read at first.
LEMMA BufferStart == SBInit => BufferInv
<1> SUFFICES ASSUME SBInit PROVE BufferInv
  OBVIOUS
<1>1. BufferType
  BY LayoutAssumption DEF SBInit, BufferType
<1>2. ASSUME NEW c \in Calls PROVE Phase(c) /\ Undisturbed(c) /\ Progress(c)
  <2> DEFINE x == PaddedContent(c)
             m == Len(x)
             b == slice[c].blocklen
             n == slice[c].len
             p == Padlen(c)
  <2>1. /\ pc[c] = "pad" /\ private[c] = <<>> /\ crypted[c] = <<>> /\ written[c] = 0
        /\ array = original
    BY <1>2 DEF SBInit
  <2>2. n \in Nat /\ b \in BlockSizes /\ p \in 1 .. b
    BY <1>1, SliceFacts
  <2>3. m \in Nat /\ m = n + p /\ x \in Seq(Byte)
    BY <1>1, ContentFacts, LenProperties
  <2> HIDE DEF m, b, n, p
  <2>4. 0 < p /\ 0 < m /\ 0 % b = 0 /\ 0 \in 0 .. m
    BY <2>2, <2>3, BlockSizeCases
  <2>5. Phase(c)
    BY <2>1, <2>4 DEF Phase, p
  <2>6. Undisturbed(c)
    BY <2>1 DEF Undisturbed
  <2>7. Progress(c)
    <3> DEFINE y == crypted[c]
    <3>1. Len(y) = 0
      BY <2>1
    <3>2. y = SubSeq(x, 1, 0)
      BY <2>1, <2>3
    <3> QED BY <2>1, <2>4, <3>1, <3>2 DEF Progress, m, b
  <2> QED BY <2>5, <2>6, <2>7
<1> QED BY <1>1, <1>2 DEF BufferInv

\* A call that is done has read all of it, so unpad finds the content.
LEMMA DoneRecovers == BufferInv => RecoversContent
<1> SUFFICES ASSUME BufferInv, NEW c \in Calls, Alone(c), pc[c] = "done"
             PROVE  unpad(crypted[c], slice[c].blocklen) = Bytes(Part(original, slice[c]))
  BY DEF RecoversContent, Recovered, Alone
<1> DEFINE x == PaddedContent(c)
           s == Part(original, slice[c])
           b == slice[c].blocklen
<1>1. BufferType /\ Progress(c)
  BY DEF BufferInv
<1>2. s \in Seq(Byte) /\ x \in Seq(Byte) /\ b \in BlockSizes
  BY <1>1, ContentFacts, SliceFacts
<1>3. crypted[c] = SubSeq(x, 1, Len(x))
  BY <1>1 DEF Progress
<1>4. x = pad(s, b).bytes
  BY DEF PaddedContent
<1> HIDE DEF x, s
<1>5. crypted[c] = x
  BY <1>2, <1>3, SubSeqFull
<1> QED BY <1>2, <1>4, <1>5, UnpadInvertsPad DEF s

\* Every call on a slice that no other call can disturb encrypts what it was given,
\* whatever the array holds and however pad's appends and the reads of CryptBlocks
\* interleave.
THEOREM RecoversContentHolds == SBSpec => []RecoversContent
<1>1. BufferInv /\ [SBNext]_bufferVars => BufferInv'
  <2> SUFFICES ASSUME BufferInv, [SBNext]_bufferVars PROVE BufferInv'
    OBVIOUS
  <2>1. CASE UNCHANGED bufferVars
    BY <2>1 DEF bufferVars, BufferInv, BufferType, Phase, Undisturbed, Progress, Fits, Alone,
                PaddedContent, Padlen
  <2>2. CASE SBNext
    BY <2>2, CopyStep, InPlaceStep, CryptStep DEF SBNext
  <2> QED BY <2>1, <2>2
<1> QED BY BufferStart, <1>1, DoneRecovers, PTL DEF SBSpec

=============================================================================
