---------------------------- MODULE SharedBuffer ----------------------------
(***************************************************************************)
(* The CBC branch of encryptDESCBC and encryptAESCBC at the level of       *)
(* memory.  pad calls append on the caller's slice: if the slice has spare *)
(* capacity, the padding is written into the caller's array behind the     *)
(* slice, where something else may live, and CryptBlocks reads it back     *)
(* later.  Several calls run at once or one after the other, on slices of  *)
(* one array.                                                              *)
(*                                                                         *)
(* A slice is a record [lo, len, cap, blocklen] of cells of the array and  *)
(* the block size of the cipher it is encrypted with.                      *)
(***************************************************************************)
EXTENDS Padding

CONSTANTS
  Calls,     \* calls of Encrypt
  Layouts,   \* functions from Calls to slices
  Arrays     \* contents of the caller's array

Slice == {s \in [lo : Nat \ {0}, len : Nat, cap : Nat, blocklen : 1 .. 16] : s.len <= s.cap}

\* The slices are slices of the array.
ASSUME LayoutAssumption ==
  /\ Arrays \subseteq Seq(Byte)
  /\ \A l \in Layouts : /\ l \in [Calls -> Slice]
                        /\ \A a \in Arrays, c \in Calls : l[c].lo + l[c].cap <= Len(a) + 1

VARIABLES
  array,     \* the caller's array
  slice,     \* the slice each call got
  private,   \* the array append allocated for a call, <<>> if it did not
  written,   \* padding bytes a call has written into the caller's array
  crypted,   \* bytes CryptBlocks has read so far
  pc,
  original   \* history: the array before the calls

bufferVars == <<array, slice, private, written, crypted, pc, original>>

Cells(s) == s.lo .. s.lo + s.len - 1
Spare(s) == s.lo + s.len .. s.lo + s.cap - 1

Part(a, s) == SubSeq(a, s.lo, s.lo + s.len - 1)

SBInit ==
  /\ array \in Arrays
  /\ slice \in Layouts
  /\ private = [c \in Calls |-> <<>>]
  /\ written = [c \in Calls |-> 0]
  /\ crypted = [c \in Calls |-> <<>>]
  /\ pc = [c \in Calls |-> "pad"]
  /\ original = array

Padlen(c) == padlen(slice[c].len, slice[c].blocklen)

\* append without spare capacity: a new array.
AppendCopies(c) ==
  /\ pc[c] = "pad" /\ slice[c].len + Padlen(c) > slice[c].cap
  /\ private' = [private EXCEPT ![c] = pad(Part(array, slice[c]), slice[c].blocklen).bytes]
  /\ pc' = [pc EXCEPT ![c] = "crypt"]
  /\ UNCHANGED <<array, slice, written, crypted, original>>

\* append with spare capacity: the next byte of the padding.
AppendInPlace(c) ==
  /\ pc[c] = "pad" /\ slice[c].len + Padlen(c) <= slice[c].cap
  /\ array' = [array EXCEPT ![slice[c].lo + slice[c].len + written[c]] = Padlen(c) % 256]
  /\ written' = [written EXCEPT ![c] = @ + 1]
  /\ pc' = [pc EXCEPT ![c] = IF written[c] + 1 = Padlen(c) THEN "crypt" ELSE "pad"]
  /\ UNCHANGED <<slice, private, crypted, original>>

\* What CryptBlocks reads: the slice that append returned.
Padded(c) ==
  IF private[c] # <<>> THEN private[c]
  ELSE SubSeq(array, slice[c].lo, slice[c].lo + slice[c].len + Padlen(c) - 1)

CryptBlock(c) ==
  /\ pc[c] = "crypt"
  /\ LET n == Len(crypted[c])
         m == n + slice[c].blocklen
     IN  /\ crypted' = [crypted EXCEPT ![c] = @ \o SubSeq(Padded(c), n + 1, m)]
         /\ pc' = [pc EXCEPT ![c] = IF m = Len(Padded(c)) THEN "done" ELSE "crypt"]
  /\ UNCHANGED <<array, slice, private, written, original>>

SBNext ==
  \E c \in Calls : AppendCopies(c) \/ AppendInPlace(c) \/ CryptBlock(c)

SBSpec == SBInit /\ [][SBNext]_bufferVars

-----------------------------------------------------------------------------

\* Two calls cannot disturb each other: neither slice has spare capacity that
\* overlaps the other one, or both are given the same bytes and the same cipher.
Independent(s, t) ==
  \/ /\ Spare(s) \cap (Cells(t) \cup Spare(t)) = {}
     /\ Spare(t) \cap (Cells(s) \cup Spare(s)) = {}
  \/ s.lo = t.lo /\ s.len = t.len /\ s.blocklen = t.blocklen

Recovered(c) ==
  pc[c] = "done" =>
    unpad(crypted[c], slice[c].blocklen) = Bytes(Part(original, slice[c]))

\* Calls whose slices are independent, or the same, encrypt what they were given,
\* however their writes of padding and their reads of blocks interleave: what is
\* decrypted and unpadded is the caller's content, of any length, also one that
\* is a multiple of the block size or looks padded itself.
RecoversContent ==
  \A c \in Calls :
    (\A d \in Calls \ {c} : Independent(slice[c], slice[d])) => Recovered(c)

=============================================================================
