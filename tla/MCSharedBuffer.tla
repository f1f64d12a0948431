--------------------------- MODULE MCSharedBuffer ---------------------------
(***************************************************************************)
(* Two calls on an array of five cells, block sizes 2 and 3 for the 8 of   *)
(* DES and the 16 of AES.                                                  *)
(***************************************************************************)
EXTENDS SharedBuffer, TLC

CONSTANTS c1, c2

ArrayLength == 5
Slices == {s \in [lo : 1 .. ArrayLength, len : 0 .. 4, cap : 0 .. ArrayLength,
                  blocklen : {2, 3}] :
             s.len <= s.cap /\ s.lo + s.cap <= ArrayLength + 1}
MCLayouts == [Calls -> Slices]

\* The values that padding can have, and one that it cannot.
MCArrays == {<<0, 1, 2, 1, 2>>, <<2, 2, 1, 1, 0>>, <<3, 3, 3, 2, 2>>}
CallSymmetry == Permutations(Calls)

\* Chunks of one array, encrypted one after the other or at once.
ChunkLayouts ==
  {[c \in Calls |-> IF c = d THEN [lo |-> 1, len |-> 2, cap |-> 5, blocklen |-> 2]
                             ELSE [lo |-> 3, len |-> 2, cap |-> 3, blocklen |-> 2]] :
     d \in Calls}

\* "encrypted data does not match plaintext": a message decrypts to what the
\* caller asked to have encrypted, also if that is a part of a larger array.
ClaimRecovered == \A c \in Calls : Recovered(c)

=============================================================================
