------------------------------ MODULE Padding -------------------------------
(***************************************************************************)
(* pad (encrypt.go) and unpad (decrypt.go): the padding of the CBC modes.  *)
(* Byte strings are sequences of 0 .. 255.  A result is a record: ok is    *)
(* FALSE for an error, bytes is the returned slice.                        *)
(***************************************************************************)
EXTENDS Integers, Sequences

Byte == 0 .. 255

Invalid == [ok |-> FALSE, bytes |-> <<>>]
Bytes(s) == [ok |-> TRUE, bytes |-> s]

\* A multiple of the block size gets no padding.
padlenNone(n, blocklen) == (blocklen - (n % blocklen)) % blocklen

\* How many bytes pad adds to n bytes.
padlen(n, blocklen) ==
  LET p == blocklen - (n % blocklen) IN IF p = 0 THEN blocklen ELSE p

\* byte(padlen) keeps the low eight bits.
padding(n, blocklen) == [i \in 1 .. padlen(n, blocklen) |-> padlen(n, blocklen) % 256]

pad(data, blocklen) ==
  IF blocklen < 1 THEN Invalid ELSE Bytes(data \o padding(Len(data), blocklen))


\* The scan of the final block.
ValidPadding(data, blocklen) ==
  LET p == data[Len(data)]
  IN  /\ p \in 1 .. blocklen
      /\ \A i \in 0 .. blocklen - 1 : i + 1 <= p => data[Len(data) - i] = p % 256

unpad(data, blocklen) ==
  IF blocklen < 1 \/ data = <<>> THEN Invalid
  ELSE IF Len(data) % blocklen # 0 \/ ~ValidPadding(data, blocklen) THEN Invalid
  ELSE Bytes(SubSeq(data, 1, Len(data) - data[Len(data)]))

=============================================================================
