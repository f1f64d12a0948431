---------------------------- MODULE BerReference ----------------------------
(***************************************************************************)
(* What ber2der computes, stated as a grammar instead of a reader: a byte  *)
(* string is one object when it can be cut, in any way at all, into a tag, *)
(* a length field and a content of that length (or a content followed by   *)
(* the end-of-contents marker).  Nothing is scanned from left to right and *)
(* no offset is kept, so the reader in Ber can be compared with it.        *)
(***************************************************************************)
EXTENDS Integers, Sequences

Byte == 0 .. 255

From(s, i) == SubSeq(s, i, Len(s))

IsTag(t) ==
  IF t[1] % 32 # 31
  THEN Len(t) = 1
  ELSE /\ Len(t) >= 2
       /\ t[Len(t)] < 128
       /\ \A i \in 2 .. Len(t) - 1 : t[i] >= 128

IsConstructed(s) == (s[1] \div 32) % 2 = 1

\* n as k bytes, big endian.
Place == <<1, 256, 65536, 16777216>>
BigEndian(n, k) == [i \in 1 .. k |-> (n \div Place[k + 1 - i]) % 256]

\* The largest number of k bytes, as a signed number of 32 bits.
Largest == <<255, 65535, 16777215, 2147483647>>

\* Length fields of n that are acceptable: the short form, or the long form in
\* at most 4 bytes whose first 9 bits are not all zero.
IsLength(f, n) ==
  \/ n < 128 /\ f = <<n>>
  \/ \E k \in 1 .. 4 :
       /\ n <= Largest[k]
       /\ f = <<128 + k>> \o BigEndian(n, k)
       /\ f[2] = 0 => k > 1 /\ f[3] >= 128

\* The one length field that DER allows, of a number below 2^32.
DerLength(n) ==
  IF n < 128 THEN <<n>>
  ELSE LET k == CHOOSE k \in 1 .. 4 : /\ k < 4 => n <= Largest[k]
                                      /\ k > 1 => n > Largest[k - 1]
       IN  <<128 + k>> \o BigEndian(n, k)

Encode(tag, content) == tag \o DerLength(Len(content)) \o content

(***************************************************************************)
(* The contents of constructed objects: text is a sequence of objects of   *)
(* at most the given levels of nesting, none of which looks like the       *)
(* end-of-contents marker when the length is indefinite.                   *)
(***************************************************************************)

Part == [text : Seq(Byte), levels : Nat, indefinite : BOOLEAN]
PartOf(text, levels, indefinite) ==
  [text |-> text, levels |-> levels, indefinite |-> indefinite]

\* s begins with the end-of-contents marker.
IsMarked(s) == Len(s) >= 2 /\ s[1] = 0 /\ s[2] = 0

\* The ways to cut s into tag, length field and content.
DefiniteCuts(s) ==
  {cut \in (1 .. Len(s)) \X (1 .. 5) :
     LET start == cut[1] + cut[2]
     IN  /\ start <= Len(s)
         /\ IsTag(SubSeq(s, 1, cut[1]))
         /\ IsLength(SubSeq(s, cut[1] + 1, start), Len(s) - start)}

\* The ways to cut s into tag, the length byte 128, content and marker.
IndefiniteCuts(s) ==
  {t \in 1 .. Len(s) - 3 :
     /\ IsTag(SubSeq(s, 1, t))
     /\ IsConstructed(s) /\ s[t + 1] = 128
     /\ From(s, Len(s) - 1) = <<0, 0>>}

\* What s is when it is cut in one way and contents has the contents of shorter
\* strings.
DefiniteDers(contents, s, levels, cut) ==
  LET c == From(s, cut[1] + cut[2] + 1)
  IN  {Encode(SubSeq(s, 1, cut[1]), x) :
         x \in IF IsConstructed(s) THEN contents[PartOf(c, levels - 1, FALSE)] ELSE {c}}
IndefiniteDers(contents, s, levels, t) ==
  {Encode(SubSeq(s, 1, t), x) :
     x \in contents[PartOf(SubSeq(s, t + 2, Len(s) - 2), levels - 1, TRUE)]}

DersIn(contents, s, levels) ==
  IF levels = 0 THEN {}
  ELSE (UNION {DefiniteDers(contents, s, levels, cut) : cut \in DefiniteCuts(s)})
         \cup (UNION {IndefiniteDers(contents, s, levels, t) : t \in IndefiniteCuts(s)})

\* A first object of k bytes, and the rest.
FirstAndRest(contents, part, k) ==
  UNION {{a \o b : b \in contents[PartOf(From(part.text, k + 1), part.levels, part.indefinite)]} :
         a \in DersIn(contents, SubSeq(part.text, 1, k), part.levels)}

ContentsIn(contents, part) ==
  IF part.text = <<>> THEN {<<>>}
  ELSE IF part.indefinite /\ IsMarked(part.text) THEN {}
  ELSE UNION {FirstAndRest(contents, part, k) : k \in 1 .. Len(part.text)}

Contents[part \in Part] == ContentsIn(Contents, part)

\* The DER encodings of the objects that s is an encoding of: the empty set when s
\* is not an object, one element when the grammar is sound.
DersOf(s, levels) == DersIn(Contents, s, levels)

=============================================================================
