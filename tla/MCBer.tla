------------------------------- MODULE MCBer -------------------------------
(***************************************************************************)
(* Ber on every byte string over small alphabets up to bounded lengths,    *)
(* and on a few long ones whose lengths need the long form.                *)
(***************************************************************************)
EXTENDS Ber

Repeat(n) == [i \in 1 .. n |-> 255]

\* Primitive and constructed objects around 127/128, 255/256: short form, long
\* form, a tolerated and a refused leading zero, an indefinite wrapper.
LongInputs ==
  UNION {{<<4, 129, n>> \o Repeat(n), <<4, 130, 0, n>> \o Repeat(n),
          <<4, 131, 0, 0, n>> \o Repeat(n),
          <<4, 132, 0, 128, 0, n>> \o Repeat(n),
          <<48, 128, 4, 129, n>> \o Repeat(n) \o <<0, 0>>,
          <<48, 130, 0, n, 4, 129, n - 3>> \o Repeat(n - 3),
          <<48, 129, n, 4, 129, n - 2>> \o Repeat(n - 2)} : n \in {127, 128, 255}}
  \cup
  {<<4, 130, 1, 0>> \o Repeat(256), <<4, 130, 1, 1>> \o Repeat(256),
   <<36, 128, 4, 130, 1, 0>> \o Repeat(256) \o <<0, 0>>,
   <<4, 132, 128, 0, 0, 1, 7>>, <<4, 132, 0, 128, 0, 1, 7>>, <<4, 133, 0, 0, 0, 0, 1, 7>>}

Strings(bytes, max) == UNION {[1 .. n -> bytes] : n \in 0 .. max}

\* Every header form: low and high tags, short, long and indefinite lengths; and
\* nesting of definite and indefinite objects, deep enough to pass the limit.
MCInputs ==
  Strings({0, 1, 2, 4, 31, 48, 128, 129, 130}, 5) \cup Strings({0, 2, 48, 128}, 8)
    \cup LongInputs

=============================================================================
