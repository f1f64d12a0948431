------------------------------ MODULE KeyWrap -------------------------------
(***************************************************************************)
(* aesKeyWrap and aesKeyUnwrap of kem.go: the AES key wrap of RFC 3394, one *)
(* step per iteration of the inner loop.  A caller runs one function on an *)
(* input and, if it succeeds, the other one on its output.                 *)
(*                                                                         *)
(* A buffer is a sequence of eight-byte halves of an AES block; the slice  *)
(* output[i*8 : (i+1)*8] is output[i + 1].  An input may end in a ragged   *)
(* part of a half.                                                         *)
(***************************************************************************)
EXTENDS Integers, Sequences

CONSTANTS
  Half,                \* the values of a half
  IV,                  \* aesKeyWrapInitialValue
  BlockEncrypt(_, _),  \* block.Encrypt on two halves: a pair of halves
  BlockDecrypt(_, _),  \* block.Decrypt on two halves: a pair of halves
  XorCounter(_, _),    \* a half, read as a big-endian number, xor a counter
  MaxHalves,           \* bound: halves of a key
  Inputs               \* records [halves, ragged] given to the first call

\* What the standard library promises of a block cipher and of xor.
ASSUME CipherAssumption ==
  /\ IV \in Half
  /\ \A x, y \in Half :
       /\ BlockEncrypt(x, y) \in Half \X Half
       /\ BlockDecrypt(x, y) \in Half \X Half
       /\ BlockDecrypt(BlockEncrypt(x, y)[1], BlockEncrypt(x, y)[2]) = <<x, y>>
       /\ BlockEncrypt(BlockDecrypt(x, y)[1], BlockDecrypt(x, y)[2]) = <<x, y>>

ASSUME XorAssumption ==
  /\ MaxHalves \in Nat
  /\ \A x \in Half, c \in 1 .. 6 * MaxHalves :
       XorCounter(x, c) \in Half /\ XorCounter(XorCounter(x, c), c) = x

ASSUME InputsAssumption ==
  /\ Inputs \subseteq [halves : Seq(Half), ragged : BOOLEAN]
  /\ \A x \in Inputs : Len(x.halves) <= MaxHalves

VARIABLES
  fn,       \* the function that runs, "wrap" or "unwrap"
  pc,       \* "call", "loop", "again" (the second call is next) or "end"
  input,    \* the argument of the call
  buf,      \* output of aesKeyWrap, working of aesKeyUnwrap
  n, j, i,  \* the loop variables
  result,   \* the last call's return value
  first,    \* history: the argument and the result of the first call
  trace     \* history: buf by loop position, as the first call went through it

kwVars == <<fn, pc, input, buf, n, j, i, result, first, trace>>

Refused == [ok |-> FALSE, halves |-> <<>>]
Returned(s) == [ok |-> TRUE, halves |-> s]
Other(f) == IF f = "wrap" THEN "unwrap" ELSE "wrap"
FirstRun == first.result = Refused

KWInit ==
  /\ fn \in {"wrap", "unwrap"} /\ pc = "call"
  /\ input \in Inputs
  /\ buf = <<>> /\ n = 0 /\ j = 0 /\ i = 0
  /\ result = Refused
  /\ first = [fn |-> fn, input |-> input, result |-> Refused]
  /\ trace = [p \in {} |-> <<>>]

\* Both length checks: a key of two halves at least, a wrapped one of three.
WellFormed(f, x) == ~x.ragged /\ Len(x.halves) >= (IF f = "wrap" THEN 2 ELSE 3)

Refuse ==
  /\ pc = "call" /\ ~WellFormed(fn, input)
  /\ result' = Refused /\ pc' = "end"
  /\ UNCHANGED <<fn, input, buf, n, j, i, first, trace>>

\* The initial value goes in front of the key.
StartWrap ==
  /\ pc = "call" /\ fn = "wrap" /\ WellFormed(fn, input)
  /\ n' = Len(input.halves) /\ j' = 0 /\ i' = 1
  /\ buf' = <<IV>> \o input.halves
  /\ trace' = IF FirstRun THEN [p \in {<<0, 1>>} |-> buf'] ELSE trace
  /\ pc' = "loop"
  /\ UNCHANGED <<fn, input, result, first>>

StartUnwrap ==
  /\ pc = "call" /\ fn = "unwrap" /\ WellFormed(fn, input)
  /\ n' = Len(input.halves) - 1 /\ j' = 5 /\ i' = Len(input.halves) - 1
  /\ buf' = input.halves
  /\ trace' = IF FirstRun THEN [p \in {<<6, 1>>} |-> buf'] ELSE trace
  /\ pc' = "loop"
  /\ UNCHANGED <<fn, input, result, first>>

\* The loop position after <<a, b>> in the order of aesKeyWrap.
After(a, b) == IF b = n THEN <<a + 1, 1>> ELSE <<a, b + 1>>

\* A counter that starts again in every round.
tRound(a, b) == b
t(a, b) == n * a + b

WrapBody(s, a, b) ==
  LET e == BlockEncrypt(s[1], s[b + 1])
  IN  [s EXCEPT ![1] = XorCounter(e[1], t(a, b)), ![b + 1] = e[2]]

\* The counter of the step before.
UnwrapBodyLate(s, a, b) ==
  LET d == BlockDecrypt(XorCounter(s[1], t(a, b) - 1), s[b + 1])
  IN  [s EXCEPT ![1] = d[1], ![b + 1] = d[2]]
UnwrapBody(s, a, b) ==
  LET d == BlockDecrypt(XorCounter(s[1], t(a, b)), s[b + 1])
  IN  [s EXCEPT ![1] = d[1], ![b + 1] = d[2]]

Record(p, s) == IF FirstRun THEN [q \in DOMAIN trace \cup {p} |-> IF q = p THEN s ELSE trace[q]]
                ELSE trace

WrapStep ==
  /\ pc = "loop" /\ fn = "wrap" /\ j < 6
  /\ buf' = WrapBody(buf, j, i)
  /\ j' = After(j, i)[1] /\ i' = After(j, i)[2]
  /\ trace' = Record(After(j, i), buf')
  /\ UNCHANGED <<fn, pc, input, n, result, first>>

UnwrapStep ==
  /\ pc = "loop" /\ fn = "unwrap" /\ j >= 0
  /\ buf' = UnwrapBody(buf, j, i)
  /\ IF i = 1 THEN j' = j - 1 /\ i' = n ELSE j' = j /\ i' = i - 1
  /\ trace' = Record(<<j, i>>, buf')
  /\ UNCHANGED <<fn, pc, input, n, result, first>>

\* The end of a call: what it returns goes to the other function, once.
Return(r) ==
  /\ result' = r
  /\ first' = IF FirstRun THEN [first EXCEPT !.result = r] ELSE first
  /\ pc' = IF FirstRun /\ r.ok THEN "again" ELSE "end"
  /\ UNCHANGED <<fn, input, buf, n, j, i, trace>>

WrapReturn == pc = "loop" /\ fn = "wrap" /\ j = 6 /\ Return(Returned(buf))

\* Whatever the initial value is, the key is returned.
IntegrityUnchecked(s) == TRUE
IntegrityCheck(s) == s[1] = IV

UnwrapReturn ==
  /\ pc = "loop" /\ fn = "unwrap" /\ j < 0
  /\ Return(IF IntegrityCheck(buf) THEN Returned(Tail(buf)) ELSE Refused)

Again ==
  /\ pc = "again"
  /\ fn' = Other(fn) /\ pc' = "call"
  /\ input' = [halves |-> result.halves, ragged |-> FALSE]
  /\ UNCHANGED <<buf, n, j, i, result, first, trace>>

KWNext ==
  \/ Refuse \/ Again
  \/ StartWrap \/ WrapStep \/ WrapReturn
  \/ StartUnwrap \/ UnwrapStep \/ UnwrapReturn

KWSpec == KWInit /\ [][KWNext]_kwVars

-----------------------------------------------------------------------------

\* Section 2.2.1 of RFC 3394, by shifting: the registers A, R[1], ..., R[n] after
\* each of the 6 n steps.
Shift(s, step) ==
  LET e == BlockEncrypt(s[1], s[2])
  IN  <<XorCounter(e[1], step)>> \o SubSeq(s, 3, Len(s)) \o <<e[2]>>
Registers(key) ==
  LET S[k \in 0 .. 6 * Len(key)] == IF k = 0 THEN <<IV>> \o key ELSE Shift(S[k - 1], k)
  IN  S
RFC3394Wrap(key) == Registers(key)[6 * Len(key)]

\* aesKeyWrap, which indexes the registers in place, computes the wrap of RFC
\* 3394, which shifts them and counts its steps from 1 to 6 n.
MatchesRFC3394 ==
  pc = "again" /\ fn = "wrap" => result = Returned(RFC3394Wrap(input.halves))

Ended == pc = "end" /\ ~FirstRun

\* What decryptKEMRecipientKey unwraps is the key that makeKEMRecipientInfo
\* wrapped: the second call never refuses it and undoes all the rounds.
UnwrapInvertsWrap ==
  Ended /\ first.fn = "wrap" => result = Returned(first.input.halves)

\* aesKeyUnwrap accepts nothing but the output of aesKeyWrap for the key it
\* returns: wrapping that key again gives the same ciphertext.
AcceptsOnlyWraps ==
  Ended /\ first.fn = "unwrap" => result = Returned(first.input.halves)

=============================================================================
