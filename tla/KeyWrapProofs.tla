---------------------------- MODULE KeyWrapProofs ---------------------------
(***************************************************************************)
(* aesKeyUnwrap undoes aesKeyWrap and accepts nothing else, for every      *)
(* block cipher and every length of the key.                               *)
(***************************************************************************)
EXTENDS KeyWrap, SequenceTheorems, WellFoundedInduction, TLAPS

\* The buffers of a call for a key of m halves.
Buffers(m) == {s \in Seq(Half) : Len(s) = m + 1}

-----------------------------------------------------------------------------

\* The counter stays in the range for which xor is its own inverse.
LEMMA CounterRange ==
  ASSUME n \in 2 .. MaxHalves, NEW a \in 0 .. 5, NEW b \in 1 .. n
  PROVE  t(a, b) \in 1 .. 6 * MaxHalves
<1>1. MaxHalves \in Nat
  BY XorAssumption
<1>2. n * a >= 0 /\ n * a <= 5 * n
  <2>1. a = 0 \/ a = 1 \/ a = 2 \/ a = 3 \/ a = 4 \/ a = 5
    OBVIOUS
  <2> QED
    BY <1>1, <2>1
<1>3. n * a \in Int
  BY <1>1
<1> QED
  BY <1>1, <1>2, <1>3 DEF t

\* A buffer with another register and another half at b.
Put(s, b, x, y) == [s EXCEPT ![1] = x, ![b + 1] = y]

LEMMA PutElements ==
  ASSUME NEW m \in Nat, NEW s \in Buffers(m), NEW b \in 1 .. m, NEW x \in Half, NEW y \in Half
  PROVE  /\ Put(s, b, x, y) \in Buffers(m)
         /\ Put(s, b, x, y)[1] = x /\ Put(s, b, x, y)[b + 1] = y
         /\ \A k \in 1 .. m + 1 : k # 1 /\ k # b + 1 => Put(s, b, x, y)[k] = s[k]
<1> DEFINE r1 == [s EXCEPT ![1] = x]
           r2 == [r1 EXCEPT ![b + 1] = y]
<1>1. s \in Seq(Half) /\ Len(s) = m + 1 /\ 1 \in 1 .. Len(s) /\ b + 1 \in 1 .. Len(s)
  BY DEF Buffers
<1>2. r1 \in Seq(Half) /\ Len(r1) = m + 1
  BY <1>1, ExceptSeq
<1>3. r2 \in Seq(Half) /\ Len(r2) = m + 1
  BY <1>1, <1>2, ExceptSeq
<1>4. DOMAIN s = 1 .. m + 1 /\ DOMAIN r1 = 1 .. m + 1
  BY <1>1, <1>2, LenProperties
<1>5. r2 = Put(s, b, x, y)
  BY DEF Put
<1>6. r2[1] = x /\ r2[b + 1] = y
  BY <1>4
<1>7. \A k \in 1 .. m + 1 : k # 1 /\ k # b + 1 => r2[k] = s[k]
  BY <1>4
<1> QED
  BY <1>3, <1>5, <1>6, <1>7 DEF Buffers

\* Putting the old halves back restores the buffer.
LEMMA PutBack ==
  ASSUME NEW m \in Nat, NEW s \in Buffers(m), NEW b \in 1 .. m, NEW x \in Half, NEW y \in Half,
         s[1] \in Half, s[b + 1] \in Half
  PROVE  Put(Put(s, b, x, y), b, s[1], s[b + 1]) = s
<1> DEFINE w == Put(s, b, x, y)
           u == Put(w, b, s[1], s[b + 1])
<1>1. w \in Buffers(m) /\ \A k \in 1 .. m + 1 : k # 1 /\ k # b + 1 => w[k] = s[k]
  BY PutElements
<1> HIDE DEF w
<1>0. \A p, q \in Half :
        /\ Put(w, b, p, q) \in Buffers(m) /\ Put(w, b, p, q)[1] = p /\ Put(w, b, p, q)[b + 1] = q
        /\ \A k \in 1 .. m + 1 : k # 1 /\ k # b + 1 => Put(w, b, p, q)[k] = w[k]
  BY <1>1, PutElements
<1>2. /\ u \in Buffers(m) /\ u[1] = s[1] /\ u[b + 1] = s[b + 1]
      /\ \A k \in 1 .. m + 1 : k # 1 /\ k # b + 1 => u[k] = w[k]
  BY <1>0
<1> HIDE DEF u
<1>3. \A k \in 1 .. m + 1 : u[k] = s[k]
  BY <1>1, <1>2
<1>4. u \in Seq(Half) /\ s \in Seq(Half) /\ Len(u) = m + 1 /\ Len(s) = m + 1
  BY <1>2 DEF Buffers
<1>5. u = s
  BY <1>3, <1>4, SeqEqual
<1> QED
  BY <1>5 DEF u, w

\* One iteration of aesKeyUnwrap undoes the iteration of aesKeyWrap with the same
\* counter, and the other way round.
LEMMA BodiesInverse ==
  ASSUME n \in 2 .. MaxHalves, NEW a \in 0 .. 5, NEW b \in 1 .. n, NEW s \in Buffers(n)
  PROVE  /\ WrapBody(s, a, b) \in Buffers(n) /\ UnwrapBody(WrapBody(s, a, b), a, b) = s
         /\ UnwrapBody(s, a, b) \in Buffers(n) /\ WrapBody(UnwrapBody(s, a, b), a, b) = s
<1> DEFINE c == t(a, b)
<1>0. n \in Nat /\ 1 \in 1 .. n + 1 /\ b + 1 \in 1 .. n + 1
  BY XorAssumption
<1>1. /\ c \in 1 .. 6 * MaxHalves
      /\ s \in Seq(Half) /\ Len(s) = n + 1 /\ s[1] \in Half /\ s[b + 1] \in Half
  <2>1. s \in Seq(Half) /\ Len(s) = n + 1
    BY DEF Buffers
  <2> QED
    BY <1>0, <2>1, CounterRange, ElementOfSeq
<1> HIDE DEF c
<1>4. \A p, q \in Half :
        /\ Put(s, b, p, q) \in Buffers(n) /\ Put(s, b, p, q)[1] = p /\ Put(s, b, p, q)[b + 1] = q
        /\ Put(Put(s, b, p, q), b, s[1], s[b + 1]) = s
  <2>1. \A p, q \in Half : /\ Put(s, b, p, q) \in Buffers(n)
                           /\ Put(s, b, p, q)[1] = p /\ Put(s, b, p, q)[b + 1] = q
    BY <1>0, PutElements
  <2>2. \A p, q \in Half : Put(Put(s, b, p, q), b, s[1], s[b + 1]) = s
    BY <1>0, <1>1, PutBack
  <2> QED
    BY <2>1, <2>2
<1>2. WrapBody(s, a, b) \in Buffers(n) /\ UnwrapBody(WrapBody(s, a, b), a, b) = s
  <2> DEFINE e == BlockEncrypt(s[1], s[b + 1])
             x == XorCounter(e[1], c)
             w == Put(s, b, x, e[2])
  <2>1. e \in Half \X Half /\ BlockDecrypt(e[1], e[2]) = <<s[1], s[b + 1]>>
    BY <1>1, CipherAssumption
  <2>2. e[1] \in Half /\ e[2] \in Half /\ x \in Half /\ XorCounter(x, c) = e[1]
    BY <1>1, <2>1, XorAssumption
  <2>3. WrapBody(s, a, b) = w
    BY DEF WrapBody, Put, c
  <2> HIDE DEF e, x
  <2>4. w \in Buffers(n) /\ w[1] = x /\ w[b + 1] = e[2]
    BY <1>4, <2>2
  <2>5. Put(w, b, s[1], s[b + 1]) = s
    BY <1>4, <2>2
  <2> HIDE DEF w
  <2>6. UnwrapBody(w, a, b) = Put(w, b, <<s[1], s[b + 1]>>[1], <<s[1], s[b + 1]>>[2])
    BY <2>1, <2>2, <2>4 DEF UnwrapBody, Put, c
  <2> QED
    BY <2>3, <2>4, <2>5, <2>6
<1>3. UnwrapBody(s, a, b) \in Buffers(n) /\ WrapBody(UnwrapBody(s, a, b), a, b) = s
  <2> DEFINE x == XorCounter(s[1], c)
             d == BlockDecrypt(x, s[b + 1])
             w == Put(s, b, d[1], d[2])
  <2>1. x \in Half /\ XorCounter(x, c) = s[1]
    BY <1>1, XorAssumption
  <2> HIDE DEF x
  <2>2. d \in Half \X Half /\ BlockEncrypt(d[1], d[2]) = <<x, s[b + 1]>>
    BY <1>1, <2>1, CipherAssumption
  <2>3. d[1] \in Half /\ d[2] \in Half
    BY <2>2
  <2>4. UnwrapBody(s, a, b) = w
    BY DEF UnwrapBody, Put, x, c
  <2> HIDE DEF d
  <2>5. w \in Buffers(n) /\ w[1] = d[1] /\ w[b + 1] = d[2]
    BY <1>4, <2>3
  <2>6. Put(w, b, s[1], s[b + 1]) = s
    BY <1>4, <2>3
  <2> HIDE DEF w
  <2>7. WrapBody(w, a, b) = Put(w, b, XorCounter(<<x, s[b + 1]>>[1], c), <<x, s[b + 1]>>[2])
    BY <2>2, <2>5 DEF WrapBody, Put, c
  <2> QED
    BY <2>1, <2>4, <2>5, <2>6, <2>7
<1> QED
  BY <1>2, <1>3

-----------------------------------------------------------------------------

(***************************************************************************)
(* The inductive invariant.  The first call leaves in trace the buffer at  *)
(* every loop position it has passed; consecutive ones are linked by the   *)
(* body of aesKeyWrap.  The second call walks the trace back.              *)
(***************************************************************************)

Operations == {"wrap", "unwrap"}

Linked(a, b) ==
  /\ <<a, b>> \in DOMAIN trace /\ After(a, b) \in DOMAIN trace
  /\ trace[<<a, b>>] \in Buffers(n)
  /\ trace[After(a, b)] = WrapBody(trace[<<a, b>>], a, b)

\* The positions that the first call has passed.
Passed(a, b) ==
  \/ ~FirstRun
  \/ fn = "wrap" /\ (a < j \/ (a = j /\ b < i))
  \/ fn = "unwrap" /\ (a > j \/ (a = j /\ b > i))

Links == \A a \in 0 .. 5, b \in 1 .. n : Passed(a, b) => Linked(a, b)

\* Where the loop stands, as a position of trace.
Here == IF fn = "wrap" THEN <<j, i>> ELSE After(j, i)

AtLoop ==
  /\ i \in 1 .. n
  /\ fn = "wrap" => j \in 0 .. 6 /\ (j = 6 => i = 1)
  /\ fn = "unwrap" => j \in -1 .. 5 /\ (j = -1 => i = n)
  /\ buf \in Buffers(n)
  /\ Here \in DOMAIN trace /\ trace[Here] = buf

FirstLoop ==
  /\ AtLoop /\ n \in 2 .. MaxHalves /\ Links
  /\ fn = "wrap" => /\ n = Len(input.halves)
                    /\ <<0, 1>> \in DOMAIN trace /\ trace[<<0, 1>>] = <<IV>> \o input.halves
  /\ fn = "unwrap" => /\ n = Len(input.halves) - 1
                      /\ <<6, 1>> \in DOMAIN trace /\ trace[<<6, 1>>] = input.halves

FirstInv ==
  FirstRun => /\ fn = first.fn /\ input = first.input
              /\ pc \in {"call", "loop", "end"}
              /\ pc = "loop" => FirstLoop

\* The key and its wrap, whichever of them the first call was given.
PlainKey == IF first.fn = "wrap" THEN first.input.halves ELSE first.result.halves
WrappedKey == IF first.fn = "wrap" THEN first.result.halves ELSE first.input.halves

WholeTrace ==
  /\ n \in 2 .. MaxHalves /\ Links
  /\ PlainKey \in Seq(Half) /\ Len(PlainKey) = n
  /\ WrappedKey \in Buffers(n)
  /\ <<0, 1>> \in DOMAIN trace /\ trace[<<0, 1>>] = <<IV>> \o PlainKey
  /\ <<6, 1>> \in DOMAIN trace /\ trace[<<6, 1>>] = WrappedKey

SecondInv ==
  ~FirstRun => /\ WholeTrace
               /\ pc = "again" => fn = first.fn /\ result = first.result
               /\ pc # "again" => /\ fn = Other(first.fn)
                                  /\ input = [halves |-> first.result.halves, ragged |-> FALSE]
               /\ pc = "loop" => AtLoop
               /\ pc = "end" => result = Returned(first.input.halves)

KWTypeOK ==
  /\ fn \in Operations /\ first.fn \in Operations
  /\ pc \in {"call", "loop", "again", "end"}
  /\ first.input \in Inputs
  /\ first = [fn |-> first.fn, input |-> first.input, result |-> first.result]
  /\ result \in [ok : BOOLEAN, halves : Seq(Half)]
  /\ first.result \in [ok : BOOLEAN, halves : Seq(Half)]
  /\ first.result.ok \/ FirstRun

KWInv == KWTypeOK /\ FirstInv /\ SecondInv

LEMMA InitKWInv == KWInit => KWInv
BY EmptySeq, InputsAssumption
   DEF KWInit, KWInv, KWTypeOK, FirstInv, SecondInv, FirstRun, Refused, Operations

\* The arguments of a call in the first and in the second run.
LEMMA InputType ==
  ASSUME KWInv, pc = "call"
  PROVE  /\ input.halves \in Seq(Half) /\ Len(input.halves) \in Nat
         /\ FirstRun => Len(input.halves) <= MaxHalves
<1>1. CASE FirstRun
  <2>1. input \in Inputs
    BY <1>1 DEF KWInv, KWTypeOK, FirstInv
  <2> QED
    BY <1>1, <2>1, InputsAssumption, LenProperties
<1>2. CASE ~FirstRun
  <2>1. input.halves = first.result.halves
    BY <1>2 DEF KWInv, SecondInv
  <2> QED
    BY <1>2, <2>1, LenProperties DEF KWInv, KWTypeOK
<1> QED
  BY <1>1, <1>2

LEMMA RefuseKeeps ==
  ASSUME KWInv, Refuse
  PROVE  KWInv'
<1>1. FirstRun' = FirstRun /\ WholeTrace' = WholeTrace
  BY DEF Refuse, FirstRun, WholeTrace, Links, Linked, Passed, After, WrapBody, t, PlainKey,
         WrappedKey, Buffers
<1>2. KWTypeOK'
  BY <1>1, EmptySeq DEF KWInv, KWTypeOK, Refuse, Refused
<1>3. FirstInv'
  BY <1>1 DEF KWInv, FirstInv, Refuse
<1>4. CASE FirstRun
  BY <1>1, <1>2, <1>3, <1>4 DEF KWInv, SecondInv
<1>5. CASE ~FirstRun
  \* what the first call returned is long enough for the second
  <2>1. /\ pc = "call" /\ WholeTrace /\ fn = Other(first.fn)
        /\ input = [halves |-> first.result.halves, ragged |-> FALSE]
        /\ first.fn \in Operations
    BY <1>5 DEF KWInv, KWTypeOK, SecondInv, Refuse
  <2>2. n \in 2 .. MaxHalves /\ Len(PlainKey) = n /\ Len(WrappedKey) = n + 1
    BY <2>1 DEF WholeTrace, Buffers
  <2>3. WellFormed(fn, input)
    BY <2>1, <2>2, XorAssumption DEF WellFormed, Other, PlainKey, WrappedKey, Operations
  <2> QED
    BY <2>3 DEF Refuse
<1> QED
  BY <1>4, <1>5

LEMMA AgainKeeps ==
  ASSUME KWInv, Again
  PROVE  KWInv'
<1>1. ~FirstRun
  BY DEF KWInv, FirstInv, Again
<1>2. FirstRun' = FirstRun
  BY DEF Again, FirstRun
<1>3. KWTypeOK'
  BY DEF KWInv, KWTypeOK, Again, Other, Operations, FirstRun
<1>4. FirstInv'
  BY <1>1, <1>2 DEF FirstInv
<1>5. WholeTrace /\ fn = first.fn /\ result = first.result
  BY <1>1 DEF KWInv, SecondInv, Again
<1>6. Links'
  <2>1. \A a \in 0 .. 5, b \in 1 .. n : Linked(a, b)
    BY <1>1, <1>5 DEF WholeTrace, Links, Passed
  <2>2. \A a \in 0 .. 5, b \in 1 .. n' : Linked(a, b)'
    BY <2>1, ZenonT(60) DEF Again, Linked, After, WrapBody, t, Buffers
  <2> QED
    BY <2>2 DEF Links
<1>7. WholeTrace'
  BY <1>5, <1>6 DEF WholeTrace, Again, PlainKey, WrappedKey, Buffers
<1>8. SecondInv'
  BY <1>5, <1>7 DEF SecondInv, Again
<1> QED
  BY <1>3, <1>4, <1>8 DEF KWInv

\* The buffer that StartWrap makes.
LEMMA Prefixed ==
  ASSUME NEW s \in Seq(Half)
  PROVE  /\ <<IV>> \o s \in Buffers(Len(s))
         /\ (<<IV>> \o s)[1] = IV
         /\ Tail(<<IV>> \o s) = s
<1>1. <<IV>> \in Seq(Half) /\ Len(<<IV>>) = 1 /\ <<IV>>[1] = IV /\ Len(s) \in Nat
  BY CipherAssumption, LenProperties
<1>2. /\ <<IV>> \o s \in Seq(Half) /\ Len(<<IV>> \o s) = Len(s) + 1
      /\ (<<IV>> \o s)[1] = IV
      /\ \A k \in 1 .. Len(s) : (<<IV>> \o s)[k + 1] = s[k]
  BY <1>1, ConcatProperties
<1> DEFINE w == <<IV>> \o s
<1> HIDE DEF w
<1>3. w \in Seq(Half) /\ Len(w) = Len(s) + 1 /\ \A k \in 1 .. Len(s) : w[k + 1] = s[k]
  BY <1>2 DEF w
<1>4. w # << >>
  BY <1>1, <1>3, EmptySeq
<1>5. Tail(w) \in Seq(Half) /\ Len(Tail(w)) = Len(s)
      /\ \A k \in 1 .. Len(s) : Tail(w)[k] = w[k + 1]
  BY <1>1, <1>3, <1>4, HeadTailProperties
<1>6. Tail(w) = s
  BY <1>3, <1>5, SeqEqual
<1> QED
  BY <1>2, <1>6 DEF w, Buffers

\* A buffer whose register is the initial value is a prefixed key.
LEMMA Unprefixed ==
  ASSUME NEW m \in Nat, NEW s \in Buffers(m), s[1] = IV
  PROVE  Tail(s) \in Seq(Half) /\ Len(Tail(s)) = m /\ s = <<IV>> \o Tail(s)
<1>1. s \in Seq(Half) /\ Len(s) = m + 1 /\ s # << >>
  BY EmptySeq DEF Buffers
<1>2. /\ Tail(s) \in Seq(Half) /\ Len(Tail(s)) = m
      /\ \A k \in 1 .. m : Tail(s)[k] = s[k + 1]
  BY <1>1, HeadTailProperties
<1> DEFINE r == Tail(s)
<1> HIDE DEF r
<1>3. r \in Seq(Half) /\ Len(r) = m /\ \A k \in 1 .. m : r[k] = s[k + 1]
  BY <1>2 DEF r
<1>4. <<IV>> \in Seq(Half) /\ Len(<<IV>>) = 1 /\ <<IV>>[1] = IV
  BY CipherAssumption
<1>5. /\ <<IV>> \o r \in Seq(Half) /\ Len(<<IV>> \o r) = m + 1
      /\ \A k \in 1 .. m + 1 : (<<IV>> \o r)[k] = IF k <= 1 THEN <<IV>>[k] ELSE r[k - 1]
  BY <1>3, <1>4, ConcatProperties
<1>6. \A k \in 1 .. m + 1 : (<<IV>> \o r)[k] = s[k]
  BY <1>3, <1>4, <1>5
<1>7. <<IV>> \o r = s
  BY <1>1, <1>5, <1>6, SeqEqual
<1> QED
  BY <1>2, <1>7 DEF r

\* The parts of the invariant that no start and no step of a loop touches.
LEMMA LoopFrame ==
  ASSUME KWInv, UNCHANGED <<fn, input, result, first>>, pc' = "loop", pc \in {"call", "loop"},
         FirstRun => FirstLoop', ~FirstRun => WholeTrace' /\ AtLoop'
  PROVE  KWInv'
<1>1. FirstRun' = FirstRun
  BY DEF FirstRun
<1>2. KWTypeOK'
  BY <1>1 DEF KWInv, KWTypeOK
<1>3. FirstInv'
  BY <1>1 DEF KWInv, FirstInv
<1>4. SecondInv'
  BY <1>1 DEF KWInv, SecondInv
<1> QED
  BY <1>2, <1>3, <1>4 DEF KWInv

\* The second call starts with the n of the first and does not touch the trace.
LEMMA WholeTraceFrame ==
  ASSUME WholeTrace, ~FirstRun, UNCHANGED <<n, trace, first>>
  PROVE  WholeTrace'
<1>1. \A a \in 0 .. 5, b \in 1 .. n : Linked(a, b)
  BY DEF WholeTrace, Links, Passed
<1>2. \A a \in 0 .. 5, b \in 1 .. n' : Linked(a, b)'
  BY <1>1, ZenonT(60) DEF Linked, After, WrapBody, t, Buffers
<1>3. Links'
  BY <1>2 DEF Links
<1> QED
  BY <1>3 DEF WholeTrace, PlainKey, WrappedKey, Buffers

LEMMA StartWrapKeeps ==
  ASSUME KWInv, StartWrap
  PROVE  KWInv'
<1>1. input.halves \in Seq(Half) /\ Len(input.halves) \in Nat /\ Len(input.halves) >= 2
  BY InputType DEF StartWrap, WellFormed
<1>2. buf' \in Buffers(n')
  BY <1>1, Prefixed DEF StartWrap
<1>3. CASE FirstRun
  <2>1. n' \in 2 .. MaxHalves
    BY <1>1, <1>3, InputType, XorAssumption DEF StartWrap
  <2>2. trace' = [p \in {<<0, 1>>} |-> buf'] /\ FirstRun'
    BY <1>3 DEF StartWrap, FirstRun
  <2>3. Links'
    BY <2>1, <2>2 DEF Links, Passed, StartWrap
  <2>4. Here' = <<0, 1>>
    BY DEF Here, StartWrap
  <2>5. AtLoop'
    BY <1>2, <2>1, <2>2, <2>4 DEF AtLoop, StartWrap
  <2>6. FirstLoop'
    BY <2>1, <2>2, <2>3, <2>5 DEF FirstLoop, StartWrap
  <2> QED
    BY <1>3, <2>6, LoopFrame DEF StartWrap
<1>4. CASE ~FirstRun
  <2>1. /\ WholeTrace /\ fn = Other(first.fn) /\ first.fn \in Operations
        /\ input.halves = first.result.halves
    BY <1>4 DEF KWInv, KWTypeOK, SecondInv, StartWrap
  <2>2. first.fn = "unwrap" /\ input.halves = PlainKey
    BY <2>1 DEF Other, Operations, PlainKey, StartWrap
  <2>3. n' = n /\ n \in 2 .. MaxHalves /\ trace' = trace /\ first' = first
    BY <1>4, <2>1, <2>2 DEF StartWrap, WholeTrace, FirstRun
  <2>4. WholeTrace'
    BY <1>4, <2>1, <2>3, WholeTraceFrame
  <2>5. Here' = <<0, 1>> /\ buf' = trace[<<0, 1>>] /\ <<0, 1>> \in DOMAIN trace
    BY <2>1, <2>2 DEF Here, StartWrap, WholeTrace
  <2>6. AtLoop'
    BY <1>2, <2>3, <2>5 DEF AtLoop, StartWrap
  <2> QED
    BY <1>4, <2>4, <2>6, LoopFrame DEF StartWrap
<1> QED
  BY <1>3, <1>4

LEMMA StartUnwrapKeeps ==
  ASSUME KWInv, StartUnwrap
  PROVE  KWInv'
<1>1. input.halves \in Seq(Half) /\ Len(input.halves) \in Nat /\ Len(input.halves) >= 3
  BY InputType DEF StartUnwrap, WellFormed
<1>2. buf' \in Buffers(n') /\ n' \in Nat /\ n' >= 2
  BY <1>1 DEF StartUnwrap, Buffers
<1>3. Here' = <<6, 1>>
  BY <1>2 DEF Here, After, StartUnwrap
<1>4. CASE FirstRun
  <2>1. n' \in 2 .. MaxHalves
    BY <1>1, <1>4, InputType, XorAssumption DEF StartUnwrap
  <2>2. trace' = [p \in {<<6, 1>>} |-> buf'] /\ FirstRun'
    BY <1>4 DEF StartUnwrap, FirstRun
  <2>3. Links'
    BY <2>1, <2>2 DEF Links, Passed, StartUnwrap
  <2>4. AtLoop'
    BY <1>2, <1>3, <2>1, <2>2 DEF AtLoop, StartUnwrap
  <2>5. FirstLoop'
    BY <2>1, <2>2, <2>3, <2>4 DEF FirstLoop, StartUnwrap
  <2> QED
    BY <1>4, <2>5, LoopFrame DEF StartUnwrap
<1>5. CASE ~FirstRun
  <2>1. /\ WholeTrace /\ fn = Other(first.fn) /\ first.fn \in Operations
        /\ input.halves = first.result.halves
    BY <1>5 DEF KWInv, KWTypeOK, SecondInv, StartUnwrap
  <2>2. first.fn = "wrap" /\ input.halves = WrappedKey
    BY <2>1 DEF Other, Operations, WrappedKey, StartUnwrap
  <2>3. n' = n /\ n \in 2 .. MaxHalves /\ trace' = trace /\ first' = first
    BY <1>5, <2>1, <2>2, XorAssumption DEF StartUnwrap, WholeTrace, FirstRun, Buffers
  <2>4. WholeTrace'
    BY <1>5, <2>1, <2>3, WholeTraceFrame
  <2>5. buf' = trace[<<6, 1>>] /\ <<6, 1>> \in DOMAIN trace
    BY <2>1, <2>2 DEF StartUnwrap, WholeTrace
  <2>6. AtLoop'
    BY <1>2, <1>3, <2>3, <2>5 DEF AtLoop, StartUnwrap
  <2> QED
    BY <1>5, <2>4, <2>6, LoopFrame DEF StartUnwrap
<1> QED
  BY <1>4, <1>5

LEMMA RecordKeeps ==
  ASSUME FirstRun, NEW p, NEW s
  PROVE  /\ p \in DOMAIN Record(p, s) /\ Record(p, s)[p] = s
         /\ \A q \in DOMAIN trace : /\ q \in DOMAIN Record(p, s)
                                    /\ q # p => Record(p, s)[q] = trace[q]
BY DEF Record

\* In a loop, of either call, the buffer is the one that trace has there.
LEMMA InLoop ==
  ASSUME KWInv, pc = "loop"
  PROVE  /\ AtLoop /\ n \in 2 .. MaxHalves /\ n \in Nat
         /\ fn \in Operations
         /\ FirstRun => FirstLoop
         /\ ~FirstRun => WholeTrace
<1>1. CASE FirstRun
  BY <1>1, XorAssumption DEF KWInv, KWTypeOK, FirstInv, FirstLoop
<1>2. CASE ~FirstRun
  BY <1>2, XorAssumption DEF KWInv, KWTypeOK, SecondInv, WholeTrace
<1> QED
  BY <1>1, <1>2

\* The order of the loop positions.
LEMMA Positions ==
  ASSUME n \in Nat, n >= 2, NEW a \in 0 .. 5, NEW b \in 1 .. n
  PROVE  /\ After(a, b)[1] \in 0 .. 6 /\ After(a, b)[2] \in 1 .. n
         /\ After(a, b)[1] = 6 => After(a, b)[2] = 1
         /\ After(a, b) = <<After(a, b)[1], After(a, b)[2]>>
         /\ After(a, b) # <<0, 1>> /\ After(a, b) # <<a, b>> /\ <<a, b>> # <<6, 1>>
BY DEF After

\* A link survives a record at a position that is not one of its ends.
LEMMA LinkKept ==
  ASSUME NEW a \in 0 .. 5, NEW b \in 1 .. n, Linked(a, b), FirstRun, n' = n,
         NEW p, NEW s, trace' = Record(p, s), p # <<a, b>>, p # After(a, b)
  PROVE  Linked(a, b)'
<1>1. <<a, b>> \in DOMAIN trace /\ After(a, b) \in DOMAIN trace
  BY DEF Linked
<1>2. After(a, b)' = After(a, b)
  BY DEF After
<1>3. /\ <<a, b>> \in DOMAIN trace' /\ After(a, b) \in DOMAIN trace'
      /\ trace'[<<a, b>>] = trace[<<a, b>>] /\ trace'[After(a, b)] = trace[After(a, b)]
  BY <1>1, RecordKeeps
<1> QED
  BY <1>2, <1>3 DEF Linked, WrapBody, t, Buffers

LEMMA WrapStepKeeps ==
  ASSUME KWInv, WrapStep
  PROVE  KWInv'
<1>1. /\ AtLoop /\ n \in 2 .. MaxHalves /\ n \in Nat /\ n >= 2 /\ n' = n
      /\ fn = "wrap" /\ fn' = "wrap" /\ first' = first /\ input' = input
      /\ FirstRun' = FirstRun
  BY InLoop DEF WrapStep, FirstRun
<1>2. j \in 0 .. 5 /\ i \in 1 .. n /\ buf \in Buffers(n)
      /\ <<j, i>> \in DOMAIN trace /\ trace[<<j, i>>] = buf
  BY <1>1 DEF AtLoop, Here, WrapStep
<1>3. buf' = WrapBody(buf, j, i) /\ buf' \in Buffers(n')
  BY <1>1, <1>2, BodiesInverse DEF WrapStep, Buffers
<1>4. /\ <<j', i'>> = After(j, i) /\ j' \in 0 .. 6 /\ i' \in 1 .. n /\ (j' = 6 => i' = 1)
      /\ After(j, i) # <<0, 1>> /\ After(j, i) # <<j, i>> /\ Here' = After(j, i)
  <2>1. /\ After(j, i)[1] \in 0 .. 6 /\ After(j, i)[2] \in 1 .. n
        /\ After(j, i)[1] = 6 => After(j, i)[2] = 1
        /\ After(j, i) = <<After(j, i)[1], After(j, i)[2]>>
        /\ After(j, i) # <<0, 1>> /\ After(j, i) # <<j, i>>
    BY <1>1, <1>2, Positions
  <2> QED
    BY <1>1, <2>1 DEF WrapStep, Here
<1>5. CASE FirstRun
  <2>1. trace' = Record(After(j, i), buf') /\ FirstLoop
    BY <1>5, InLoop DEF WrapStep
  <2>2. After(j, i) \in DOMAIN trace' /\ trace'[After(j, i)] = buf'
    BY <1>5, <2>1, RecordKeeps
  <2>3. AtLoop'
    BY <1>1, <1>3, <1>4, <2>2 DEF AtLoop
  <2>4. ASSUME NEW a \in 0 .. 5, NEW b \in 1 .. n, a = j, b = i
        PROVE  Linked(a, b)'
    <3>1. <<a, b>> \in DOMAIN trace' /\ trace'[<<a, b>>] = buf
      BY <1>2, <1>4, <1>5, <2>1, <2>4, RecordKeeps
    <3>2. After(a, b)' = After(j, i)
      BY <1>1, <2>4 DEF After
    <3>3. WrapBody(trace[<<a, b>>], a, b)' = WrapBody(buf, j, i)
      BY <1>1, <2>4, <3>1 DEF WrapBody, t
    <3> QED
      BY <1>1, <1>2, <1>3, <2>2, <3>1, <3>2, <3>3 DEF Linked, Buffers
  <2>5. ASSUME NEW a \in 0 .. 5, NEW b \in 1 .. n', Passed(a, b)'
        PROVE  Linked(a, b)'
    <3>1. b \in 1 .. n /\ (a < j' \/ (a = j' /\ b < i'))
      BY <1>1, <1>5, <2>5 DEF Passed
    <3>2. CASE a = j /\ b = i
      BY <2>4, <3>1, <3>2
    <3>3. CASE ~(a = j /\ b = i)
      <4>1. /\ a < j \/ (a = j /\ b < i)
            /\ After(j, i) # <<a, b>> /\ After(j, i) # After(a, b)
        BY <1>1, <1>2, <1>4, <3>1, <3>3 DEF After
      <4>2. Linked(a, b)
        BY <1>1, <2>1, <3>1, <4>1 DEF FirstLoop, Links, Passed
      <4> QED
        BY <1>1, <1>5, <2>1, <3>1, <4>1, <4>2, LinkKept
    <3> QED
      BY <3>2, <3>3
  <2>6. Links'
    BY <2>5 DEF Links
  <2>7. <<0, 1>> \in DOMAIN trace' /\ trace'[<<0, 1>>] = <<IV>> \o input.halves
    BY <1>1, <1>4, <1>5, <2>1, RecordKeeps, SMTT(30) DEF FirstLoop
  <2>8. FirstLoop'
    BY <1>1, <2>1, <2>3, <2>6, <2>7 DEF FirstLoop
  <2> QED
    BY <1>5, <2>8, LoopFrame DEF WrapStep
<1>6. CASE ~FirstRun
  <2>1. trace' = trace /\ WholeTrace
    BY <1>6, InLoop DEF WrapStep, Record
  <2>2. WholeTrace'
    BY <1>1, <1>6, <2>1, WholeTraceFrame
  <2>3. Linked(j, i)
    BY <1>2, <1>6, <2>1 DEF WholeTrace, Links, Passed
  <2>4. After(j, i) \in DOMAIN trace' /\ trace'[After(j, i)] = buf'
    BY <1>2, <1>3, <2>1, <2>3 DEF Linked
  <2>5. AtLoop'
    BY <1>1, <1>3, <1>4, <2>4 DEF AtLoop
  <2> QED
    BY <1>6, <2>2, <2>5, LoopFrame DEF WrapStep
<1> QED
  BY <1>5, <1>6

LEMMA UnwrapStepKeeps ==
  ASSUME KWInv, UnwrapStep
  PROVE  KWInv'
<1>1. /\ AtLoop /\ n \in 2 .. MaxHalves /\ n \in Nat /\ n >= 2 /\ n' = n
      /\ fn = "unwrap" /\ fn' = "unwrap" /\ first' = first /\ input' = input
      /\ FirstRun' = FirstRun
  BY InLoop DEF UnwrapStep, FirstRun
<1>2. j \in 0 .. 5 /\ i \in 1 .. n /\ buf \in Buffers(n)
      /\ After(j, i) \in DOMAIN trace /\ trace[After(j, i)] = buf
  BY <1>1 DEF AtLoop, Here, UnwrapStep
<1>3. /\ buf' = UnwrapBody(buf, j, i) /\ buf' \in Buffers(n') /\ buf' \in Buffers(n)
      /\ WrapBody(buf', j, i) = buf
  BY <1>1, <1>2, BodiesInverse DEF UnwrapStep, Buffers
<1>4. /\ j' \in -1 .. 5 /\ i' \in 1 .. n /\ (j' = -1 => i' = n)
      /\ IF i = 1 THEN j' = j - 1 /\ i' = n ELSE j' = j /\ i' = i - 1
      /\ Here' = <<j, i>> /\ <<j, i>> # After(j, i) /\ <<j, i>> # <<6, 1>>
  <2>1. IF i = 1 THEN j' = j - 1 /\ i' = n ELSE j' = j /\ i' = i - 1
    BY DEF UnwrapStep
  <2>2. Here' = <<j, i>>
    BY <1>1, <1>2, <2>1 DEF Here, After
  <2> QED
    BY <1>1, <1>2, <2>1, <2>2, Positions
<1>5. CASE FirstRun
  <2>1. trace' = Record(<<j, i>>, buf') /\ FirstLoop
    BY <1>5, InLoop DEF UnwrapStep
  <2>2. <<j, i>> \in DOMAIN trace' /\ trace'[<<j, i>>] = buf'
    BY <1>5, <2>1, RecordKeeps
  <2>3. AtLoop'
    BY <1>1, <1>3, <1>4, <2>2 DEF AtLoop
  <2>4. ASSUME NEW a \in 0 .. 5, NEW b \in 1 .. n, a = j, b = i
        PROVE  Linked(a, b)'
    <3>1. After(a, b)' = After(j, i)
      BY <1>1, <2>4 DEF After
    <3>2. After(j, i) \in DOMAIN trace' /\ trace'[After(j, i)] = buf
      BY <1>2, <1>4, <1>5, <2>1, RecordKeeps
    <3>3. WrapBody(trace[<<a, b>>], a, b)' = WrapBody(buf', j, i)
      BY <1>1, <2>2, <2>4 DEF WrapBody, t
    <3> QED
      BY <1>1, <1>3, <2>2, <2>4, <3>1, <3>2, <3>3 DEF Linked, Buffers
  <2>5. ASSUME NEW a \in 0 .. 5, NEW b \in 1 .. n', Passed(a, b)'
        PROVE  Linked(a, b)'
    <3>1. b \in 1 .. n /\ (a > j' \/ (a = j' /\ b > i'))
      BY <1>1, <1>5, <2>5 DEF Passed
    <3>2. CASE a = j /\ b = i
      BY <2>4, <3>1, <3>2
    <3>3. CASE ~(a = j /\ b = i)
      <4>1. /\ a > j \/ (a = j /\ b > i)
            /\ <<j, i>> # <<a, b>> /\ <<j, i>> # After(a, b)
        BY <1>1, <1>2, <1>4, <3>1, <3>3 DEF After
      <4>2. Linked(a, b)
        BY <1>1, <2>1, <3>1, <4>1 DEF FirstLoop, Links, Passed
      <4> QED
        BY <1>1, <1>5, <2>1, <3>1, <4>1, <4>2, LinkKept
    <3> QED
      BY <3>2, <3>3
  <2>6. Links'
    BY <2>5 DEF Links
  <2>7. <<6, 1>> \in DOMAIN trace' /\ trace'[<<6, 1>>] = input.halves
    BY <1>1, <1>4, <1>5, <2>1, RecordKeeps DEF FirstLoop
  <2>8. FirstLoop'
    BY <1>1, <2>1, <2>3, <2>6, <2>7 DEF FirstLoop
  <2> QED
    BY <1>5, <2>8, LoopFrame DEF UnwrapStep
<1>6. CASE ~FirstRun
  <2>1. trace' = trace /\ WholeTrace
    BY <1>6, InLoop DEF UnwrapStep, Record
  <2>2. WholeTrace'
    BY <1>1, <1>6, <2>1, WholeTraceFrame
  <2>3. Linked(j, i)
    BY <1>2, <1>6, <2>1 DEF WholeTrace, Links, Passed
  <2>4. <<j, i>> \in DOMAIN trace' /\ trace'[<<j, i>>] = buf'
    <3>1. /\ <<j, i>> \in DOMAIN trace /\ trace[<<j, i>>] \in Buffers(n)
          /\ buf = WrapBody(trace[<<j, i>>], j, i)
      BY <1>2, <2>3 DEF Linked
    <3>2. \A s \in Buffers(n) : UnwrapBody(WrapBody(s, j, i), j, i) = s
      BY <1>1, <1>2, BodiesInverse
    <3> QED
      BY <1>3, <2>1, <3>1, <3>2
  <2>5. AtLoop'
    BY <1>1, <1>3, <1>4, <2>4 DEF AtLoop
  <2> QED
    BY <1>6, <2>2, <2>5, LoopFrame DEF UnwrapStep
<1> QED
  BY <1>5, <1>6

\* At the end of the first call its whole run is in trace.
LEMMA FirstReturnKeeps ==
  ASSUME KWInv, FirstRun, pc = "loop", NEW r, r \in [ok : BOOLEAN, halves : Seq(Half)],
         r.ok, Return(r), \A a \in 0 .. 5, b \in 1 .. n : Linked(a, b),
         PlainKey' \in Seq(Half) /\ Len(PlainKey') = n /\ WrappedKey' \in Buffers(n),
         <<0, 1>> \in DOMAIN trace /\ trace[<<0, 1>>] = <<IV>> \o PlainKey',
         <<6, 1>> \in DOMAIN trace /\ trace[<<6, 1>>] = WrappedKey'
  PROVE  KWInv'
<1>1. /\ n \in 2 .. MaxHalves /\ n' = n /\ trace' = trace /\ pc' = "again" /\ fn' = fn
      /\ result' = r /\ first' = [first EXCEPT !.result = r] /\ fn = first.fn
  BY InLoop DEF Return, KWInv, FirstInv
<1>2. r # Refused
  BY DEF Refused
<1>3. KWTypeOK' /\ ~FirstRun'
  <2>1. first'.fn = first.fn /\ first'.input = first.input /\ first'.result = r
        /\ first' = [fn |-> first'.fn, input |-> first'.input, result |-> first'.result]
    BY <1>1 DEF KWInv, KWTypeOK
  <2> QED
    BY <1>1, <1>2, <2>1 DEF KWInv, KWTypeOK, FirstRun, Refused
<1>4. FirstInv'
  BY <1>3 DEF FirstInv
<1>5. Links'
  <2>1. ASSUME NEW a \in 0 .. 5, NEW b \in 1 .. n PROVE Linked(a, b)'
    <3>1. Linked(a, b) /\ n' = n /\ trace' = trace
      BY <1>1
    <3> QED
      BY <3>1 DEF Linked, After, WrapBody, t, Buffers
  <2> QED
    BY <1>1, <2>1 DEF Links
<1>6. WholeTrace'
  BY <1>1, <1>5 DEF WholeTrace, Buffers
<1>7. first'.fn = first.fn /\ first'.result = r
  BY <1>1 DEF KWInv, KWTypeOK
<1>8. SecondInv'
  BY <1>1, <1>6, <1>7 DEF SecondInv
<1> QED
  BY <1>3, <1>4, <1>8 DEF KWInv

\* A first call that is refused ends the run.
LEMMA FirstRefusedKeeps ==
  ASSUME KWInv, FirstRun, pc = "loop", Return(Refused)
  PROVE  KWInv'
<1>1. /\ pc' = "end" /\ fn' = fn /\ input' = input /\ result' = Refused
      /\ first' = [first EXCEPT !.result = Refused]
  BY DEF Return, Refused
<1>2. first' = first
  BY <1>1 DEF KWInv, KWTypeOK, FirstRun
<1>3. FirstRun' /\ KWTypeOK'
  BY <1>1, <1>2, EmptySeq DEF KWInv, KWTypeOK, FirstRun, Refused
<1>4. FirstInv' /\ SecondInv'
  BY <1>1, <1>2, <1>3 DEF KWInv, FirstInv, SecondInv
<1> QED
  BY <1>3, <1>4 DEF KWInv

\* The second call has to return the argument of the first.
LEMMA SecondReturnKeeps ==
  ASSUME KWInv, ~FirstRun, pc = "loop", Return(Returned(first.input.halves)),
         first.input.halves \in Seq(Half)
  PROVE  KWInv'
<1>1. /\ pc' = "end" /\ first' = first /\ result' = Returned(first.input.halves)
      /\ UNCHANGED <<fn, input, n, trace>> /\ ~FirstRun'
  BY DEF Return, FirstRun
<1>2. KWTypeOK'
  BY <1>1 DEF KWInv, KWTypeOK, Returned, FirstRun
<1>3. FirstInv'
  BY <1>1 DEF FirstInv
<1>4. WholeTrace'
  BY <1>1, WholeTraceFrame DEF KWInv, SecondInv
<1>5. SecondInv'
  BY <1>1, <1>4 DEF KWInv, SecondInv
<1> QED
  BY <1>2, <1>3, <1>5 DEF KWInv

LEMMA WrapReturnKeeps ==
  ASSUME KWInv, WrapReturn
  PROVE  KWInv'
<1>1. /\ pc = "loop" /\ fn = "wrap" /\ j = 6 /\ Return(Returned(buf))
      /\ AtLoop /\ n \in 2 .. MaxHalves /\ n \in Nat
  BY InLoop DEF WrapReturn
<1>2. /\ i = 1 /\ buf \in Buffers(n) /\ buf \in Seq(Half)
      /\ <<6, 1>> \in DOMAIN trace /\ trace[<<6, 1>>] = buf
  BY <1>1 DEF AtLoop, Here, Buffers
<1>3. CASE FirstRun
  <2>1. FirstLoop /\ first.fn = "wrap" /\ first.input = input
    BY <1>1, <1>3, InLoop DEF KWInv, FirstInv
  <2>2. \A a \in 0 .. 5, b \in 1 .. n : Linked(a, b)
    BY <1>1, <2>1 DEF FirstLoop, Links, Passed
  <2>3. first' = [first EXCEPT !.result = Returned(buf)]
    BY <1>1, <1>3 DEF Return
  <2>4. PlainKey' = input.halves /\ WrappedKey' = buf
    BY <2>1, <2>3 DEF PlainKey, WrappedKey, KWInv, KWTypeOK, Returned
  <2>5. input.halves \in Seq(Half) /\ Len(input.halves) = n
    BY <1>1, <2>1, InputsAssumption DEF KWInv, KWTypeOK, FirstLoop
  <2>6. <<0, 1>> \in DOMAIN trace /\ trace[<<0, 1>>] = <<IV>> \o input.halves
    BY <1>1, <2>1 DEF FirstLoop
  <2>7. Returned(buf) \in [ok : BOOLEAN, halves : Seq(Half)] /\ Returned(buf).ok
    BY <1>2 DEF Returned
  <2> QED
    BY <1>1, <1>2, <1>3, <2>2, <2>4, <2>5, <2>6, <2>7, FirstReturnKeeps
<1>4. CASE ~FirstRun
  <2>1. WholeTrace /\ first.fn = "unwrap"
    BY <1>1, <1>4 DEF KWInv, KWTypeOK, SecondInv, Other, Operations
  <2>2. buf = first.input.halves
    BY <1>2, <2>1 DEF WholeTrace, WrappedKey
  <2> QED
    BY <1>1, <1>2, <1>4, <2>2, SecondReturnKeeps
<1> QED
  BY <1>3, <1>4

LEMMA UnwrapReturnKeeps ==
  ASSUME KWInv, UnwrapReturn
  PROVE  KWInv'
<1> DEFINE r == IF IntegrityCheck(buf) THEN Returned(Tail(buf)) ELSE Refused
<1>1. /\ pc = "loop" /\ fn = "unwrap" /\ j = -1 /\ Return(r)
      /\ AtLoop /\ n \in 2 .. MaxHalves /\ n \in Nat
  BY InLoop DEF UnwrapReturn, AtLoop
<1>2. /\ i = n /\ buf \in Buffers(n)
      /\ <<0, 1>> \in DOMAIN trace /\ trace[<<0, 1>>] = buf
  BY <1>1 DEF AtLoop, Here, After
<1>3. CASE FirstRun /\ ~IntegrityCheck(buf)
  BY <1>1, <1>3, FirstRefusedKeeps
<1>4. CASE FirstRun /\ IntegrityCheck(buf)
  <2>1. FirstLoop /\ first.fn = "unwrap" /\ first.input = input
    BY <1>1, <1>4, InLoop DEF KWInv, FirstInv
  <2>2. \A a \in 0 .. 5, b \in 1 .. n : Linked(a, b)
    BY <1>1, <2>1 DEF FirstLoop, Links, Passed
  <2>3. Tail(buf) \in Seq(Half) /\ Len(Tail(buf)) = n /\ buf = <<IV>> \o Tail(buf)
    BY <1>1, <1>2, <1>4, Unprefixed DEF IntegrityCheck
  <2>4. first' = [first EXCEPT !.result = Returned(Tail(buf))]
    BY <1>1, <1>4 DEF Return
  <2>5. PlainKey' = Tail(buf) /\ WrappedKey' = input.halves
    BY <2>1, <2>4 DEF PlainKey, WrappedKey, KWInv, KWTypeOK, Returned
  <2>6. input.halves \in Buffers(n)
    <3>1. input.halves \in Seq(Half) /\ n = Len(input.halves) - 1
      BY <1>1, <2>1, InputsAssumption DEF KWInv, KWTypeOK, FirstLoop
    <3> QED
      BY <1>1, <3>1, LenProperties DEF Buffers
  <2>7. <<6, 1>> \in DOMAIN trace /\ trace[<<6, 1>>] = input.halves
    BY <1>1, <2>1 DEF FirstLoop
  <2>8. Returned(Tail(buf)) \in [ok : BOOLEAN, halves : Seq(Half)] /\ Returned(Tail(buf)).ok
    BY <2>3 DEF Returned
  <2>9. Return(Returned(Tail(buf)))
    BY <1>1, <1>4
  <2> QED
    BY <1>1, <1>2, <1>4, <2>2, <2>3, <2>5, <2>6, <2>7, <2>8, <2>9, FirstReturnKeeps
<1>5. CASE ~FirstRun
  <2>1. WholeTrace /\ first.fn = "wrap"
    BY <1>1, <1>5 DEF KWInv, KWTypeOK, SecondInv, Other, Operations
  <2>2. first.input.halves \in Seq(Half) /\ buf = <<IV>> \o first.input.halves
    BY <1>2, <2>1 DEF WholeTrace, PlainKey
  <2>3. r = Returned(first.input.halves)
    BY <2>2, Prefixed DEF IntegrityCheck
  <2> QED
    BY <1>1, <1>5, <2>2, <2>3, SecondReturnKeeps
<1> QED
  BY <1>3, <1>4, <1>5

\* A stuttering step.
LEMMA StutterKeeps ==
  ASSUME KWInv, UNCHANGED kwVars
  PROVE  KWInv'
<1> USE DEF kwVars
<1>1. /\ FirstRun' = FirstRun /\ PlainKey' = PlainKey /\ WrappedKey' = WrappedKey
      /\ Buffers(n)' = Buffers(n)
  BY DEF FirstRun, PlainKey, WrappedKey, Buffers
<1>2. KWTypeOK'
  BY <1>1 DEF KWInv, KWTypeOK
<1>3. \A a \in 0 .. 5, b \in 1 .. n : Linked(a, b)' = Linked(a, b) /\ Passed(a, b)' = Passed(a, b)
  BY <1>1 DEF Linked, Passed, After, WrapBody, t
<1>4. Links' = Links
  BY <1>3 DEF Links
<1>5. AtLoop' = AtLoop
  BY <1>1 DEF AtLoop, Here, After
<1>6. FirstLoop' = FirstLoop /\ WholeTrace' = WholeTrace
  BY <1>1, <1>4, <1>5 DEF FirstLoop, WholeTrace
<1>7. FirstInv' /\ SecondInv'
  BY <1>1, <1>5, <1>6 DEF KWInv, FirstInv, SecondInv
<1> QED
  BY <1>2, <1>7 DEF KWInv

-----------------------------------------------------------------------------

\* The invariant of both calls of aesKeyWrap and aesKeyUnwrap.
THEOREM KWInvariant == KWSpec => []KWInv
<1>1. KWInv /\ [KWNext]_kwVars => KWInv'
  BY RefuseKeeps, AgainKeeps, StartWrapKeeps, WrapStepKeeps, WrapReturnKeeps, StartUnwrapKeeps,
     UnwrapStepKeeps, UnwrapReturnKeeps, StutterKeeps
     DEF KWNext
<1> QED
  BY InitKWInv, <1>1, PTL DEF KWSpec

\* aesKeyUnwrap undoes aesKeyWrap, whatever the cipher and the length of the key.
THEOREM UnwrapInvertsWrapHolds == KWSpec => []UnwrapInvertsWrap
<1>1. KWInv => UnwrapInvertsWrap
  BY DEF KWInv, SecondInv, UnwrapInvertsWrap, Ended
<1> QED
  BY KWInvariant, <1>1, PTL

\* aesKeyUnwrap accepts only what aesKeyWrap makes of the key that it returns.
THEOREM AcceptsOnlyWrapsHolds == KWSpec => []AcceptsOnlyWraps
<1>1. KWInv => AcceptsOnlyWraps
  BY DEF KWInv, SecondInv, AcceptsOnlyWraps, Ended
<1> QED
  BY KWInvariant, <1>1, PTL

(***************************************************************************)
(* aesKeyWrap is the key wrap of RFC 3394.  The RFC shifts the registers,  *)
(* the code leaves them in place and moves its index: after k steps of the *)
(* inner loop the buffer is the registers of the RFC, rotated back by k.   *)
(***************************************************************************)

\* The registers of the RFC, step by step.
Step(S, key, k) == IF k = 0 THEN <<IV>> \o key ELSE Shift(S[k - 1], k)

\* One more step can always be made.
LEMMA RegistersExtend ==
  ASSUME NEW key, NEW m \in Nat \ {0}, NEW f, f = [k \in 0 .. m - 1 |-> Step(f, key, k)]
  PROVE  \E g : g = [k \in 0 .. m |-> Step(g, key, k)]
<1> DEFINE last == Shift(f[m - 1], m)
           g == [k \in 0 .. m |-> IF k = m THEN last ELSE f[k]]
<1>1. g = [k \in 0 .. m |-> IF k = m THEN last ELSE f[k]]
  OBVIOUS
<1> HIDE DEF g
<1>2. \A k \in 0 .. m - 1 : g[k] = f[k]
  BY <1>1
<1>3. ASSUME NEW k \in 0 .. m
      PROVE  g[k] = Step(g, key, k)
  <2>1. CASE k = 0
    <3>1. 0 \in 0 .. m - 1 /\ f[0] = Step(f, key, 0)
      OBVIOUS
    <3> QED BY <1>2, <2>1, <3>1 DEF Step
  <2>2. CASE k = m
    <3>1. m - 1 \in 0 .. m - 1 /\ g[m] = last /\ m # 0
      BY <1>1
    <3> QED BY <1>2, <2>2, <3>1 DEF Step
  <2>3. CASE k # 0 /\ k # m
    <3>1. k \in 0 .. m - 1 /\ k - 1 \in 0 .. m - 1
      BY <2>3
    <3>2. f[k] = Step(f, key, k)
      BY <3>1
    <3> QED BY <1>2, <2>3, <3>1, <3>2 DEF Step
  <2> QED BY <2>1, <2>2, <2>3
<1>4. g = [k \in 0 .. m |-> Step(g, key, k)]
  BY <1>1, <1>3
<1> QED BY <1>4

\* The recursion defines the registers: a least number of steps for which it did not would
\* be neither 0 nor one more than another.
LEMMA RegistersExist ==
  ASSUME NEW key, NEW m \in Nat
  PROVE  \E S : S = [k \in 0 .. m |-> Step(S, key, k)]
<1> DEFINE Defined(l) == \E S : S = [k \in 0 .. l |-> Step(S, key, k)]
           Bad == {l \in Nat : ~Defined(l)}
           R == OpToRel(<, Nat)
<1>1. Defined(0)
  <2> DEFINE S == [k \in 0 .. 0 |-> <<IV>> \o key]
  <2>1. S = [k \in 0 .. 0 |-> <<IV>> \o key]
    OBVIOUS
  <2> HIDE DEF S
  <2>2. \A k \in 0 .. 0 : <<IV>> \o key = Step(S, key, k)
    BY DEF Step
  <2>3. S = [k \in 0 .. 0 |-> Step(S, key, k)]
    BY <2>1, <2>2
  <2> QED BY <2>3
<1>2. ASSUME NEW l \in Nat \ {0}, Defined(l - 1)
      PROVE  Defined(l)
  <2>1. PICK f : f = [k \in 0 .. l - 1 |-> Step(f, key, k)]
    BY <1>2
  <2> QED BY <2>1, RegistersExtend
<1> HIDE DEF Defined
<1> SUFFICES ASSUME Bad # {} PROVE FALSE
  BY DEF Defined
<1>3. IsWellFoundedOn(R, Nat)
  BY NatLessThanWellFounded
<1>4. \A x, y \in Nat : y < x => <<y, x>> \in R
  BY DEF OpToRel
<1> HIDE DEF R
<1>5. PICK x \in Bad : \A y \in Bad : ~(<<y, x>> \in R)
  BY <1>3, WFMin
<1>6. x \in Nat \ {0} /\ ~Defined(x)
  BY <1>1, <1>5
<1>7. x - 1 \notin Bad
  <2>1. x - 1 \in Nat /\ x \in Nat /\ x - 1 < x
    BY <1>6
  <2>2. <<x - 1, x>> \in R
    BY <1>4, <2>1
  <2> HIDE DEF Bad
  <2> QED BY <1>5, <2>2
<1>8. Defined(x - 1)
  BY <1>6, <1>7
<1> QED BY <1>2, <1>6, <1>8

\* What Registers computes.
LEMMA RegistersStep ==
  ASSUME NEW key \in Seq(Half)
  PROVE  /\ Registers(key)[0] = <<IV>> \o key
         /\ \A k \in 1 .. 6 * Len(key) : Registers(key)[k] = Shift(Registers(key)[k - 1], k)
<1> DEFINE m == 6 * Len(key)
           S == Registers(key)
<1>1. m \in Nat
  BY LenProperties
<1>2. S = CHOOSE f : f = [k \in 0 .. m |-> IF k = 0 THEN <<IV>> \o key ELSE Shift(f[k - 1], k)]
  BY DEF Registers
<1>3. \E f : f = [k \in 0 .. m |-> IF k = 0 THEN <<IV>> \o key ELSE Shift(f[k - 1], k)]
  BY <1>1, RegistersExist DEF Step
<1> HIDE DEF m, S
<1>4. S = [k \in 0 .. m |-> IF k = 0 THEN <<IV>> \o key ELSE Shift(S[k - 1], k)]
  BY <1>2, <1>3
<1>5. S[0] = <<IV>> \o key /\ \A k \in 1 .. m : S[k] = Shift(S[k - 1], k)
  <2> DEFINE T == [k \in 0 .. m |-> IF k = 0 THEN <<IV>> \o key ELSE Shift(S[k - 1], k)]
  <2>1. \A k \in 0 .. m : T[k] = IF k = 0 THEN <<IV>> \o key ELSE Shift(S[k - 1], k)
    OBVIOUS
  <2>2. S = T
    BY <1>4
  <2> HIDE DEF T
  <2>3. \A k \in 1 .. m : k \in 0 .. m /\ k # 0
    BY <1>1
  <2>4. 0 \in 0 .. m
    BY <1>1
  <2> QED BY <2>1, <2>2, <2>3, <2>4
<1> QED BY <1>5 DEF m, S

\* The place of register k of the RFC in the buffer when the index has moved by b.
Turn(m, k, b) == IF k = 1 THEN 1 ELSE IF k + b <= m + 1 THEN k + b ELSE k + b - m
Rotated(m, s, b) == [k \in 1 .. m + 1 |-> s[Turn(m, k, b)]]

\* After a whole round every register is back in its place.
LEMMA WholeTurn ==
  ASSUME NEW m \in Nat, NEW s \in Buffers(m)
  PROVE  Rotated(m, s, 0) = s /\ Rotated(m, s, m) = s
<1>1. s = [k \in 1 .. m + 1 |-> s[k]]
  BY LenProperties DEF Buffers
<1>2. \A k \in 1 .. m + 1 : Turn(m, k, 0) = k /\ Turn(m, k, m) = k
  BY DEF Turn
<1> QED BY <1>1, <1>2 DEF Rotated

\* One step of the RFC on the rotated buffer is one step of the code.
LEMMA ShiftTurns ==
  ASSUME NEW m \in Nat, m >= 2, NEW s \in Buffers(m), NEW b \in 1 .. m, NEW c \in 1 .. 6 * MaxHalves,
         NEW e, e = BlockEncrypt(s[1], s[b + 1]),
         NEW r, r = Put(s, b, XorCounter(e[1], c), e[2])
  PROVE  Shift(Rotated(m, s, b - 1), c) = Rotated(m, r, b)
<1> DEFINE q == Rotated(m, s, b - 1)
           x == XorCounter(e[1], c)
           y == e[2]
           middle == SubSeq(q, 3, Len(q))
           z == (<<x>> \o middle) \o <<y>>
<1>1. s \in Seq(Half) /\ Len(s) = m + 1 /\ \A k \in 1 .. m + 1 : s[k] \in Half
  BY ElementOfSeq DEF Buffers
<1>2. s[1] \in Half /\ s[b + 1] \in Half
  BY <1>1
<1>3. x \in Half /\ y \in Half
  <2>1. e \in Half \X Half
    BY <1>2, CipherAssumption
  <2> QED BY <2>1, XorAssumption
<1>4. /\ r[1] = x /\ r[b + 1] = y
      /\ \A k \in 1 .. m + 1 : k # 1 /\ k # b + 1 => r[k] = s[k]
  <2> HIDE DEF x, y
  <2>1. r = Put(s, b, x, y)
    BY DEF x, y
  <2> QED BY <1>3, <2>1, PutElements
<1>5. \A k \in 1 .. m + 1 : Turn(m, k, b - 1) \in 1 .. m + 1
  BY DEF Turn
<1>6. q \in Seq(Half) /\ Len(q) = m + 1 /\ \A k \in 1 .. m + 1 : q[k] = s[Turn(m, k, b - 1)]
  <2>1. \A k \in 1 .. m + 1 : s[Turn(m, k, b - 1)] \in Half
    BY <1>1, <1>5
  <2>2. q = [k \in 1 .. m + 1 |-> s[Turn(m, k, b - 1)]]
    BY DEF Rotated
  <2> HIDE DEF q
  <2> QED BY <2>1, <2>2
<1>7. Turn(m, 1, b - 1) = 1 /\ Turn(m, 2, b - 1) = b + 1
  BY DEF Turn
<1>8. q[1] = s[1] /\ q[2] = s[b + 1]
  BY <1>6, <1>7
<1>9. Shift(q, c) = z
  BY <1>8 DEF Shift
<1> HIDE DEF q, x, y
<1>10. /\ middle \in Seq(Half) /\ Len(middle) = m - 1
       /\ \A k \in 1 .. m - 1 : middle[k] = q[k + 2]
  BY <1>6
<1> HIDE DEF middle
<1>11. <<x>> \in Seq(Half) /\ <<y>> \in Seq(Half) /\ Len(<<x>>) = 1 /\ Len(<<y>>) = 1
       /\ <<x>>[1] = x /\ <<y>>[1] = y
  BY <1>3
<1>12. /\ z \in Seq(Half) /\ Len(z) = m + 1
       /\ z[1] = x /\ z[m + 1] = y
       /\ \A k \in 2 .. m : z[k] = q[k + 1]
  <2> DEFINE w == <<x>> \o middle
  <2>1. /\ w \in Seq(Half) /\ Len(w) = m /\ w[1] = x
        /\ \A k \in 2 .. m : w[k] = middle[k - 1]
    BY <1>10, <1>11
  <2>2. z = w \o <<y>>
    OBVIOUS
  <2> HIDE DEF w, z
  <2>3. /\ z \in Seq(Half) /\ Len(z) = m + 1 /\ z[m + 1] = y
        /\ \A k \in 1 .. m : z[k] = w[k]
    BY <1>11, <2>1, <2>2, ConcatProperties
  <2>4. \A k \in 2 .. m : z[k] = middle[k - 1]
    BY <2>1, <2>3
  <2>5. \A k \in 2 .. m : k - 1 \in 1 .. m - 1 /\ middle[k - 1] = q[k + 1]
    <3>1. ASSUME NEW k \in 2 .. m PROVE k - 1 \in 1 .. m - 1 /\ (k - 1) + 2 = k + 1
      OBVIOUS
    <3> QED BY <1>10, <3>1
  <2> QED BY <2>1, <2>3, <2>4, <2>5
<1> HIDE DEF z
<1>13. ASSUME NEW k \in 1 .. m + 1
       PROVE  z[k] = r[Turn(m, k, b)]
  <2>1. CASE k = 1
    BY <1>4, <1>12, <2>1 DEF Turn
  <2>2. CASE k = m + 1
    <3>1. Turn(m, k, b) = b + 1
      BY <2>2 DEF Turn
    <3> QED BY <1>4, <1>12, <2>2, <3>1
  <2>3. CASE k \in 2 .. m
    <3>1. /\ Turn(m, k + 1, b - 1) = Turn(m, k, b)
          /\ Turn(m, k, b) \in 1 .. m + 1 /\ Turn(m, k, b) # 1 /\ Turn(m, k, b) # b + 1
      BY <2>3 DEF Turn
    <3>2. k + 1 \in 1 .. m + 1
      BY <2>3
    <3>3. z[k] = s[Turn(m, k, b)]
      BY <1>6, <1>12, <2>3, <3>1, <3>2
    <3> QED BY <1>4, <3>1, <3>3
  <2> QED BY <2>1, <2>2, <2>3
<1>14. z = [k \in 1 .. m + 1 |-> z[k]]
  BY <1>12, LenProperties
<1>15. z = Rotated(m, r, b)
  BY <1>13, <1>14 DEF Rotated
<1> QED BY <1>9, <1>15 DEF q

\* The invariant: where the first call stands in the steps of the RFC.
InStep ==
  FirstRun /\ fn = "wrap" /\ pc = "loop" =>
    Registers(input.halves)[n * j + i - 1] = Rotated(n, buf, i - 1)
RFCInv == InStep /\ MatchesRFC3394

\* The buffer is the first registers.
LEMMA StartWrapInStep ==
  ASSUME KWInv, StartWrap
  PROVE  RFCInv'
<1>1. input.halves \in Seq(Half) /\ Len(input.halves) \in Nat
  BY InputType DEF StartWrap
<1>2. n' = Len(input.halves) /\ j' = 0 /\ i' = 1 /\ buf' = <<IV>> \o input.halves
      /\ pc' = "loop" /\ input' = input
  BY DEF StartWrap
<1>3. buf' \in Buffers(n')
  BY <1>1, Prefixed DEF StartWrap
<1>4. Rotated(n', buf', 0) = buf'
  BY <1>1, <1>2, <1>3, WholeTurn
<1>5. Registers(input.halves)[0] = buf'
  BY <1>1, <1>2, RegistersStep
<1>6. n' * j' + i' - 1 = 0 /\ i' - 1 = 0
  BY <1>1, <1>2
<1> QED BY <1>2, <1>4, <1>5, <1>6 DEF RFCInv, InStep, MatchesRFC3394

\* A step of the loop is the next step of the RFC.
LEMMA WrapStepInStep ==
  ASSUME KWInv, RFCInv, WrapStep
  PROVE  RFCInv'
<1>1. /\ AtLoop /\ n \in 2 .. MaxHalves /\ n \in Nat /\ n >= 2 /\ n' = n
      /\ pc = "loop" /\ fn = "wrap" /\ pc' = "loop" /\ input' = input /\ first' = first
      /\ FirstRun' = FirstRun
  BY InLoop DEF WrapStep, FirstRun
<1>2. j \in 0 .. 5 /\ i \in 1 .. n /\ buf \in Buffers(n)
  BY <1>1 DEF AtLoop, WrapStep
<1> SUFFICES ASSUME FirstRun
             PROVE  Registers(input.halves)[n * j' + i' - 1] = Rotated(n, buf', i' - 1)
  BY <1>1 DEF RFCInv, InStep, MatchesRFC3394
<1>3. n = Len(input.halves) /\ input.halves \in Seq(Half)
  <2>1. FirstLoop /\ input \in Inputs
    BY <1>1, InLoop DEF KWInv, KWTypeOK, FirstInv
  <2> QED BY <1>1, <2>1, InputsAssumption DEF FirstLoop
<1> DEFINE step == t(j, i)
           S == Registers(input.halves)
<1>4. step \in 1 .. 6 * MaxHalves /\ step \in 1 .. 6 * n /\ step = n * j + i
  <2>1. n * j >= 0 /\ n * j <= 5 * n /\ n * j \in Int
    <3>1. j = 0 \/ j = 1 \/ j = 2 \/ j = 3 \/ j = 4 \/ j = 5
      BY <1>2
    <3> QED BY <1>1, <3>1
  <2> QED BY <1>1, <1>2, <2>1, CounterRange DEF t
<1>5. S[step] = Shift(S[step - 1], step)
  BY <1>3, <1>4, RegistersStep
<1>6. S[step - 1] = Rotated(n, buf, i - 1)
  <2> HIDE DEF step
  <2>1. step - 1 = n * j + i - 1
    BY <1>1, <1>2, <1>4
  <2>2. Registers(input.halves)[n * j + i - 1] = Rotated(n, buf, i - 1)
    BY <1>1 DEF RFCInv, InStep
  <2> QED BY <2>1, <2>2
<1>7. PICK e : e = BlockEncrypt(buf[1], buf[i + 1])
  OBVIOUS
<1>8. buf' = Put(buf, i, XorCounter(e[1], step), e[2])
  BY <1>7 DEF WrapStep, WrapBody, Put
<1> HIDE DEF step, S
<1>9. Shift(Rotated(n, buf, i - 1), step) = Rotated(n, buf', i)
  BY <1>1, <1>2, <1>4, <1>7, <1>8, ShiftTurns
<1>10. S[step] = Rotated(n, buf', i)
  BY <1>5, <1>6, <1>9
<1>11. CASE i = n
  <2>1. j' = j + 1 /\ i' = 1
    BY <1>11 DEF WrapStep, After
  <2>2. n * j' + i' - 1 = step
    <3>1. j = 0 \/ j = 1 \/ j = 2 \/ j = 3 \/ j = 4 \/ j = 5
      BY <1>2
    <3> QED BY <1>1, <1>4, <1>11, <2>1, <3>1
  <2>3. buf' \in Buffers(n)
    BY <1>1, <1>2, BodiesInverse DEF WrapStep, Buffers
  <2>4. Rotated(n, buf', n) = Rotated(n, buf', 0)
    BY <1>1, <2>3, WholeTurn
  <2> QED BY <1>10, <1>11, <2>1, <2>2, <2>4 DEF S
<1>12. CASE i # n
  <2>1. j' = j /\ i' = i + 1
    BY <1>12 DEF WrapStep, After
  <2>2. n * j' + i' - 1 = step /\ i' - 1 = i
    BY <1>1, <1>2, <1>4, <2>1
  <2> QED BY <1>10, <2>2 DEF S
<1> QED BY <1>11, <1>12

\* What is returned after the last step.
LEMMA WrapReturnInStep ==
  ASSUME KWInv, RFCInv, WrapReturn
  PROVE  RFCInv'
<1>1. /\ pc = "loop" /\ fn = "wrap" /\ j = 6 /\ Return(Returned(buf))
      /\ AtLoop /\ n \in 2 .. MaxHalves /\ n \in Nat
  BY InLoop DEF WrapReturn
<1>2. i = 1 /\ buf \in Buffers(n)
  BY <1>1 DEF AtLoop
<1>3. result' = Returned(buf) /\ input' = input /\ pc' # "loop" /\ (pc' = "again" => FirstRun)
  BY <1>1 DEF Return
<1>4. ASSUME FirstRun
      PROVE  buf = RFC3394Wrap(input.halves)
  <2>1. FirstLoop
    BY <1>1, <1>4, InLoop
  <2>2. n = Len(input.halves)
    BY <1>1, <2>1 DEF FirstLoop
  <2>3. n * j + i - 1 = 6 * Len(input.halves) /\ i - 1 = 0
    BY <1>1, <1>2, <2>2
  <2>4. Registers(input.halves)[6 * Len(input.halves)] = Rotated(n, buf, 0)
    BY <1>1, <1>4, <2>3 DEF RFCInv, InStep
  <2> QED BY <1>1, <1>2, <2>4, WholeTurn DEF RFC3394Wrap
<1> QED BY <1>3, <1>4 DEF RFCInv, InStep, MatchesRFC3394

\* aesKeyWrap, for every block cipher and every length of the key, computes the wrap that
\* RFC 3394 describes.
THEOREM MatchesRFC3394Holds == KWSpec => []MatchesRFC3394
<1>1. KWInit => RFCInv
  BY DEF KWInit, RFCInv, InStep, MatchesRFC3394
<1>2. ASSUME KWInv, RFCInv, [KWNext]_kwVars
      PROVE  RFCInv'
  <2>1. CASE Refuse \/ Again \/ StartUnwrap \/ UnwrapStep \/ UnwrapReturn
    BY <2>1 DEF Refuse, Again, StartUnwrap, UnwrapStep, UnwrapReturn, Return, RFCInv, InStep,
                MatchesRFC3394
  <2>2. CASE UNCHANGED kwVars
    BY <1>2, <2>2 DEF kwVars, RFCInv, InStep, MatchesRFC3394, FirstRun
  <2> QED BY <1>2, <2>1, <2>2, StartWrapInStep, WrapStepInStep, WrapReturnInStep DEF KWNext
<1>3. RFCInv => MatchesRFC3394
  BY DEF RFCInv
<1> QED BY KWInvariant, <1>1, <1>2, <1>3, PTL DEF KWSpec

=============================================================================
