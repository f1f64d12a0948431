-------------------------- MODULE BerReferenceProofs --------------------------
(***************************************************************************)
(* The grammar of module BerReference defines its sets, writes bytes, and  *)
(* writes DER: what it writes, it reads back as it is.                     *)
(***************************************************************************)
EXTENDS BerReference, SequenceTheorems, WellFoundedInduction, TLAPS

\* A set of numbers that is not empty has a least element.
LEMMA LeastNumber ==
  ASSUME NEW S \in SUBSET Nat, S # {}
  PROVE  \E k \in S : \A l \in S : k <= l
<1> DEFINE R == OpToRel(<, Nat)
<1>1. IsWellFoundedOn(R, Nat)
  BY NatLessThanWellFounded
<1>2. \A x, y \in Nat : y < x => <<y, x>> \in R
  BY DEF OpToRel
<1> HIDE DEF R
<1>3. PICK x \in S : \A y \in S : ~(<<y, x>> \in R)
  BY <1>1, WFMin
<1>4. \A y \in S : x <= y
  <2> SUFFICES ASSUME NEW y \in S, y < x PROVE FALSE
    OBVIOUS
  <2>1. <<y, x>> \in R
    BY <1>2
  <2> QED BY <1>3, <2>1
<1> QED BY <1>4

(***************************************************************************)
(* Cutting strings.                                                        *)
(***************************************************************************)

\* A part of a string of bytes.
LEMMA SubString ==
  ASSUME NEW s \in Seq(Byte), NEW i \in Nat \ {0}, NEW j \in Nat, i <= j + 1, j <= Len(s)
  PROVE  /\ SubSeq(s, i, j) \in Seq(Byte) /\ Len(SubSeq(s, i, j)) = j + 1 - i
         /\ \A k \in 1 .. j + 1 - i : SubSeq(s, i, j)[k] = s[i + k - 1]
<1>1. \A k \in i .. j : s[k] \in Byte
  BY ElementOfSeq
<1>2. /\ SubSeq(s, i, j) \in Seq(Byte)
      /\ Len(SubSeq(s, i, j)) = IF i <= j THEN j - i + 1 ELSE 0
      /\ \A k \in 1 .. j - i + 1 : SubSeq(s, i, j)[k] = s[i + k - 1]
  BY <1>1, SubSeqProperties
<1> QED BY <1>2

\* The rest of a byte string from a position on.
LEMMA FromString ==
  ASSUME NEW s \in Seq(Byte), NEW i \in Nat \ {0}, i <= Len(s) + 1
  PROVE  /\ From(s, i) \in Seq(Byte) /\ Len(From(s, i)) = Len(s) + 1 - i
         /\ \A k \in 1 .. Len(s) + 1 - i : From(s, i)[k] = s[i + k - 1]
BY SubString, LenProperties DEF From

\* A part of a string, by its bytes.
LEMMA SubStringIs ==
  ASSUME NEW s \in Seq(Byte), NEW i \in Nat \ {0}, NEW j \in Nat, i <= j + 1, j <= Len(s),
         NEW t \in Seq(Byte), Len(t) = j + 1 - i,
         \A k \in 1 .. Len(t) : t[k] = s[i + k - 1]
  PROVE  SubSeq(s, i, j) = t
<1> DEFINE u == SubSeq(s, i, j)
<1>1. u \in Seq(Byte) /\ Len(u) = Len(t) /\ \A k \in 1 .. Len(u) : u[k] = t[k]
  BY SubString
<1> HIDE DEF u
<1>2. u = t
  BY <1>1, SeqEqual
<1> QED BY <1>2 DEF u

\* A string put together can be taken apart.
LEMMA Concatenated ==
  ASSUME NEW a \in Seq(Byte), NEW b \in Seq(Byte)
  PROVE  /\ a \o b \in Seq(Byte) /\ Len(a \o b) = Len(a) + Len(b)
         /\ SubSeq(a \o b, 1, Len(a)) = a /\ From(a \o b, Len(a) + 1) = b
         /\ a # <<>> => (a \o b)[1] = a[1]
<1> DEFINE s == a \o b
<1>1. /\ s \in Seq(Byte) /\ Len(s) = Len(a) + Len(b)
      /\ \A i \in 1 .. Len(a) : s[i] = a[i]
      /\ \A i \in 1 .. Len(b) : s[Len(a) + i] = b[i]
  BY ConcatProperties
<1> HIDE DEF s
<1>2. Len(a) \in Nat /\ Len(b) \in Nat
  BY LenProperties
<1>3. SubSeq(s, 1, Len(a)) = a
  <2>1. \A k \in 1 .. Len(a) : a[k] = s[1 + k - 1]
    BY <1>1, <1>2
  <2>2. 1 \in Nat \ {0} /\ 1 <= Len(a) + 1 /\ Len(a) <= Len(s) /\ Len(a) = Len(a) + 1 - 1
    BY <1>1, <1>2
  <2> QED BY <1>1, <1>2, <2>1, <2>2, SubStringIs
<1>4. From(s, Len(a) + 1) = b
  <2>1. \A k \in 1 .. Len(b) : b[k] = s[Len(a) + 1 + k - 1]
    <3>1. \A k \in 1 .. Len(b) : Len(a) + 1 + k - 1 = Len(a) + k
      BY <1>2
    <3> QED BY <1>1, <3>1
  <2>2. /\ Len(a) + 1 \in Nat \ {0} /\ Len(s) \in Nat /\ Len(a) + 1 <= Len(s) + 1
        /\ Len(s) <= Len(s) /\ Len(b) = Len(s) + 1 - (Len(a) + 1)
    BY <1>1, <1>2
  <2>3. SubSeq(s, Len(a) + 1, Len(s)) = b
    BY <1>1, <2>1, <2>2, SubStringIs
  <2> QED BY <2>3 DEF From
<1>5. a # <<>> => s[1] = a[1]
  BY <1>1, <1>2, EmptySeq
<1> QED BY <1>1, <1>3, <1>4, <1>5 DEF s

\* A part is what it is made of ...
LEMMA PartOfType ==
  ASSUME NEW s \in Seq(Byte), NEW l \in Nat, NEW i \in BOOLEAN
  PROVE  /\ PartOf(s, l, i) \in Part /\ PartOf(s, l, i).text = s
         /\ PartOf(s, l, i).levels = l /\ PartOf(s, l, i).indefinite = i
BY DEF PartOf, Part

\* ... and made of what it is.
LEMMA PartFields ==
  ASSUME NEW part \in Part
  PROVE  /\ part.text \in Seq(Byte) /\ part.levels \in Nat /\ part.indefinite \in BOOLEAN
         /\ part = PartOf(part.text, part.levels, part.indefinite)
BY DEF PartOf, Part

\* What the cuts leave is shorter.
LEMMA DefiniteShorter ==
  ASSUME NEW s \in Seq(Byte), NEW cut \in DefiniteCuts(s)
  PROVE  /\ cut[1] \in 1 .. Len(s) /\ cut[2] \in 1 .. 5 /\ cut[1] + cut[2] <= Len(s)
         /\ From(s, cut[1] + cut[2] + 1) \in Seq(Byte)
         /\ Len(From(s, cut[1] + cut[2] + 1)) = Len(s) - cut[1] - cut[2]
<1>1. cut[1] \in 1 .. Len(s) /\ cut[2] \in 1 .. 5 /\ cut[1] + cut[2] <= Len(s) /\ Len(s) \in Nat
  BY LenProperties DEF DefiniteCuts
<1>2. cut[1] + cut[2] + 1 \in Nat \ {0} /\ cut[1] + cut[2] + 1 <= Len(s) + 1
  BY <1>1
<1>3. Len(s) + 1 - (cut[1] + cut[2] + 1) = Len(s) - cut[1] - cut[2]
  BY <1>1
<1> QED BY <1>1, <1>2, <1>3, FromString

\* An indefinite content is shorter than its object by at least three bytes.
LEMMA IndefiniteShorter ==
  ASSUME NEW s \in Seq(Byte), NEW t \in IndefiniteCuts(s)
  PROVE  /\ t \in 1 .. Len(s) - 3
         /\ SubSeq(s, t + 2, Len(s) - 2) \in Seq(Byte)
         /\ Len(SubSeq(s, t + 2, Len(s) - 2)) = Len(s) - t - 3
<1>1. t \in 1 .. Len(s) - 3 /\ Len(s) \in Nat
  BY DEF IndefiniteCuts
<1>2. t + 2 \in Nat \ {0} /\ Len(s) - 2 \in Nat /\ t + 2 <= Len(s) - 2 + 1 /\ Len(s) - 2 <= Len(s)
  BY <1>1
<1>3. Len(s) - 2 + 1 - (t + 2) = Len(s) - t - 3
  BY <1>1
<1> QED BY <1>1, <1>2, <1>3, SubString

(***************************************************************************)
(* The recursion of Contents goes to shorter strings.                      *)
(***************************************************************************)

Agree(f, g, n) == \A part \in Part : Len(part.text) < n => f[part] = g[part]

\* The encodings of s depend on the contents of shorter strings only ...
LEMMA DersInLocal ==
  ASSUME NEW s \in Seq(Byte), NEW l \in Nat, NEW f, NEW g, Agree(f, g, Len(s))
  PROVE  DersIn(f, s, l) = DersIn(g, s, l)
<1>1. ASSUME l # 0, NEW cut \in DefiniteCuts(s)
      PROVE  DefiniteDers(f, s, l, cut) = DefiniteDers(g, s, l, cut)
  <2> DEFINE c == From(s, cut[1] + cut[2] + 1)
  <2>1. c \in Seq(Byte) /\ Len(c) < Len(s) /\ l - 1 \in Nat
    BY <1>1, DefiniteShorter, LenProperties, SMTT(20)
  <2> HIDE DEF c
  <2>2. PartOf(c, l - 1, FALSE) \in Part /\ PartOf(c, l - 1, FALSE).text = c
    BY <2>1, PartOfType
  <2>3. f[PartOf(c, l - 1, FALSE)] = g[PartOf(c, l - 1, FALSE)]
    BY <2>1, <2>2 DEF Agree
  <2> QED BY <2>3, Zenon DEF c, DefiniteDers
<1>2. ASSUME l # 0, NEW t \in IndefiniteCuts(s)
      PROVE  IndefiniteDers(f, s, l, t) = IndefiniteDers(g, s, l, t)
  <2> DEFINE c == SubSeq(s, t + 2, Len(s) - 2)
  <2>1. c \in Seq(Byte) /\ Len(c) < Len(s) /\ l - 1 \in Nat
    BY <1>2, IndefiniteShorter, LenProperties
  <2> HIDE DEF c
  <2>2. PartOf(c, l - 1, TRUE) \in Part /\ PartOf(c, l - 1, TRUE).text = c
    BY <2>1, PartOfType
  <2>3. f[PartOf(c, l - 1, TRUE)] = g[PartOf(c, l - 1, TRUE)]
    BY <2>1, <2>2 DEF Agree
  <2> QED BY <2>3, Zenon DEF c, IndefiniteDers
<1>3. CASE l = 0
  BY <1>3 DEF DersIn
<1>4. CASE l # 0
  BY <1>1, <1>2, <1>4, Zenon DEF DersIn
<1> QED BY <1>3, <1>4

\* ... and so do the contents of a part.
LEMMA ContentsInLocal ==
  ASSUME NEW part \in Part, NEW f, NEW g, Agree(f, g, Len(part.text))
  PROVE  ContentsIn(f, part) = ContentsIn(g, part)
<1> DEFINE s == part.text
<1>1. s \in Seq(Byte) /\ part.levels \in Nat /\ part.indefinite \in BOOLEAN
  BY PartFields
<1> HIDE DEF s
<1>2. ASSUME NEW k \in 1 .. Len(s)
      PROVE  FirstAndRest(f, part, k) = FirstAndRest(g, part, k)
  <2> DEFINE c == From(s, k + 1)
             p == PartOf(c, part.levels, part.indefinite)
  <2>1. k \in Nat /\ k + 1 \in Nat \ {0} /\ Len(s) \in Nat /\ k + 1 <= Len(s) + 1
    BY <1>1, LenProperties
  <2>2. c \in Seq(Byte) /\ Len(c) < Len(s)
    BY <1>1, <2>1, FromString
  <2> HIDE DEF c
  <2>3. p \in Part /\ p.text = c
    BY <1>1, <2>2, PartOfType
  <2>4. f[p] = g[p]
    BY <2>2, <2>3 DEF Agree, s
  <2>5. SubSeq(s, 1, k) \in Seq(Byte) /\ Len(SubSeq(s, 1, k)) <= Len(s)
    BY <1>1, <2>1, SubString
  <2>6. Agree(f, g, Len(SubSeq(s, 1, k)))
    BY <2>1, <2>5, LenProperties, PartFields DEF Agree, s
  <2>7. DersIn(f, SubSeq(s, 1, k), part.levels) = DersIn(g, SubSeq(s, 1, k), part.levels)
    BY <1>1, <2>5, <2>6, DersInLocal
  <2> QED BY <2>4, <2>7, ZenonT(30) DEF c, s, FirstAndRest
<1> QED BY <1>2, Zenon DEF ContentsIn, s

\* Functions that satisfy the recursion for strings of up to n bytes.
Parts(n) == {part \in Part : Len(part.text) <= n}
Solves(f, n) == f = [part \in Parts(n) |-> ContentsIn(f, part)]

\* Two solutions agree wherever both are solutions.
LEMMA SolutionsAgree ==
  ASSUME NEW n \in Nat, NEW m \in Nat, NEW f, NEW g, Solves(f, n), Solves(g, m),
         NEW part \in Part, Len(part.text) <= n, Len(part.text) <= m
  PROVE  f[part] = g[part]
<1> DEFINE Bad == {k \in Nat : \E p \in Part : Len(p.text) = k /\ k <= n /\ k <= m /\ f[p] # g[p]}
<1>1. ASSUME NEW p \in Part
      PROVE  /\ Len(p.text) \in Nat
             /\ Len(p.text) <= n => f[p] = ContentsIn(f, p)
             /\ Len(p.text) <= m => g[p] = ContentsIn(g, p)
  <2>1. Len(p.text) \in Nat
    BY PartFields, LenProperties
  <2>2. Len(p.text) <= n => p \in Parts(n)
    BY DEF Parts
  <2>3. Len(p.text) <= m => p \in Parts(m)
    BY DEF Parts
  <2>4. p \in Parts(n) => f[p] = ContentsIn(f, p)
    BY Zenon DEF Solves
  <2>5. p \in Parts(m) => g[p] = ContentsIn(g, p)
    BY Zenon DEF Solves
  <2> QED BY <2>1, <2>2, <2>3, <2>4, <2>5
<1>2. CASE Bad # {}
  <2>1. PICK k \in Bad : \A l \in Bad : k <= l
    BY <1>2, LeastNumber
  <2>2. PICK p \in Part : Len(p.text) = k /\ k <= n /\ k <= m /\ f[p] # g[p]
    BY <2>1
  <2>3. ASSUME NEW q \in Part, Len(q.text) < k
        PROVE  f[q] = g[q]
    <3>1. Len(q.text) \in Nat /\ Len(q.text) <= n /\ Len(q.text) <= m /\ k \in Nat
      BY <1>1, <2>1, <2>2, <2>3
    <3>2. Len(q.text) \notin Bad
      BY <2>1, <2>3, <3>1
    <3> QED BY <3>1, <3>2
  <2>4. Agree(f, g, Len(p.text))
    BY <2>2, <2>3 DEF Agree
  <2>5. ContentsIn(f, p) = ContentsIn(g, p)
    BY <2>4, ContentsInLocal
  <2> QED BY <1>1, <2>2, <2>5
<1>3. CASE Bad = {}
  BY <1>1, <1>3
<1> QED BY <1>2, <1>3

\* A solution up to n - 1 gives one up to n ...
LEMMA SolutionExtends ==
  ASSUME NEW n \in Nat, NEW f, \A p \in Part : Len(p.text) < n => f[p] = ContentsIn(f, p)
  PROVE  \E g : Solves(g, n)
<1> DEFINE g == [p \in Parts(n) |-> ContentsIn(f, p)]
<1>1. ASSUME NEW p \in Part, Len(p.text) < n
      PROVE  f[p] = g[p]
  <2>1. p \in Parts(n)
    BY <1>1, PartFields, LenProperties DEF Parts
  <2> QED BY <1>1, <2>1
<1>2. \A p \in Parts(n) : g[p] = ContentsIn(f, p)
  OBVIOUS
<1>3. g = [p \in Parts(n) |-> ContentsIn(f, p)]
  OBVIOUS
<1> HIDE DEF g
<1>4. ASSUME NEW p \in Parts(n)
      PROVE  ContentsIn(f, p) = ContentsIn(g, p)
  <2>1. p \in Part /\ Len(p.text) <= n /\ Len(p.text) \in Nat
    BY PartFields, LenProperties DEF Parts
  <2>2. Agree(f, g, Len(p.text))
    BY <1>1, <2>1, PartFields, LenProperties DEF Agree
  <2> QED BY <2>1, <2>2, ContentsInLocal
<1>5. g = [p \in Parts(n) |-> ContentsIn(g, p)]
  BY <1>3, <1>4, Zenon
<1> QED BY <1>5 DEF Solves

\* ... so that there is one up to every n.
LEMMA SolutionExists ==
  ASSUME NEW n \in Nat
  PROVE  \E f : Solves(f, n)
<1> DEFINE Bad == {k \in Nat : ~\E f : Solves(f, k)}
<1>1. CASE Bad # {}
  <2>1. PICK k \in Bad : \A l \in Bad : k <= l
    BY <1>1, LeastNumber
  <2>2. CASE k = 0
    <3>1. \A p \in Part : ~(Len(p.text) < 0)
      BY PartFields, LenProperties
    <3>2. \E g : Solves(g, 0)
      BY <3>1, SolutionExtends
    <3> QED BY <2>1, <2>2, <3>2
  <2>3. CASE k # 0
    <3>1. k - 1 \in Nat /\ k - 1 \notin Bad /\ k \in Nat
      BY <2>1, <2>3
    <3>2. PICK f : Solves(f, k - 1)
      BY <3>1
    <3>3. ASSUME NEW p \in Part, Len(p.text) < k
          PROVE  f[p] = ContentsIn(f, p)
      <4>1. Len(p.text) <= k - 1
        BY <3>1, <3>3, PartFields, LenProperties
      <4>2. p \in Parts(k - 1)
        BY <4>1 DEF Parts
      <4> QED BY <3>2, <4>2, Zenon DEF Solves
    <3>4. \E g : Solves(g, k)
      BY <3>1, <3>3, SolutionExtends
    <3> QED BY <2>1, <3>4
  <2> QED BY <2>2, <2>3
<1>2. CASE Bad = {}
  BY <1>2
<1> QED BY <1>1, <1>2

\* Contents satisfies the equation it is defined by.
LEMMA ContentsDefined == \A part \in Part : Contents[part] = ContentsIn(Contents, part)
<1> DEFINE best(n) == CHOOSE f : Solves(f, n)
           g == [p \in Part |-> best(Len(p.text))[p]]
<1>1. \A n \in Nat : Solves(best(n), n)
  BY SolutionExists
<1>2. \A p \in Part : g[p] = best(Len(p.text))[p]
  OBVIOUS
<1>3. g = [p \in Part |-> best(Len(p.text))[p]]
  OBVIOUS
<1> HIDE DEF g, best
<1>4. ASSUME NEW p \in Part
      PROVE  best(Len(p.text))[p] = ContentsIn(g, p)
  <2> DEFINE n == Len(p.text)
             f == best(n)
  <2>1. n \in Nat
    BY PartFields, LenProperties
  <2>2. Solves(f, n) /\ p \in Parts(n)
    BY <1>1, <2>1 DEF Parts
  <2>3. f[p] = ContentsIn(f, p)
    BY <2>2, Zenon DEF Solves
  <2>4. ASSUME NEW q \in Part, Len(q.text) < n
        PROVE  f[q] = g[q]
    <3>1. Len(q.text) \in Nat /\ Len(q.text) <= n /\ Len(q.text) <= Len(q.text)
      BY <2>1, <2>4, PartFields, LenProperties
    <3>2. Solves(best(Len(q.text)), Len(q.text))
      BY <1>1, <3>1
    <3>3. f[q] = best(Len(q.text))[q]
      BY <2>1, <2>2, <3>1, <3>2, SolutionsAgree
    <3> QED BY <1>2, <3>3
  <2>5. Agree(f, g, n)
    BY <2>4 DEF Agree
  <2>6. ContentsIn(f, p) = ContentsIn(g, p)
    BY <2>5, ContentsInLocal
  <2> QED BY <2>3, <2>6
<1>5. g = [p \in Part |-> ContentsIn(g, p)]
  BY <1>3, <1>4, Zenon
<1>6. Contents = CHOOSE h : h = [p \in Part |-> ContentsIn(h, p)]
  BY DEF Contents
<1>7. Contents = [p \in Part |-> ContentsIn(Contents, p)]
  BY <1>5, <1>6, Zenon
<1> QED BY <1>7, Zenon

(***************************************************************************)
(* What is in the sets of the grammar.                                     *)
(***************************************************************************)

\* An empty content has one encoding, the empty one.
LEMMA ContentsEmpty ==
  ASSUME NEW l \in Nat, NEW i \in BOOLEAN
  PROVE  Contents[PartOf(<<>>, l, i)] = {<<>>}
<1> DEFINE p == PartOf(<<>>, l, i)
<1>1. p \in Part /\ p.text = <<>>
  <2>1. <<>> \in Seq(Byte)
    OBVIOUS
  <2> QED BY <2>1, PartOfType
<1>2. Contents[p] = ContentsIn(Contents, p)
  BY <1>1, ContentsDefined
<1> HIDE DEF p
<1>3. ContentsIn(Contents, p) = {<<>>}
  BY <1>1, Zenon DEF ContentsIn
<1> QED BY <1>2, <1>3 DEF p

\* y is the DER of a first object and then of the rest.
FirstThenRest(y, s, l, i) ==
  /\ i => ~IsMarked(s)
  /\ \E k \in 1 .. Len(s) : \E a \in DersOf(SubSeq(s, 1, k), l) :
       \E b \in Contents[PartOf(From(s, k + 1), l, i)] : y = a \o b

\* Any other content is an object and then a content.
LEMMA ContentsCons ==
  ASSUME NEW s \in Seq(Byte), s # <<>>, NEW l \in Nat, NEW i \in BOOLEAN, NEW y
  PROVE  y \in Contents[PartOf(s, l, i)] <=> FirstThenRest(y, s, l, i)
<1> DEFINE p == PartOf(s, l, i)
<1>1. p \in Part /\ p.text = s /\ p.levels = l /\ p.indefinite = i
  BY PartOfType
<1>2. Contents[p] = ContentsIn(Contents, p)
  BY <1>1, ContentsDefined
<1> HIDE DEF p
<1>3. ASSUME NEW k
      PROVE  y \in FirstAndRest(Contents, p, k) <=>
               \E a \in DersOf(SubSeq(s, 1, k), l) :
                 \E b \in Contents[PartOf(From(s, k + 1), l, i)] : y = a \o b
  <2> DEFINE A == DersIn(Contents, SubSeq(p.text, 1, k), p.levels)
             B == Contents[PartOf(From(p.text, k + 1), p.levels, p.indefinite)]
             C(a) == {a \o b : b \in B}
             D == {C(a) : a \in A}
  <2>1. FirstAndRest(Contents, p, k) = UNION D
    BY DEF FirstAndRest
  <2>2. A = DersOf(SubSeq(s, 1, k), l) /\ B = Contents[PartOf(From(s, k + 1), l, i)]
    BY <1>1, Zenon DEF DersOf
  <2> HIDE DEF A, B
  <2>3. \A a : y \in C(a) <=> \E b \in B : y = a \o b
    BY Zenon
  <2> HIDE DEF C
  <2>4. y \in UNION D <=> \E a \in A : y \in C(a)
    BY Zenon
  <2> HIDE DEF D
  <2>5. y \in FirstAndRest(Contents, p, k) <=> \E a \in A : \E b \in B : y = a \o b
    BY <2>1, <2>3, <2>4, Zenon
  <2> QED BY <2>2, <2>5, Zenon
<1>4. CASE i /\ IsMarked(s)
  BY <1>1, <1>2, <1>4, Zenon DEF ContentsIn, p, FirstThenRest
<1>5. CASE ~(i /\ IsMarked(s))
  <2>1. Contents[p] = UNION {FirstAndRest(Contents, p, k) : k \in 1 .. Len(s)}
    BY <1>1, <1>2, <1>5, Zenon DEF ContentsIn
  <2>2. y \in Contents[p] <=> \E k \in 1 .. Len(s) : y \in FirstAndRest(Contents, p, k)
    BY <2>1, Zenon
  <2> QED BY <1>3, <1>5, <2>2, Zenon DEF p, FirstThenRest
<1> QED BY <1>4, <1>5

\* The two ways to be an object.
LEMMA DersOfCases ==
  ASSUME NEW s, NEW l, NEW y
  PROVE  y \in DersOf(s, l) <=>
           /\ l # 0
           /\ \/ \E cut \in DefiniteCuts(s) : y \in DefiniteDers(Contents, s, l, cut)
              \/ \E t \in IndefiniteCuts(s) : y \in IndefiniteDers(Contents, s, l, t)
<1> DEFINE A == {DefiniteDers(Contents, s, l, cut) : cut \in DefiniteCuts(s)}
           B == {IndefiniteDers(Contents, s, l, t) : t \in IndefiniteCuts(s)}
<1>1. DersOf(s, l) = IF l = 0 THEN {} ELSE (UNION A) \cup (UNION B)
  BY Zenon DEF DersOf, DersIn
<1>2. y \in UNION A <=> \E cut \in DefiniteCuts(s) : y \in DefiniteDers(Contents, s, l, cut)
  BY Zenon
<1>3. y \in UNION B <=> \E t \in IndefiniteCuts(s) : y \in IndefiniteDers(Contents, s, l, t)
  BY Zenon
<1> HIDE DEF A, B
<1>4. CASE l = 0
  BY <1>1, <1>4
<1>5. CASE l # 0
  <2>1. y \in DersOf(s, l) <=> y \in UNION A \/ y \in UNION B
    <3>1. DersOf(s, l) = (UNION A) \cup (UNION B)
      BY <1>1, <1>5, Zenon
    <3>2. y \in (UNION A) \cup (UNION B) <=> y \in UNION A \/ y \in UNION B
      OBVIOUS
    <3> QED BY <3>1, <3>2, Zenon
  <2> QED BY <1>2, <1>3, <1>5, <2>1, Zenon
<1> QED BY <1>4, <1>5

(***************************************************************************)
(* Lengths.                                                                *)
(***************************************************************************)

\* The entries of the tables.
LEMMA PlaceValues ==
  /\ Place[1] = 1 /\ Place[2] = 256 /\ Place[3] = 65536 /\ Place[4] = 16777216
BY SMT DEF Place

LEMMA LargestValues ==
  /\ Largest[1] = 255 /\ Largest[2] = 65535 /\ Largest[3] = 16777215
  /\ Largest[4] = 2147483647
BY SMT DEF Largest

\* A number is written as the bytes asked for.
LEMMA BigEndianType ==
  ASSUME NEW n \in Nat, NEW k \in 1 .. 4
  PROVE  /\ BigEndian(n, k) \in Seq(Byte) /\ Len(BigEndian(n, k)) = k
         /\ \A i \in 1 .. k : BigEndian(n, k)[i] = (n \div Place[k + 1 - i]) % 256
<1>1. ASSUME NEW i \in 1 .. k
      PROVE  (n \div Place[k + 1 - i]) % 256 \in Byte
  <2> DEFINE j == k + 1 - i
  <2>1. j \in 1 .. 4
    BY SMT
  <2>2. Place[j] \in Nat \ {0}
    BY <2>1, PlaceValues, SMT
  <2>3. n \div Place[j] \in Int
    BY <2>2, SMT
  <2> HIDE DEF j
  <2>4. (n \div Place[j]) % 256 \in Byte
    BY <2>3, SMT DEF Byte
  <2> QED BY <2>4 DEF j
<1>2. k \in Nat
  BY SMT
<1>3. BigEndian(n, k) = [i \in 1 .. k |-> (n \div Place[k + 1 - i]) % 256]
  BY DEF BigEndian
<1>4. BigEndian(n, k) \in Seq(Byte)
  BY <1>1, <1>2, <1>3, IsASeq
<1>5. DOMAIN BigEndian(n, k) = 1 .. k
  BY <1>3
<1>6. Len(BigEndian(n, k)) = k
  BY <1>2, <1>4, <1>5, LenProperties
<1> QED BY <1>3, <1>4, <1>6

\* The number of bytes of a DER length in long form.
DerBytes(n) == CHOOSE k \in 1 .. 4 : /\ k < 4 => n <= Largest[k]
                                     /\ k > 1 => n > Largest[k - 1]

\* The short and the long form of a length.
LEMMA DerLengthCases ==
  ASSUME NEW n \in Nat
  PROVE  /\ n < 128 => DerLength(n) = <<n>>
         /\ ~(n < 128) => DerLength(n) = <<128 + DerBytes(n)>> \o BigEndian(n, DerBytes(n))
BY Zenon DEF DerLength, DerBytes

\* The long form has as few bytes as hold the number.
LEMMA DerBytesRange ==
  ASSUME NEW n \in Nat
  PROVE  /\ DerBytes(n) \in 1 .. 4
         /\ DerBytes(n) < 4 => n <= Largest[DerBytes(n)]
         /\ DerBytes(n) > 1 => n > Largest[DerBytes(n) - 1]
<1> DEFINE P(k) == (k < 4 => n <= Largest[k]) /\ (k > 1 => n > Largest[k - 1])
<1>1. n <= 255 => P(1)
  BY LargestValues, SMT
<1>2. n > 255 /\ n <= 65535 => P(2)
  BY LargestValues, SMT
<1>3. n > 65535 /\ n <= 16777215 => P(3)
  BY LargestValues, SMT
<1>4. n > 16777215 => P(4)
  BY LargestValues, SMT
<1>5. 1 \in 1 .. 4 /\ 2 \in 1 .. 4 /\ 3 \in 1 .. 4 /\ 4 \in 1 .. 4
  BY SMT
<1> HIDE DEF P
<1>6. \E k \in 1 .. 4 : P(k)
  BY <1>1, <1>2, <1>3, <1>4, <1>5, SMT
<1>7. DerBytes(n) = CHOOSE k \in 1 .. 4 : P(k)
  BY Zenon DEF DerBytes, P
<1>8. DerBytes(n) \in 1 .. 4 /\ P(DerBytes(n))
  BY <1>6, <1>7, Zenon
<1> QED BY <1>8, Zenon DEF P

\* The first byte of a DER length in long form is not zero.
LEMMA DerBytesLeading ==
  ASSUME NEW n \in Nat, n >= 128, n <= Largest[4]
  PROVE  /\ n <= Largest[DerBytes(n)]
         /\ (n \div Place[DerBytes(n)]) % 256 # 0
<1> DEFINE k == DerBytes(n)
<1>1. k \in 1 .. 4 /\ (k < 4 => n <= Largest[k]) /\ (k > 1 => n > Largest[k - 1])
  BY DerBytesRange
<1> HIDE DEF k
<1>2. k = 1 => /\ n >= 128 /\ n <= 255 /\ Largest[k] = 255 /\ Place[k] = 1
  BY <1>1, PlaceValues, LargestValues, SMT
<1>3. k = 2 => /\ n > 255 /\ n <= 65535 /\ Largest[k] = 65535 /\ Place[k] = 256
  BY <1>1, PlaceValues, LargestValues, SMT
<1>4. k = 3 => /\ n > 65535 /\ n <= 16777215 /\ Largest[k] = 16777215 /\ Place[k] = 65536
  BY <1>1, PlaceValues, LargestValues, SMT
<1>5. k = 4 => /\ n > 16777215 /\ n <= 2147483647 /\ Largest[k] = 2147483647
               /\ Place[k] = 16777216
  BY <1>1, PlaceValues, LargestValues, SMT
<1>6. n >= 128 /\ n <= 255 => (n \div 1) % 256 # 0
  BY SMT
<1>7. n > 255 /\ n <= 65535 => (n \div 256) % 256 # 0
  BY SMT
<1>8. n > 65535 /\ n <= 16777215 => (n \div 65536) % 256 # 0
  BY SMT
<1>9. n > 16777215 /\ n <= 2147483647 => (n \div 16777216) % 256 # 0
  BY SMT
<1>10. k = 1 \/ k = 2 \/ k = 3 \/ k = 4
  BY <1>1, SMT
<1>11. n <= Largest[k] /\ (n \div Place[k]) % 256 # 0
  <2>1. CASE k = 1
    BY <1>2, <1>6, <2>1, SMT
  <2>2. CASE k = 2
    BY <1>3, <1>7, <2>2, SMT
  <2>3. CASE k = 3
    BY <1>4, <1>8, <2>3, SMT
  <2>4. CASE k = 4
    BY <1>5, <1>9, <2>4, SMT
  <2> QED BY <1>10, <2>1, <2>2, <2>3, <2>4
<1> QED BY <1>11, SMT DEF k

\* A DER length is a length the grammar accepts.
LEMMA DerLengthIsLength ==
  ASSUME NEW n \in Nat
  PROVE  /\ DerLength(n) \in Seq(Byte) /\ Len(DerLength(n)) \in 1 .. 5
         /\ n <= Largest[4] => IsLength(DerLength(n), n)
<1>1. CASE n < 128
  <2>1. DerLength(n) = <<n>> /\ n \in Byte
    BY <1>1, SMT DEF DerLength, Byte
  <2>2. <<n>> \in Seq(Byte) /\ Len(<<n>>) = 1
    BY <2>1
  <2> QED BY <1>1, <2>1, <2>2, SMT DEF IsLength
<1>2. CASE ~(n < 128)
  <2> DEFINE k == DerBytes(n)
             f == <<128 + k>> \o BigEndian(n, k)
  <2>1. DerLength(n) = f
    BY <1>2, DerLengthCases
  <2>2. k \in 1 .. 4
    BY DerBytesRange
  <2>3. n <= Largest[4] => n <= Largest[k] /\ (n \div Place[k]) % 256 # 0
    BY <1>2, DerBytesLeading, SMT
  <2> HIDE DEF k
  <2>4. /\ BigEndian(n, k) \in Seq(Byte) /\ Len(BigEndian(n, k)) = k
        /\ BigEndian(n, k)[1] = (n \div Place[k]) % 256
    <3>1. 1 \in 1 .. k /\ k + 1 - 1 = k
      BY <2>2, SMT
    <3>2. /\ BigEndian(n, k) \in Seq(Byte) /\ Len(BigEndian(n, k)) = k
          /\ \A i \in 1 .. k : BigEndian(n, k)[i] = (n \div Place[k + 1 - i]) % 256
      BY <2>2, BigEndianType, ZenonT(40)
    <3>3. BigEndian(n, k)[1] = (n \div Place[k + 1 - 1]) % 256
      BY <3>1, <3>2, Zenon
    <3>4. k + 1 - 1 = k
      BY <3>1
    <3> QED BY <3>2, <3>3, <3>4, Zenon
  <2>5. <<128 + k>> \in Seq(Byte) /\ Len(<<128 + k>>) = 1
    BY <2>2, SMT DEF Byte
  <2>6. f \in Seq(Byte) /\ Len(f) = 1 + k /\ f[2] = BigEndian(n, k)[1]
    BY <2>2, <2>4, <2>5, ConcatProperties, SMT
  <2>7. n <= Largest[4] => n <= Largest[k] /\ f[2] # 0
    BY <2>3, <2>4, <2>6, Zenon
  <2> HIDE DEF f
  <2>8. f = <<128 + k>> \o BigEndian(n, k)
    BY DEF f
  <2>9. n <= Largest[4] => IsLength(f, n)
    <3> SUFFICES ASSUME n <= Largest[4]
                 PROVE  IsLength(f, n)
      OBVIOUS
    <3>1. n <= Largest[k] /\ f = <<128 + k>> \o BigEndian(n, k) /\ (f[2] = 0 => k > 1 /\ f[3] >= 128)
      BY <2>7, <2>8, Zenon
    <3> QED BY <2>2, <3>1, Zenon DEF IsLength
  <2>10. Len(f) \in 1 .. 5
    BY <2>2, <2>6, SMT
  <2> QED BY <2>1, <2>6, <2>9, <2>10
<1> QED BY <1>1, <1>2

(***************************************************************************)
(* The digits of a number in base 256.                                     *)
(***************************************************************************)

Join(r, m) == r + 256 * m
High(n) == n \div 256
Low(n) == n % 256

\* A byte put below a number is found there again.
LEMMA Joined ==
  ASSUME NEW m \in Nat, NEW r \in Byte
  PROVE  Join(r, m) \in Nat /\ High(Join(r, m)) = m /\ Low(Join(r, m)) = r
<1>0. r \in 0 .. 255
  BY DEF Byte
<1>1. (r + 256 * m) \div 256 = m
  BY <1>0, SMT
<1>2. (r + 256 * m) % 256 = r
  BY <1>0, SMT
<1>3. r + 256 * m \in Nat
  BY <1>0, SMT
<1> QED BY <1>1, <1>2, <1>3, Zenon DEF Join, High, Low

\* Digit i of n in base 256, counted from the last one.
Digit(n, i) == (n \div Place[i + 1]) % 256

\* A digit in base 256 is what is left after dropping the lower ones.
LEMMA DigitIs ==
  ASSUME NEW n \in Nat
  PROVE  /\ Digit(n, 0) = Low(n) /\ Digit(n, 1) = Low(High(n))
         /\ Digit(n, 2) = Low(High(High(n))) /\ Digit(n, 3) = Low(High(High(High(n))))
<1>1. (n \div 256) \div 256 = n \div 65536
  BY SMT
<1>2. (n \div 65536) \div 256 = n \div 16777216
  BY SMT
<1>3. n \div 1 = n
  BY SMT
<1>4. Digit(n, 0) = (n \div 1) % 256 /\ Digit(n, 1) = (n \div 256) % 256
  BY PlaceValues, SMT DEF Digit
<1>5. Digit(n, 2) = (n \div 65536) % 256 /\ Digit(n, 3) = (n \div 16777216) % 256
  BY PlaceValues, SMT DEF Digit
<1>6. Digit(n, 0) = Low(n) /\ Digit(n, 1) = Low(High(n))
  BY ONLY <1>3, <1>4, SMT DEF Low, High
<1>7. Digit(n, 2) = Low(High(High(n))) /\ Digit(n, 3) = Low(High(High(High(n))))
  BY ONLY <1>1, <1>2, <1>5, SMT DEF Low, High
<1> QED BY <1>6, <1>7, Zenon

\* Bytes put together are the number they write in base 256 ...
LEMMA JoinIsSum ==
  ASSUME NEW a \in Byte, NEW b \in Byte, NEW c \in Byte, NEW d \in Byte
  PROVE  Join(a, Join(b, Join(c, d))) = a + 256 * b + 65536 * c + 16777216 * d
<1>1. a \in 0 .. 255 /\ b \in 0 .. 255 /\ c \in 0 .. 255 /\ d \in 0 .. 255
  BY DEF Byte
<1> QED BY <1>1, SMT DEF Join

\* ... whose digits they are.
LEMMA JoinDigits ==
  ASSUME NEW a \in Byte, NEW b \in Byte, NEW c \in Byte, NEW d \in Byte,
         NEW n, n = Join(a, Join(b, Join(c, d)))
  PROVE  n \in Nat /\ Digit(n, 0) = a /\ Digit(n, 1) = b /\ Digit(n, 2) = c /\ Digit(n, 3) = d
<1> DEFINE m2 == Join(c, d)
           m1 == Join(b, m2)
<1>1. n = Join(a, m1)
  OBVIOUS
<1>2. d \in Nat /\ Low(d) = d
  <2>1. d \in 0 .. 255
    BY DEF Byte
  <2> QED BY <2>1, SMT DEF Low
<1>3. m2 \in Nat /\ High(m2) = d /\ Low(m2) = c
  BY <1>2, Joined, Zenon
<1> HIDE DEF m2
<1>4. m1 \in Nat /\ High(m1) = m2 /\ Low(m1) = b
  BY <1>3, Joined, Zenon
<1> HIDE DEF m1
<1>5. n \in Nat /\ High(n) = m1 /\ Low(n) = a
  BY <1>1, <1>4, Joined, Zenon
<1>6. /\ Digit(n, 0) = Low(n) /\ Digit(n, 1) = Low(High(n))
      /\ Digit(n, 2) = Low(High(High(n))) /\ Digit(n, 3) = Low(High(High(High(n))))
  BY <1>5, DigitIs, Zenon
<1> QED BY <1>2, <1>3, <1>4, <1>5, <1>6, Zenon

\* The bounds of a number by its digits.
LEMMA JoinBounds ==
  ASSUME NEW a \in Byte, NEW b \in Byte, NEW c \in Byte, NEW d \in Byte,
         NEW n, n = Join(a, Join(b, Join(c, d)))
  PROVE  /\ d <= 127 => n <= Largest[4]
         /\ d = 0 => n <= Largest[3]
         /\ d = 0 /\ c = 0 => n <= Largest[2]
         /\ d = 0 /\ c = 0 /\ b = 0 => n <= Largest[1]
<1>1. a \in 0 .. 255 /\ b \in 0 .. 255 /\ c \in 0 .. 255 /\ d \in 0 .. 255
  BY DEF Byte
<1>2. n = a + 256 * b + 65536 * c + 16777216 * d
  BY JoinIsSum, SMT
<1>3. d <= 127 => n <= 2147483647
  BY ONLY <1>1, <1>2, SMT
<1>4. d = 0 => n <= 16777215
  BY ONLY <1>1, <1>2, SMT
<1>5. d = 0 /\ c = 0 => n <= 65535
  BY ONLY <1>1, <1>2, SMT
<1>6. d = 0 /\ c = 0 /\ b = 0 => n <= 255
  BY ONLY <1>1, <1>2, SMT
<1> QED BY ONLY <1>3, <1>4, <1>5, <1>6, LargestValues, SMT

\* A number is its lowest digit and the rest.
LEMMA Rejoined ==
  ASSUME NEW n \in Nat
  PROVE  n = Join(Low(n), High(n)) /\ Low(n) \in Byte /\ High(n) \in Nat
<1>1. n = (n % 256) + 256 * (n \div 256)
  BY SMT
<1>2. n % 256 \in 0 .. 255
  BY SMT
<1>3. n \div 256 \in Nat
  BY SMT
<1> QED BY <1>1, <1>2, <1>3, Zenon DEF Join, Low, High, Byte

\* A number is what its digits are.
LEMMA DigitsJoin ==
  ASSUME NEW n \in Nat, n <= Largest[4]
  PROVE  /\ n = Join(Digit(n, 0), Join(Digit(n, 1), Join(Digit(n, 2), Digit(n, 3))))
         /\ Digit(n, 0) \in Byte /\ Digit(n, 1) \in Byte /\ Digit(n, 2) \in Byte
         /\ Digit(n, 3) \in Byte /\ Digit(n, 3) <= 127
         /\ n <= Largest[3] => Digit(n, 3) = 0
         /\ n <= Largest[2] => Digit(n, 2) = 0 /\ Digit(n, 3) = 0
         /\ n <= Largest[1] => Digit(n, 1) = 0 /\ Digit(n, 2) = 0 /\ Digit(n, 3) = 0
<1> DEFINE h1 == High(n)
           h2 == High(h1)
           h3 == High(h2)
<1>1. n = Join(Low(n), h1) /\ Low(n) \in Byte /\ h1 \in Nat
  BY Rejoined
<1>2. h1 = Join(Low(h1), h2) /\ Low(h1) \in Byte /\ h2 \in Nat
  BY <1>1, Rejoined, Zenon
<1>3. h2 = Join(Low(h2), h3) /\ Low(h2) \in Byte /\ h3 \in Nat
  BY <1>2, Rejoined, Zenon
<1>4. /\ Digit(n, 0) = Low(n) /\ Digit(n, 1) = Low(h1)
      /\ Digit(n, 2) = Low(h2) /\ Digit(n, 3) = Low(h3)
  BY DigitIs, Zenon
<1>5. h1 = n \div 256
  BY DEF High
<1>6. h2 = (n \div 256) \div 256
  BY DEF High
<1>7. h3 = ((n \div 256) \div 256) \div 256
  BY DEF High
<1> HIDE DEF h1, h2, h3
<1>8. n <= 2147483647
  BY LargestValues, SMT
<1>9. n <= 255 => n \div 256 = 0
  BY ONLY n \in Nat, SMT
<1>10. n <= 65535 => (n \div 256) \div 256 = 0
  BY ONLY n \in Nat, SMT
<1>11. n <= 16777215 => ((n \div 256) \div 256) \div 256 = 0
  BY ONLY n \in Nat, SMT
<1>12. ((n \div 256) \div 256) \div 256 <= 127
  BY ONLY n \in Nat, <1>8, SMT
<1>13. Low(0) = 0 /\ High(0) = 0
  BY SMT DEF Low, High
<1>14. h3 <= 127 /\ Low(h3) = h3 /\ h3 \in Byte
  <2>1. h3 <= 127
    BY ONLY <1>7, <1>12, SMT
  <2>2. h3 \in 0 .. 127
    BY ONLY <1>3, <2>1, SMT
  <2>3. h3 % 256 = h3
    BY ONLY <2>2, SMT
  <2>4. h3 \in 0 .. 255
    BY ONLY <2>2, SMT
  <2> QED BY <2>1, <2>3, <2>4, Zenon DEF Low, Byte
<1>15. n <= Largest[1] => h1 = 0 /\ h2 = 0 /\ h3 = 0
  <2>1. h1 = 0 => h2 = 0 /\ h3 = 0
    BY ONLY <1>13, Zenon DEF h2, h3
  <2>2. n <= Largest[1] => h1 = 0
    BY ONLY <1>5, <1>9, LargestValues, SMT
  <2> QED BY <2>1, <2>2, Zenon
<1>16. n <= Largest[2] => h2 = 0 /\ h3 = 0
  <2>1. h2 = 0 => h3 = 0
    BY ONLY <1>13, Zenon DEF h3
  <2>2. n <= Largest[2] => h2 = 0
    BY ONLY <1>6, <1>10, LargestValues, SMT
  <2> QED BY <2>1, <2>2, Zenon
<1>17. n <= Largest[3] => h3 = 0
  BY ONLY <1>7, <1>11, LargestValues, SMT
<1> QED BY ONLY <1>1, <1>2, <1>3, <1>4, <1>13, <1>14, <1>15, <1>16, <1>17, Zenon

\* The bytes of BigEndian are the digits of the number.
LEMMA BigEndianDigits ==
  ASSUME NEW n \in Nat, NEW k \in 1 .. 4, NEW i \in 1 .. k
  PROVE  BigEndian(n, k)[i] = Digit(n, k - i)
<1>1. BigEndian(n, k)[i] = (n \div Place[k + 1 - i]) % 256
  BY BigEndianType, ZenonT(40)
<1>2. k - i + 1 = k + 1 - i
  BY SMT
<1> QED BY <1>1, <1>2, Zenon DEF Digit

(***************************************************************************)
(* DER is read as itself.                                                  *)
(***************************************************************************)

\* A DER length field is short when its number is.
LEMMA DerLengthShort ==
  ASSUME NEW n \in Nat, n <= 254
  PROVE  Len(DerLength(n)) <= 2
<1>1. CASE n < 128
  <2>1. DerLength(n) = <<n>>
    BY <1>1, SMT DEF DerLength
  <2> QED BY <2>1
<1>2. CASE ~(n < 128)
  <2>1. DerBytes(n) \in 1 .. 4 /\ (DerBytes(n) > 1 => n > Largest[DerBytes(n) - 1])
    BY DerBytesRange
  <2>2. Largest[DerBytes(n) - 1] >= 255 \/ DerBytes(n) = 1
    BY <2>1, LargestValues, SMT
  <2>3. DerBytes(n) = 1
    BY <2>1, <2>2, LargestValues, SMT
  <2>4. DerLength(n) = <<128 + 1>> \o BigEndian(n, 1)
    BY <1>2, <2>3, DerLengthCases
  <2>5. BigEndian(n, 1) \in Seq(Byte) /\ Len(BigEndian(n, 1)) = 1
    <3>1. 1 \in 1 .. 4
      BY SMT
    <3> QED BY <3>1, BigEndianType
  <2>6. <<128 + 1>> \in Seq(Byte) /\ Len(<<128 + 1>>) = 1
    BY SMT DEF Byte
  <2>7. Len(<<128 + 1>> \o BigEndian(n, 1)) = Len(<<128 + 1>>) + Len(BigEndian(n, 1))
    BY <2>5, <2>6, Concatenated
  <2> QED BY <2>4, <2>5, <2>6, <2>7
<1> QED BY <1>1, <1>2

\* What Encode writes, in its three parts.
LEMMA Encoded ==
  ASSUME NEW t \in Seq(Byte), t # <<>>, NEW x \in Seq(Byte)
  PROVE  LET y == Encode(t, x)
             k == Len(DerLength(Len(x)))
         IN  /\ y \in Seq(Byte) /\ k \in 1 .. 5 /\ Len(y) = Len(t) + k + Len(x)
             /\ SubSeq(y, 1, Len(t)) = t /\ y[1] = t[1]
             /\ SubSeq(y, Len(t) + 1, Len(t) + k) = DerLength(Len(x))
             /\ From(y, Len(t) + k + 1) = x
<1> DEFINE f == DerLength(Len(x))
           k == Len(f)
           y == Encode(t, x)
           h == t \o f
<1>1. Len(x) \in Nat /\ Len(t) \in Nat
  BY LenProperties
<1>2. f \in Seq(Byte) /\ k \in 1 .. 5
  BY <1>1, DerLengthIsLength
<1>3. y = h \o x
  BY DEF Encode
<1> HIDE DEF f, y
<1>4. /\ h \in Seq(Byte) /\ Len(h) = Len(t) + k
      /\ SubSeq(h, 1, Len(t)) = t /\ From(h, Len(t) + 1) = f /\ h[1] = t[1]
  BY <1>2, Concatenated
<1>5. h # <<>>
  BY <1>1, <1>2, <1>4, LenProperties, EmptySeq
<1> HIDE DEF h
<1>6. /\ y \in Seq(Byte) /\ Len(y) = Len(h) + Len(x)
      /\ SubSeq(y, 1, Len(h)) = h /\ From(y, Len(h) + 1) = x /\ y[1] = h[1]
  BY <1>3, <1>4, <1>5, Concatenated
<1>7. \A i \in 1 .. Len(h) : h[i] = y[i]
  <2>1. 1 \in Nat \ {0} /\ Len(h) \in Nat /\ 1 <= Len(h) + 1 /\ Len(h) <= Len(y)
    BY <1>1, <1>2, <1>4, <1>6
  <2>2. \A i \in 1 .. Len(h) + 1 - 1 : SubSeq(y, 1, Len(h))[i] = y[1 + i - 1]
    BY <1>6, <2>1, SubString
  <2>3. ASSUME NEW i \in 1 .. Len(h) PROVE h[i] = y[i]
    <3>1. i \in 1 .. Len(h) + 1 - 1 /\ 1 + i - 1 = i
      BY <2>1
    <3> QED BY <1>6, <2>2, <3>1
  <2> QED BY <2>3
<1>8. SubSeq(y, 1, Len(t)) = t
  <2>1. 1 \in Nat \ {0} /\ 1 <= Len(t) + 1 /\ Len(t) <= Len(h) /\ Len(t) <= Len(y)
        /\ Len(t) = Len(t) + 1 - 1
    BY <1>1, <1>2, <1>4, <1>6
  <2>2. \A i \in 1 .. Len(t) : t[i] = h[1 + i - 1]
    <3>1. \A i \in 1 .. Len(t) + 1 - 1 : SubSeq(h, 1, Len(t))[i] = h[1 + i - 1]
      BY <1>1, <1>4, <2>1, SubString
    <3>2. Len(t) + 1 - 1 = Len(t)
      BY <1>1
    <3> QED BY <1>4, <3>1, <3>2
  <2>3. \A i \in 1 .. Len(t) : t[i] = y[1 + i - 1]
    <3> SUFFICES ASSUME NEW i \in 1 .. Len(t) PROVE t[i] = y[1 + i - 1]
      OBVIOUS
    <3>1. 1 + i - 1 = i /\ i \in 1 .. Len(h)
      BY <1>1, <1>2, <1>4
    <3> QED BY <1>7, <2>2, <3>1
  <2> QED BY <1>1, <1>6, <2>1, <2>3, SubStringIs
<1>9. SubSeq(y, Len(t) + 1, Len(t) + k) = f
  <2>1. /\ Len(t) + 1 \in Nat \ {0} /\ Len(t) + k \in Nat /\ Len(t) + 1 <= Len(t) + k + 1
        /\ Len(t) + k <= Len(y) /\ Len(f) = Len(t) + k + 1 - (Len(t) + 1)
    BY <1>1, <1>2, <1>4, <1>6
  <2>2. \A i \in 1 .. Len(f) : f[i] = y[Len(t) + 1 + i - 1]
    <3>1. \A i \in 1 .. Len(h) + 1 - (Len(t) + 1) : From(h, Len(t) + 1)[i] = h[Len(t) + 1 + i - 1]
      <4>1. Len(t) + 1 \in Nat \ {0} /\ Len(t) + 1 <= Len(h) + 1
        BY <1>1, <1>2, <1>4
      <4> QED BY <1>4, <4>1, FromString
    <3> SUFFICES ASSUME NEW i \in 1 .. Len(f) PROVE f[i] = y[Len(t) + 1 + i - 1]
      OBVIOUS
    <3>2. i \in 1 .. Len(h) + 1 - (Len(t) + 1) /\ Len(t) + 1 + i - 1 \in 1 .. Len(h)
      BY <1>1, <1>2, <1>4
    <3> QED BY <1>4, <1>7, <3>1, <3>2
  <2> QED BY <1>2, <1>6, <2>1, <2>2, SubStringIs
<1>10. From(y, Len(t) + k + 1) = x /\ y[1] = t[1] /\ Len(y) = Len(t) + k + Len(x)
  BY <1>4, <1>6
<1>11. /\ y \in Seq(Byte) /\ k \in 1 .. 5 /\ Len(y) = Len(t) + k + Len(x)
       /\ SubSeq(y, 1, Len(t)) = t /\ y[1] = t[1]
       /\ SubSeq(y, Len(t) + 1, Len(t) + k) = f
       /\ From(y, Len(t) + k + 1) = x
  BY <1>2, <1>6, <1>8, <1>9, <1>10
<1> QED BY <1>11 DEF y, f

\* An object in DER form is an object, and its own DER.
LEMMA EncodeIsObject ==
  ASSUME NEW t \in Seq(Byte), t # <<>>, IsTag(t), NEW x \in Seq(Byte),
         Len(Encode(t, x)) <= Largest[4], NEW l \in Nat \ {0},
         IsConstructed(t) => x \in Contents[PartOf(x, l - 1, FALSE)]
  PROVE  Encode(t, x) \in DersOf(Encode(t, x), l)
<1> DEFINE y == Encode(t, x)
           k == Len(DerLength(Len(x)))
           cut == <<Len(t), k>>
<1>1. Len(x) \in Nat /\ Len(t) \in Nat \ {0}
  BY LenProperties, EmptySeq
<1>2. /\ y \in Seq(Byte) /\ k \in 1 .. 5 /\ Len(y) = Len(t) + k + Len(x)
      /\ SubSeq(y, 1, Len(t)) = t /\ y[1] = t[1]
      /\ SubSeq(y, Len(t) + 1, Len(t) + k) = DerLength(Len(x))
      /\ From(y, Len(t) + k + 1) = x
  BY Encoded
<1>3. y = Encode(t, x)
  OBVIOUS
<1> HIDE DEF y
<1>4. IsLength(DerLength(Len(x)), Len(x))
  <2>1. Largest[4] \in Nat
    BY LargestValues, SMT
  <2>2. Len(x) <= Largest[4]
    BY <1>1, <1>2, <1>3, <2>1, SMT
  <2> QED BY <1>1, <2>2, DerLengthIsLength
<1> HIDE DEF k
<1>5. Len(t) \in 1 .. Len(y) /\ Len(t) + k <= Len(y) /\ Len(y) - (Len(t) + k) = Len(x)
  BY <1>1, <1>2
<1>6. cut \in (1 .. Len(y)) \X (1 .. 5) /\ cut[1] = Len(t) /\ cut[2] = k
  BY <1>2, <1>5
<1> HIDE DEF cut
<1>7. cut \in DefiniteCuts(y)
  <2>1. IsLength(SubSeq(y, Len(t) + 1, Len(t) + k), Len(y) - (Len(t) + k))
    BY <1>2, <1>4, <1>5, Zenon
  <2>2. IsTag(SubSeq(y, 1, Len(t)))
    BY <1>2
  <2>3. LET start == cut[1] + cut[2]
        IN  /\ start <= Len(y)
            /\ IsTag(SubSeq(y, 1, cut[1]))
            /\ IsLength(SubSeq(y, cut[1] + 1, start), Len(y) - start)
    BY <1>5, <1>6, <2>1, <2>2, Zenon
  <2> QED BY <1>6, <2>3, Zenon DEF DefiniteCuts
<1>8. IsConstructed(y) <=> IsConstructed(t)
  BY <1>2, Zenon DEF IsConstructed
<1>9. x \in IF IsConstructed(y) THEN Contents[PartOf(x, l - 1, FALSE)] ELSE {x}
  BY <1>8
<1>10. y \in DefiniteDers(Contents, y, l, cut)
  <2> DEFINE c == From(y, cut[1] + cut[2] + 1)
             S == IF IsConstructed(y) THEN Contents[PartOf(c, l - 1, FALSE)] ELSE {c}
  <2>1. DefiniteDers(Contents, y, l, cut) = {Encode(SubSeq(y, 1, cut[1]), z) : z \in S}
    BY DEF DefiniteDers
  <2>2. c = x /\ SubSeq(y, 1, cut[1]) = t
    BY <1>2, <1>6, Zenon
  <2> HIDE DEF c
  <2>3. x \in S
    BY <1>9, <2>2, Zenon
  <2> HIDE DEF S
  <2>4. Encode(SubSeq(y, 1, cut[1]), x) = y
    BY <1>3, <2>2, Zenon
  <2> QED BY <2>1, <2>3, <2>4, Zenon
<1>11. y \in DersOf(y, l)
  BY <1>7, <1>10, DersOfCases, Zenon
<1> QED BY <1>11 DEF y

\* The parts of an object.
LEMMA ObjectParts ==
  ASSUME NEW s \in Seq(Byte), NEW l \in Nat, NEW y \in DersOf(s, l)
  PROVE  /\ l # 0
         /\ \E t \in 1 .. Len(s) : \E k \in 1 .. 5 : \E c \in Seq(Byte) : \E i \in BOOLEAN :
              \E x : 
                /\ IsTag(SubSeq(s, 1, t)) /\ y = Encode(SubSeq(s, 1, t), x)
                /\ Len(s) = t + k + Len(c) /\ (k = 1 => Len(c) < 128)
                /\ IF IsConstructed(s) THEN x \in Contents[PartOf(c, l - 1, i)] ELSE x = c
<1> DEFINE P(t, k, c, i, x) ==
             /\ IsTag(SubSeq(s, 1, t)) /\ y = Encode(SubSeq(s, 1, t), x)
             /\ Len(s) = t + k + Len(c) /\ (k = 1 => Len(c) < 128)
             /\ IF IsConstructed(s) THEN x \in Contents[PartOf(c, l - 1, i)] ELSE x = c
<1>1. /\ l # 0
      /\ \/ \E cut \in DefiniteCuts(s) : y \in DefiniteDers(Contents, s, l, cut)
         \/ \E t \in IndefiniteCuts(s) : y \in IndefiniteDers(Contents, s, l, t)
  BY DersOfCases, Zenon
<1>2. CASE \E cut \in DefiniteCuts(s) : y \in DefiniteDers(Contents, s, l, cut)
  <2>1. PICK cut \in DefiniteCuts(s) : y \in DefiniteDers(Contents, s, l, cut)
    BY <1>2
  <2> DEFINE t == cut[1]
             k == cut[2]
             c == From(s, t + k + 1)
             S == IF IsConstructed(s) THEN Contents[PartOf(c, l - 1, FALSE)] ELSE {c}
  <2>2. /\ t \in 1 .. Len(s) /\ k \in 1 .. 5 /\ t + k <= Len(s)
        /\ c \in Seq(Byte) /\ Len(c) = Len(s) - t - k
    BY DefiniteShorter
  <2>3. IsTag(SubSeq(s, 1, t)) /\ IsLength(SubSeq(s, t + 1, t + k), Len(s) - (t + k))
    BY DEF DefiniteCuts
  <2>4. DefiniteDers(Contents, s, l, cut) = {Encode(SubSeq(s, 1, t), z) : z \in S}
    BY DEF DefiniteDers
  <2> HIDE DEF S
  <2>5. PICK x \in S : y = Encode(SubSeq(s, 1, t), x)
    BY <2>1, <2>4, Zenon
  <2> HIDE DEF c, t, k
  <2>6. IF IsConstructed(s) THEN x \in Contents[PartOf(c, l - 1, FALSE)] ELSE x = c
    BY <2>5 DEF S
  <2>7. Len(s) \in Nat /\ Len(s) = t + k + Len(c)
    BY <2>2, LenProperties
  <2>8. k = 1 => Len(c) < 128
    <3> SUFFICES ASSUME k = 1 PROVE Len(c) < 128
      OBVIOUS
    <3> DEFINE f == SubSeq(s, t + 1, t + k)
               n == Len(s) - (t + k)
    <3>1. f \in Seq(Byte) /\ Len(f) = 1
      <4>1. /\ t + 1 \in Nat \ {0} /\ t + k \in Nat /\ t + 1 <= t + k + 1 /\ t + k <= Len(s)
            /\ t + k + 1 - (t + 1) = 1
        BY <2>2
      <4> QED BY <4>1, SubString
    <3>2. n = Len(c)
      BY <2>2, <2>7
    <3> HIDE DEF f, n
    <3>3. IsLength(f, n)
      BY <2>3 DEF f, n
    <3>4. ASSUME NEW j \in 1 .. 4, f = <<128 + j>> \o BigEndian(n, j) PROVE FALSE
      <4>1. n \in Nat
        BY <3>2, <2>2, LenProperties
      <4>2. BigEndian(n, j) \in Seq(Byte) /\ Len(BigEndian(n, j)) = j
        BY <4>1, BigEndianType
      <4>3. <<128 + j>> \in Seq(Byte) /\ Len(<<128 + j>>) = 1
        BY DEF Byte
      <4>4. Len(f) = 1 + j
        BY <3>4, <4>2, <4>3, Concatenated
      <4>5. 1 # 1 + j
        OBVIOUS
      <4> QED BY <3>1, <4>4, <4>5, Zenon
    <3> QED BY <3>2, <3>3, <3>4, Zenon DEF IsLength
  <2>9. P(t, k, c, FALSE, x)
    BY <2>3, <2>5, <2>6, <2>7, <2>8
  <2> HIDE DEF P
  <2>10. \E t_1 \in 1 .. Len(s) : \E k_1 \in 1 .. 5 : \E c_1 \in Seq(Byte) : \E i \in BOOLEAN :
           \E x_1 : P(t_1, k_1, c_1, i, x_1)
    BY <2>2, <2>9, Zenon
  <2> QED BY <1>1, <2>10 DEF P
<1>3. CASE \E t \in IndefiniteCuts(s) : y \in IndefiniteDers(Contents, s, l, t)
  <2>1. PICK t \in IndefiniteCuts(s) : y \in IndefiniteDers(Contents, s, l, t)
    BY <1>3
  <2> DEFINE c == SubSeq(s, t + 2, Len(s) - 2)
             S == Contents[PartOf(c, l - 1, TRUE)]
  <2>2. t \in 1 .. Len(s) - 3 /\ c \in Seq(Byte) /\ Len(c) = Len(s) - t - 3
    BY IndefiniteShorter
  <2>3. IsTag(SubSeq(s, 1, t)) /\ IsConstructed(s)
    BY DEF IndefiniteCuts
  <2>4. IndefiniteDers(Contents, s, l, t) = {Encode(SubSeq(s, 1, t), z) : z \in S}
    BY DEF IndefiniteDers
  <2> HIDE DEF S
  <2>5. PICK x \in S : y = Encode(SubSeq(s, 1, t), x)
    BY <2>1, <2>4, Zenon
  <2> HIDE DEF c
  <2>6. IF IsConstructed(s) THEN x \in Contents[PartOf(c, l - 1, TRUE)] ELSE x = c
    BY <2>3, <2>5 DEF S
  <2>7. Len(s) \in Nat /\ Len(s) = t + 3 + Len(c) /\ t \in 1 .. Len(s) /\ 3 \in 1 .. 5
    BY <2>2, LenProperties
  <2>8. P(t, 3, c, TRUE, x)
    <3>1. 3 # 1
      OBVIOUS
    <3> QED BY <2>3, <2>5, <2>6, <2>7, <3>1, Zenon
  <2> HIDE DEF P
  <2>9. \E t_1 \in 1 .. Len(s) : \E k_1 \in 1 .. 5 : \E c_1 \in Seq(Byte) : \E i \in BOOLEAN :
          \E x_1 : P(t_1, k_1, c_1, i, x_1)
    BY <2>2, <2>7, <2>8, Zenon
  <2> QED BY <1>1, <2>9 DEF P
<1> QED BY <1>1, <1>2, <1>3

\* What is written for a content is at most twice as long, and is itself a
\* content of definite-length objects that is written as it is.
Clean(p, y) ==
  /\ y \in Seq(Byte) /\ Len(y) <= 2 * Len(p.text)
  /\ Len(y) <= Largest[4] => y \in Contents[PartOf(y, p.levels, FALSE)]
CleanBelow(n) == \A p \in Part : Len(p.text) < n => \A y \in Contents[p] : Clean(p, y)

\* An object whose contents are clean is written as DER that reads back as itself.
LEMMA ObjectClean ==
  ASSUME NEW s \in Seq(Byte), NEW l \in Nat, CleanBelow(Len(s)), NEW y \in DersOf(s, l)
  PROVE  /\ y \in Seq(Byte) /\ Len(y) >= 2 /\ Len(y) <= 2 * Len(s)
         /\ Len(y) <= Largest[4] => y \in DersOf(y, l)
<1>1. PICK t \in 1 .. Len(s), k \in 1 .. 5, c \in Seq(Byte), i \in BOOLEAN :
        \E x : /\ IsTag(SubSeq(s, 1, t)) /\ y = Encode(SubSeq(s, 1, t), x)
               /\ Len(s) = t + k + Len(c) /\ (k = 1 => Len(c) < 128)
               /\ IF IsConstructed(s) THEN x \in Contents[PartOf(c, l - 1, i)] ELSE x = c
  <2>1. \E t \in 1 .. Len(s) : \E k \in 1 .. 5 : \E c \in Seq(Byte) : \E i \in BOOLEAN :
          \E x :
            /\ IsTag(SubSeq(s, 1, t)) /\ y = Encode(SubSeq(s, 1, t), x)
            /\ Len(s) = t + k + Len(c) /\ (k = 1 => Len(c) < 128)
            /\ IF IsConstructed(s) THEN x \in Contents[PartOf(c, l - 1, i)] ELSE x = c
    BY ObjectParts
  <2> QED BY <2>1, Zenon
<1>2. PICK x : /\ IsTag(SubSeq(s, 1, t)) /\ y = Encode(SubSeq(s, 1, t), x)
               /\ Len(s) = t + k + Len(c) /\ (k = 1 => Len(c) < 128)
               /\ IF IsConstructed(s) THEN x \in Contents[PartOf(c, l - 1, i)] ELSE x = c
  BY <1>1
<1>3. l \in Nat \ {0}
  BY ObjectParts
<1>4. Len(s) \in Nat /\ Len(c) \in Nat /\ t \in Nat /\ k \in Nat
  BY LenProperties
<1> DEFINE g == SubSeq(s, 1, t)
<1>5. g \in Seq(Byte) /\ Len(g) = t /\ g[1] = s[1]
  <2>1. 1 \in Nat \ {0} /\ 1 <= t + 1 /\ t <= Len(s) /\ 1 \in 1 .. t + 1 - 1 /\ t + 1 - 1 = t
        /\ 1 + 1 - 1 = 1
    BY <1>4
  <2>2. /\ g \in Seq(Byte) /\ Len(g) = t + 1 - 1
        /\ \A j \in 1 .. t + 1 - 1 : g[j] = s[1 + j - 1]
    BY <1>4, <2>1, SubString
  <2>3. g[1] = s[1 + 1 - 1]
    BY <2>1, <2>2, Zenon
  <2> QED BY <2>1, <2>2, <2>3
<1>6. IsConstructed(g) <=> IsConstructed(s)
  BY <1>5, Zenon DEF IsConstructed
<1>7. y = Encode(g, x) /\ IsTag(g)
  BY <1>2
<1> HIDE DEF g
<1>8. g # <<>>
  BY <1>4, <1>5, EmptySeq
<1> DEFINE p == PartOf(c, l - 1, i)
<1>9. p \in Part /\ p.text = c /\ p.levels = l - 1
  BY <1>3, PartOfType
<1> HIDE DEF p
<1>10. IsConstructed(s) => Clean(p, x)
  BY <1>2, <1>4, <1>9 DEF CleanBelow, p
<1>11. x \in Seq(Byte) /\ Len(x) <= 2 * Len(c)
  <2>1. CASE IsConstructed(s)
    BY <1>9, <1>10, <2>1 DEF Clean
  <2>2. CASE ~IsConstructed(s)
    BY <1>2, <1>4, <2>2
  <2> QED BY <2>1, <2>2
<1> DEFINE m == Len(DerLength(Len(x)))
<1>12. y \in Seq(Byte) /\ m \in 1 .. 5 /\ Len(y) = t + m + Len(x)
  BY <1>5, <1>7, <1>8, <1>11, Encoded
<1>13. Len(x) \in Nat
  BY <1>11, LenProperties
<1>14. Len(c) < 128 => m <= 2
  <2>1. Len(c) < 128 => Len(x) <= 254
    BY <1>4, <1>11, <1>13
  <2> QED BY <1>13, <2>1, DerLengthShort
<1> HIDE DEF m
<1>15. Len(y) >= 2 /\ Len(y) <= 2 * Len(s)
  <2>1. CASE k = 1
    BY <1>2, <1>4, <1>11, <1>12, <1>13, <1>14, <2>1
  <2>2. CASE k # 1
    BY <1>2, <1>4, <1>11, <1>12, <1>13, <2>2
  <2> QED BY <2>1, <2>2
<1>16. ASSUME Len(y) <= Largest[4]
       PROVE  y \in DersOf(y, l)
  <2>1. Len(x) <= Largest[4]
    <3>1. Largest[4] \in Nat
      BY LargestValues, SMT
    <3> QED BY <1>4, <1>12, <1>13, <1>16, <3>1
  <2>2. IsConstructed(g) => x \in Contents[PartOf(x, l - 1, FALSE)]
    BY <1>6, <1>9, <1>10, <2>1, Zenon DEF Clean
  <2>3. Len(Encode(g, x)) <= Largest[4]
    BY <1>7, <1>16
  <2> QED BY <1>3, <1>5, <1>7, <1>8, <1>11, <2>2, <2>3, EncodeIsObject
<1> QED BY <1>12, <1>15, <1>16

\* Every content is clean, by a least counterexample.
LEMMA ContentsClean == \A p \in Part : \A y \in Contents[p] : Clean(p, y)
<1> DEFINE Bad == {n \in Nat : \E p \in Part : Len(p.text) = n /\ \E y \in Contents[p] : ~Clean(p, y)}
<1>1. ASSUME NEW n \in Nat, CleanBelow(n), NEW p \in Part, Len(p.text) = n, NEW y \in Contents[p]
      PROVE  Clean(p, y)
  <2> DEFINE s == p.text
             l == p.levels
             i == p.indefinite
  <2>1. s \in Seq(Byte) /\ l \in Nat /\ i \in BOOLEAN /\ p = PartOf(s, l, i) /\ Len(s) = n
    BY <1>1, PartFields
  <2>2. s = p.text /\ l = p.levels
    OBVIOUS
  <2> HIDE DEF s, l, i
  <2>3. CASE s = <<>>
    <3>1. y = <<>>
      BY <1>1, <2>1, <2>3, ContentsEmpty
    <3>2. y \in Contents[PartOf(y, l, FALSE)]
      BY <2>1, <3>1, ContentsEmpty
    <3>3. y \in Seq(Byte) /\ Len(y) <= 2 * Len(s)
      BY <2>3, <3>1
    <3> QED BY <2>2, <3>2, <3>3 DEF Clean
  <2>4. CASE s # <<>>
    <3>1. \E k \in 1 .. Len(s) : \E a \in DersOf(SubSeq(s, 1, k), l) :
            \E b \in Contents[PartOf(From(s, k + 1), l, i)] : y = a \o b
      <4>1. y \in Contents[PartOf(s, l, i)]
        BY <1>1, <2>1
      <4>2. FirstThenRest(y, s, l, i)
        BY <2>1, <2>4, <4>1, ContentsCons
      <4> QED BY <4>2, Zenon DEF FirstThenRest
    <3>17. PICK k \in 1 .. Len(s) : \E a \in DersOf(SubSeq(s, 1, k), l) :
             \E b \in Contents[PartOf(From(s, k + 1), l, i)] : y = a \o b
      BY <3>1
    <3>2. PICK a \in DersOf(SubSeq(s, 1, k), l), b \in Contents[PartOf(From(s, k + 1), l, i)] :
            y = a \o b
      BY <3>17
    <3> DEFINE u == SubSeq(s, 1, k)
               v == From(s, k + 1)
    <3>3. k \in Nat /\ 1 <= k /\ k <= Len(s) /\ Len(s) \in Nat
      BY <2>1, LenProperties
    <3>4. u \in Seq(Byte) /\ Len(u) = k
      <4>1. 1 \in Nat \ {0} /\ 1 <= k + 1 /\ k + 1 - 1 = k
        BY <3>3
      <4> QED BY <2>1, <3>3, <4>1, SubString
    <3>5. v \in Seq(Byte) /\ Len(v) = Len(s) - k
      <4>1. k + 1 \in Nat \ {0} /\ k + 1 <= Len(s) + 1 /\ Len(s) + 1 - (k + 1) = Len(s) - k
        BY <3>3
      <4> QED BY <2>1, <4>1, FromString
    <3>6. a \in DersOf(u, l) /\ b \in Contents[PartOf(v, l, i)]
      OBVIOUS
    <3> HIDE DEF u, v
    <3>7. CleanBelow(Len(u))
      <4> SUFFICES ASSUME NEW q \in Part, Len(q.text) < Len(u), NEW z \in Contents[q]
                   PROVE  Clean(q, z)
        BY DEF CleanBelow
      <4>1. Len(q.text) \in Nat
        BY PartFields, LenProperties
      <4>2. Len(q.text) < n
        BY <2>1, <3>3, <3>4, <4>1
      <4> QED BY <1>1, <4>2 DEF CleanBelow
    <3>8. /\ a \in Seq(Byte) /\ Len(a) >= 2 /\ Len(a) <= 2 * Len(u)
          /\ Len(a) <= Largest[4] => a \in DersOf(a, l)
      BY <2>1, <3>4, <3>6, <3>7, ObjectClean
    <3> DEFINE q == PartOf(v, l, i)
    <3>9. q \in Part /\ q.text = v /\ q.levels = l
      BY <2>1, <3>5, PartOfType
    <3>10. b \in Contents[q]
      BY <3>6
    <3> HIDE DEF q
    <3>11. Clean(q, b)
      <4>1. Len(q.text) < n
        BY <2>1, <3>3, <3>5, <3>9
      <4> QED BY <1>1, <3>9, <3>10, <4>1 DEF CleanBelow
    <3>12. /\ b \in Seq(Byte) /\ Len(b) <= 2 * Len(v)
           /\ Len(b) <= Largest[4] => b \in Contents[PartOf(b, l, FALSE)]
      BY <3>9, <3>11, Zenon DEF Clean
    <3>13. /\ y \in Seq(Byte) /\ Len(y) = Len(a) + Len(b)
           /\ SubSeq(y, 1, Len(a)) = a /\ From(y, Len(a) + 1) = b
      BY <3>2, <3>8, <3>12, Concatenated
    <3>14. Len(a) \in Nat /\ Len(b) \in Nat
      BY <3>8, <3>12, LenProperties
    <3>15. Len(y) <= 2 * Len(s)
      BY <3>3, <3>4, <3>5, <3>8, <3>12, <3>13, <3>14
    <3>16. ASSUME Len(y) <= Largest[4]
           PROVE  y \in Contents[PartOf(y, l, FALSE)]
      <4>1. Len(a) <= Largest[4] /\ Len(b) <= Largest[4]
        <5>1. Largest[4] \in Nat
          BY LargestValues, SMT
        <5> QED BY <3>13, <3>14, <3>16, <5>1
      <4>2. a \in DersOf(SubSeq(y, 1, Len(a)), l)
        BY <3>8, <3>13, <4>1
      <4>3. b \in Contents[PartOf(From(y, Len(a) + 1), l, FALSE)]
        BY <3>12, <3>13, <4>1
      <4>4. y # <<>> /\ Len(a) \in 1 .. Len(y)
        BY <3>8, <3>13, <3>14, EmptySeq
      <4>5. FirstThenRest(y, y, l, FALSE)
        BY <3>2, <4>2, <4>3, <4>4, Zenon DEF FirstThenRest
      <4> QED BY <2>1, <3>13, <4>4, <4>5, ContentsCons
    <3> QED BY <2>2, <3>13, <3>15, <3>16, Zenon DEF Clean
  <2> QED BY <2>3, <2>4
<1>2. ASSUME NEW p \in Part, NEW y \in Contents[p], ~Clean(p, y)
      PROVE  FALSE
  <2>1. Len(p.text) \in Nat
    BY PartFields, LenProperties
  <2>2. Len(p.text) \in Bad
    BY <1>2, <2>1
  <2>3. PICK n \in Bad : \A m \in Bad : n <= m
    BY <2>2, LeastNumber
  <2>4. PICK q \in Part : Len(q.text) = n /\ \E z \in Contents[q] : ~Clean(q, z)
    BY <2>3
  <2>5. n \in Nat
    BY <2>3
  <2>6. CleanBelow(n)
    <3> SUFFICES ASSUME NEW r \in Part, Len(r.text) < n, NEW z \in Contents[r], ~Clean(r, z)
                 PROVE  FALSE
      BY DEF CleanBelow
    <3>1. Len(r.text) \in Nat
      BY PartFields, LenProperties
    <3>2. Len(r.text) \in Bad
      BY <3>1
    <3> QED BY <2>3, <2>5, <3>1, <3>2
  <2> QED BY <1>1, <2>4, <2>5, <2>6
<1> QED BY <1>2

\* The DER of an object is an object again, and its own DER, as long as its
\* length can be written.
THEOREM DerIsDer ==
  ASSUME NEW s \in Seq(Byte), NEW l \in Nat, NEW y \in DersOf(s, l)
  PROVE  /\ y \in Seq(Byte) /\ Len(y) >= 2 /\ Len(y) <= 2 * Len(s)
         /\ Len(y) <= Largest[4] => y \in DersOf(y, l)
<1>1. CleanBelow(Len(s))
  BY ContentsClean DEF CleanBelow
<1> QED BY <1>1, ObjectClean

=============================================================================
