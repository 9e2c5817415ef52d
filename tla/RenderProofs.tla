----------------------------- MODULE RenderProofs -----------------------------
(***************************************************************************)
(* Theorems about Render, for every set of fields, any values, circular or  *)
(* not, and every template.                                                *)
(*                                                                         *)
(* What a text becomes is a fold over it, and a value in full a recursive     *)
(* function of the depth: both need induction.  It is stated for sets rather  *)
(* than for predicates, and rests on the well-foundedness of the strict       *)
(* subset ordering of finite sets.                                          *)
(***************************************************************************)
EXTENDS Render, FiniteSetTheorems, SequenceTheorems, TLAPS

-----------------------------------------------------------------------------
(* Induction, for sets *)

\* A set of naturals that has an element has a least one.
LEMMA LeastElement ==
  ASSUME NEW B \in SUBSET Nat, B # {}
  PROVE  \E m \in B : \A k \in B : m <= k
<1> DEFINE Intervals == {0..n : n \in B}
<1>1. Intervals \subseteq FiniteSubsetsOf(Nat)
  <2>1. \A n \in B : 0..n \in SUBSET Nat /\ IsFiniteSet(0..n)
    BY FS_Interval
  <2> QED BY <2>1 DEF FiniteSubsetsOf
<1>2. Intervals # {} OBVIOUS
<1>3. \E x \in Intervals : \A y \in Intervals : ~ (<<y, x>> \in StrictSubsetOrdering(Nat))
  <2> HIDE DEF Intervals
  <2> QED BY <1>1, <1>2, FS_StrictSubsetOrderingWellFounded, WFMin
<1>4. PICK m \in B : \A k \in B : ~ (<<0..k, 0..m>> \in StrictSubsetOrdering(Nat))
  BY <1>3
<1>5. ASSUME NEW k \in B, k < m PROVE FALSE
  <2>1. 0..k \subseteq 0..m /\ 0..k # 0..m /\ 0..k \in SUBSET Nat /\ 0..m \in SUBSET Nat
    BY <1>5
  <2>2. <<0..k, 0..m>> \in StrictSubsetOrdering(Nat)
    BY <2>1 DEF StrictSubsetOrdering
  <2> QED BY <1>4, <2>2
<1> QED BY <1>4, <1>5

\* A set that has 0, and with every natural the next, has them all.
LEMMA Induction ==
  ASSUME NEW B, 0 \in B, \A n \in Nat : n \in B => n + 1 \in B
  PROVE  Nat \subseteq B
<1> SUFFICES ASSUME Nat \ B # {} PROVE FALSE
  OBVIOUS
<1>1. PICK m \in Nat \ B : \A k \in Nat \ B : m <= k
  BY LeastElement
<1>2. m # 0 /\ m - 1 \in Nat
  BY <1>1
<1>3. m - 1 \in B
  BY <1>1, <1>2
<1> QED BY <1>1, <1>2, <1>3

\* A set that has the empty sequence, and with every sequence all that are one longer,
\* has them all.
LEMMA SequenceInduction ==
  ASSUME NEW S, NEW A, <<>> \in A,
         \A s \in Seq(S), e \in S : s \in A => Append(s, e) \in A
  PROVE  Seq(S) \subseteq A
<1> DEFINE B == {n \in Nat : \A s \in Seq(S) : Len(s) = n => s \in A}
<1>1. 0 \in B
  <2>1. \A s \in Seq(S) : Len(s) = 0 => s = <<>>
    BY EmptySeq, LenProperties
  <2> QED BY <2>1
<1>2. ASSUME NEW n \in Nat, n \in B PROVE n + 1 \in B
  <2>1. ASSUME NEW s \in Seq(S), Len(s) = n + 1 PROVE s \in A
    <3> DEFINE r == SubSeq(s, 1, n)
    <3>1. \A i \in 1..n+1 : s[i] \in S
      BY <2>1, ElementOfSeq
    <3>2. r \in Seq(S) /\ Len(r) = n
      BY <3>1, SubSeqProperties
    <3>3. r \in A
      BY <1>2, <3>2
    <3>4. s = Append(r, s[n + 1])
      BY <2>1, <3>1
    <3>5. s[n + 1] \in S
      BY <3>1
    <3>6. Append(r, s[n + 1]) \in A
      <4> HIDE DEF r
      <4> QED BY <3>2, <3>3, <3>5
    <3> QED BY <3>4, <3>6
  <2> QED BY <2>1
<1>3. Nat \subseteq B
  <2> HIDE DEF B
  <2> QED BY <1>1, <1>2, Induction
<1>4. \A s \in Seq(S) : Len(s) \in B
  <2> HIDE DEF B
  <2> QED BY <1>3, LenProperties
<1> QED BY <1>4

-----------------------------------------------------------------------------
(* Flattening *)

\* What FlattenSeq chooses: g[i] is the first i sequences of ss, one after the other.
PartialSums(g, ss, n) == g = [i \in 1..n |-> IF i = 1 THEN ss[i] ELSE g[i - 1] \o ss[i]]

LEMMA SumsAt ==
  ASSUME NEW ss, NEW n \in Nat, NEW g, PartialSums(g, ss, n)
  PROVE  \A i \in 1..n : g[i] = IF i = 1 THEN ss[i] ELSE g[i - 1] \o ss[i]
BY DEF PartialSums

\* There is such a function, whatever the sequences.
LEMMA SumsExist ==
  ASSUME NEW ss
  PROVE  \A n \in Nat : \E g : PartialSums(g, ss, n)
<1> DEFINE B == {n \in Nat : \E g : PartialSums(g, ss, n)}
<1>1. 0 \in B
  <2>1. PartialSums(<<>>, ss, 0)
    BY DEF PartialSums
  <2> QED BY <2>1
<1>2. ASSUME NEW n \in Nat, n \in B PROVE n + 1 \in B
  <2>1. PICK g : PartialSums(g, ss, n)
    BY <1>2
  <2> DEFINE h == [i \in 1..n + 1 |-> IF i = 1 THEN ss[i] ELSE g[i - 1] \o ss[i]]
  <2>2. \A i \in 1..n : h[i] = g[i]
    BY <2>1, SumsAt
  <2>3. \A i \in 1..n + 1 : i # 1 => i - 1 \in 1..n
    OBVIOUS
  <2>4. \A i \in 1..n + 1 : i # 1 => h[i - 1] = g[i - 1]
    <3> HIDE DEF h
    <3> QED BY <2>2, <2>3
  <2>5. h = [i \in 1..n + 1 |-> IF i = 1 THEN ss[i] ELSE h[i - 1] \o ss[i]]
    BY <2>4
  <2>6. PartialSums(h, ss, n + 1)
    BY <2>5 DEF PartialSums
  <2> QED BY <2>6
<1>3. Nat \subseteq B
  <2> HIDE DEF B
  <2> QED BY <1>1, <1>2, Induction
<1> QED BY <1>3

LEMMA FlattenIsSum ==
  ASSUME NEW ss, Len(ss) \in Nat, Len(ss) # 0
  PROVE  \E g : PartialSums(g, ss, Len(ss)) /\ FlattenSeq(ss) = g[Len(ss)]
<1> DEFINE f == CHOOSE flatten : PartialSums(flatten, ss, Len(ss))
<1>1. FlattenSeq(ss) = f[Len(ss)]
  BY DEF FlattenSeq, PartialSums
<1>2. PartialSums(f, ss, Len(ss))
  BY SumsExist
<1> QED BY <1>1, <1>2

LEMMA FlattenEmpty == FlattenSeq(<<>>) = <<>>
BY DEF FlattenSeq

LEMMA SumsAgree ==
  ASSUME NEW S, NEW ss \in Seq(S), NEW e \in S, NEW n \in Nat, n = Len(ss),
         NEW g, NEW h, PartialSums(g, ss, n), PartialSums(h, Append(ss, e), n + 1)
  PROVE  \A i \in 1..n : g[i] = h[i]
<1> DEFINE B == {k \in Nat : k \in 1..n => g[k] = h[k]}
<1>1. 0 \in B
  OBVIOUS
<1>2. ASSUME NEW k \in Nat, k \in B PROVE k + 1 \in B
  <2> SUFFICES ASSUME k + 1 \in 1..n PROVE g[k + 1] = h[k + 1]
    OBVIOUS
  <2>1. Append(ss, e)[k + 1] = ss[k + 1]
    BY AppendProperties
  <2>2. g[k + 1] = IF k + 1 = 1 THEN ss[k + 1] ELSE g[k] \o ss[k + 1]
    BY SumsAt
  <2> DEFINE longer == Append(ss, e)
  <2>3. h[k + 1] = IF k + 1 = 1 THEN longer[k + 1] ELSE h[k] \o longer[k + 1]
    <3>1. k + 1 \in 1..n + 1 /\ n + 1 \in Nat /\ k + 1 - 1 = k
      OBVIOUS
    <3>2. PartialSums(h, longer, n + 1)
      OBVIOUS
    <3> HIDE DEF longer
    <3>3. \A i \in 1..n + 1 : h[i] = IF i = 1 THEN longer[i] ELSE h[i - 1] \o longer[i]
      BY <3>1, <3>2, SumsAt
    <3> QED BY <3>1, <3>3
  <2> QED BY <1>2, <2>1, <2>2, <2>3
<1>3. Nat \subseteq B
  <2> HIDE DEF B
  <2> QED BY <1>1, <1>2, Induction
<1> QED BY <1>3

LEMMA FlattenAppend ==
  ASSUME NEW S, NEW ss \in Seq(Seq(S)), NEW s \in Seq(S), FlattenSeq(ss) \in Seq(S)
  PROVE  FlattenSeq(Append(ss, s)) = FlattenSeq(ss) \o s
<1> DEFINE n == Len(ss)
<1>1. n \in Nat /\ Append(ss, s) \in Seq(Seq(S)) /\ Len(Append(ss, s)) = n + 1
  BY LenProperties, AppendProperties
<1>2. Append(ss, s)[n + 1] = s
  BY AppendProperties
<1> DEFINE longer == Append(ss, s)
<1> HIDE DEF n, longer
<1>3. PICK h : PartialSums(h, longer, n + 1) /\ FlattenSeq(longer) = h[n + 1]
  <2>1. Len(longer) = n + 1 /\ n + 1 \in Nat /\ n + 1 # 0
    BY <1>1 DEF longer
  <2> QED BY <2>1, FlattenIsSum
<1>4. h[n + 1] = IF n + 1 = 1 THEN s ELSE h[n] \o s
  <2> DEFINE m == n + 1
  <2>1. m \in Nat /\ m \in 1..m /\ m - 1 = n
    BY <1>1
  <2>2. PartialSums(h, longer, m)
    BY <1>3
  <2>3. longer[m] = s
    BY <1>2 DEF longer
  <2>4. h[m] = IF m = 1 THEN s ELSE h[n] \o s
    <3> HIDE DEF m
    <3>1. h[m] = IF m = 1 THEN longer[m] ELSE h[m - 1] \o longer[m]
      BY <2>1, <2>2, SumsAt
    <3> QED BY <2>1, <2>3, <3>1
  <2> QED BY <2>4
<1>5. CASE n = 0
  <2>1. ss = <<>>
    BY <1>5, EmptySeq DEF n
  <2>2. <<>> \o s = s
    BY ConcatEmptySeq
  <2> QED BY <1>3, <1>4, <1>5, <2>1, <2>2, FlattenEmpty DEF longer
<1>6. CASE n # 0
  <2>1. PICK g : PartialSums(g, ss, n) /\ FlattenSeq(ss) = g[n]
    BY <1>1, <1>6, FlattenIsSum DEF n
  <2>2. g[n] = h[n]
    <3>1. n \in 1..n
      BY <1>1, <1>6
    <3>2. \A i \in 1..n : g[i] = h[i]
      BY <1>1, <1>3, <2>1, SumsAgree DEF n, longer
    <3> QED BY <3>1, <3>2
  <2> QED BY <1>1, <1>3, <1>4, <1>6, <2>1, <2>2 DEF longer
<1> QED BY <1>5, <1>6

-----------------------------------------------------------------------------
(* Replacing *)

Texts == Seq(Tokens)
Values == [Fields -> Texts]

\* What replaces one token.
Image(token, by) == IF token \in Fields THEN by[token] ELSE <<token>>
Images(text, by) == [n \in DOMAIN text |-> Image(text[n], by)]

LEMMA ReplaceIsFlatten ==
  ASSUME NEW text, NEW by
  PROVE  Replace(text, by) = FlattenSeq(Images(text, by))
BY DEF Replace, Images, Image

LEMMA ExpandIsReplace ==
  ASSUME NEW text
  PROVE  Expand(text) = Replace(text, value)
BY DEF Expand, ValueOf, Replace

LEMMA ImageType ==
  ASSUME NEW token \in Tokens, NEW by \in Values
  PROVE  Image(token, by) \in Texts
<1>1. CASE token \in Fields
  BY <1>1 DEF Image, Values
<1>2. CASE token \notin Fields
  <2>1. <<token>> \in Seq(Tokens)
    OBVIOUS
  <2> QED BY <1>2, <2>1 DEF Image, Texts
<1> QED BY <1>1, <1>2

LEMMA ImagesType ==
  ASSUME NEW text \in Texts, NEW by \in Values
  PROVE  /\ Images(text, by) \in Seq(Texts)
         /\ Len(Images(text, by)) = Len(text)
<1> DEFINE n == Len(text)
           images == [i \in 1..n |-> Image(text[i], by)]
<1>1. n \in Nat /\ DOMAIN text = 1..n /\ \A i \in 1..n : text[i] \in Tokens
  BY LenProperties, ElementOfSeq DEF Texts
<1>2. \A i \in 1..n : Image(text[i], by) \in Texts
  BY <1>1, ImageType
<1>3. images \in [1..n -> Texts]
  <2> HIDE DEF n
  <2> QED BY <1>2
<1>4. Images(text, by) = images
  BY <1>1 DEF Images
<1>5. images \in Seq(Texts) /\ Len(images) = n
  <2> HIDE DEF images, n
  <2> QED BY <1>1, <1>3
<1> QED BY <1>4, <1>5

LEMMA ImagesAppend ==
  ASSUME NEW text \in Texts, NEW token \in Tokens, NEW by \in Values
  PROVE  Images(Append(text, token), by) = Append(Images(text, by), Image(token, by))
<1> DEFINE n == Len(text)
           longer == Append(text, token)
           images == Images(text, by)
           image == Image(token, by)
           left == Images(longer, by)
           right == Append(images, image)
<1>1. n \in Nat /\ longer \in Texts /\ Len(longer) = n + 1 /\ longer[n + 1] = token
  BY LenProperties, AppendProperties DEF Texts
<1>2. \A i \in 1..n : longer[i] = text[i]
  BY AppendProperties DEF Texts
<1>3. images \in Seq(Texts) /\ Len(images) = n /\ left \in Seq(Texts) /\ Len(left) = n + 1
  BY <1>1, ImagesType
<1>4. image \in Texts
  BY ImageType
<1>5. right \in Seq(Texts) /\ Len(right) = n + 1 /\ right[n + 1] = image
  <2> HIDE DEF images, image, n
  <2> QED BY <1>3, <1>4, AppendProperties
<1>6. \A i \in 1..n : right[i] = images[i]
  <2> HIDE DEF images, image, n
  <2> QED BY <1>3, <1>4, AppendProperties
<1>7. DOMAIN text = 1..n /\ DOMAIN longer = 1..n + 1
  BY <1>1, LenProperties DEF Texts
<1>8. \A i \in 1..n : images[i] = Image(text[i], by)
  BY <1>7 DEF Images
<1>9. \A i \in 1..n + 1 : left[i] = Image(longer[i], by)
  BY <1>7 DEF Images
<1>10. \A i \in 1..n + 1 : left[i] = right[i]
  <2> SUFFICES ASSUME NEW i \in 1..n + 1 PROVE left[i] = right[i]
    OBVIOUS
  <2>1. CASE i = n + 1
    BY <1>1, <1>5, <1>9, <2>1
  <2>2. CASE i # n + 1
    <3>1. i \in 1..n
      BY <1>1, <2>2
    <3> QED BY <1>2, <1>6, <1>8, <1>9, <3>1
  <2> QED BY <2>1, <2>2
<1>11. left = right
  <2> HIDE DEF left, right, n
  <2> QED BY <1>3, <1>5, <1>10, SeqEqual
<1> QED BY <1>11

LEMMA ReplaceEmpty ==
  ASSUME NEW by
  PROVE  Replace(<<>>, by) = <<>>
<1>1. Images(<<>>, by) = <<>>
  BY DEF Images
<1> QED BY <1>1, ReplaceIsFlatten, FlattenEmpty

LEMMA ReplaceAppendOnce ==
  ASSUME NEW text \in Texts, NEW token \in Tokens, NEW by \in Values,
         Replace(text, by) \in Texts
  PROVE  Replace(Append(text, token), by) = Replace(text, by) \o Image(token, by)
<1>1. Images(text, by) \in Seq(Seq(Tokens)) /\ Image(token, by) \in Seq(Tokens)
  BY ImagesType, ImageType DEF Texts
<1>2. FlattenSeq(Images(text, by)) \in Seq(Tokens)
  BY ReplaceIsFlatten DEF Texts
<1>3. FlattenSeq(Append(Images(text, by), Image(token, by)))
        = FlattenSeq(Images(text, by)) \o Image(token, by)
  BY <1>1, <1>2, FlattenAppend
<1> QED BY <1>3, ImagesAppend, ReplaceIsFlatten

\* The text that replacing yields is a text.
LEMMA ReplaceType ==
  ASSUME NEW text \in Texts, NEW by \in Values
  PROVE  Replace(text, by) \in Texts
<1> DEFINE A == {t \in Texts : Replace(t, by) \in Texts}
<1>1. <<>> \in A
  BY ReplaceEmpty, EmptySeq DEF Texts
<1>2. ASSUME NEW t \in Seq(Tokens), NEW token \in Tokens, t \in A PROVE Append(t, token) \in A
  <2>1. Append(t, token) \in Texts
    BY AppendProperties DEF Texts
  <2>2. Replace(t, by) \o Image(token, by) \in Texts
    BY <1>2, ImageType, ConcatProperties DEF Texts
  <2>3. Replace(Append(t, token), by) = Replace(t, by) \o Image(token, by)
    BY <1>2, ReplaceAppendOnce DEF Texts
  <2> QED BY <2>1, <2>2, <2>3
<1>3. Seq(Tokens) \subseteq A
  <2> HIDE DEF A
  <2> QED BY <1>1, <1>2, SequenceInduction
<1> QED BY <1>3 DEF Texts

LEMMA ReplaceAppend ==
  ASSUME NEW text \in Texts, NEW token \in Tokens, NEW by \in Values
  PROVE  Replace(Append(text, token), by) = Replace(text, by) \o Image(token, by)
BY ReplaceAppendOnce, ReplaceType

LEMMA ReplaceConcat ==
  ASSUME NEW s \in Texts, NEW text \in Texts, NEW by \in Values
  PROVE  Replace(s \o text, by) = Replace(s, by) \o Replace(text, by)
<1> DEFINE A == {t \in Texts : Replace(s \o t, by) = Replace(s, by) \o Replace(t, by)}
<1>1. <<>> \in A
  <2>1. s \o <<>> = s /\ Replace(s, by) \o <<>> = Replace(s, by)
    BY ConcatEmptySeq, ReplaceType DEF Texts
  <2> QED BY <2>1, ReplaceEmpty, EmptySeq DEF Texts
<1>2. ASSUME NEW t \in Seq(Tokens), NEW token \in Tokens, t \in A PROVE Append(t, token) \in A
  <2>1. Append(t, token) \in Texts /\ <<token>> \in Texts /\ t \in Texts /\ s \o t \in Texts
    BY AppendProperties, ConcatProperties DEF Texts
  <2>2. s \o Append(t, token) = Append(s \o t, token)
    <3>1. Append(t, token) = t \o <<token>> /\ Append(s \o t, token) = (s \o t) \o <<token>>
      BY <2>1, AppendIsConcat DEF Texts
    <3>2. (s \o t) \o <<token>> = s \o (t \o <<token>>)
      BY <2>1, ConcatAssociative DEF Texts
    <3> QED BY <3>1, <3>2
  <2>3. Replace(Append(s \o t, token), by) = Replace(s \o t, by) \o Image(token, by)
    BY <2>1, ReplaceAppend
  <2>4. Replace(Append(t, token), by) = Replace(t, by) \o Image(token, by)
    BY <2>1, ReplaceAppend
  <2>5. Replace(s, by) \in Seq(Tokens) /\ Replace(t, by) \in Seq(Tokens)
       /\ Image(token, by) \in Seq(Tokens)
    BY <2>1, ReplaceType, ImageType DEF Texts
  <2>6. (Replace(s, by) \o Replace(t, by)) \o Image(token, by)
          = Replace(s, by) \o (Replace(t, by) \o Image(token, by))
    BY <2>5, ConcatAssociative
  <2> QED BY <1>2, <2>1, <2>2, <2>3, <2>4, <2>6
<1>3. Seq(Tokens) \subseteq A
  <2> HIDE DEF A
  <2> QED BY <1>1, <1>2, SequenceInduction
<1> QED BY <1>3 DEF Texts

\* What replaces the tokens of a value by those of other values.
Twice(by, then) == [f \in Fields |-> Replace(by[f], then)]

LEMMA TwiceType ==
  ASSUME NEW by \in Values, NEW then \in Values
  PROVE  Twice(by, then) \in Values
BY ReplaceType DEF Twice, Values

LEMMA ReplaceOne ==
  ASSUME NEW token \in Tokens, NEW by \in Values
  PROVE  Replace(<<token>>, by) = Image(token, by)
<1>1. <<>> \in Texts /\ <<token>> = Append(<<>>, token)
  BY EmptySeq DEF Texts
<1>2. Replace(Append(<<>>, token), by) = Replace(<<>>, by) \o Image(token, by)
  BY <1>1, ReplaceAppend
<1>3. <<>> \o Image(token, by) = Image(token, by)
  BY ImageType, ConcatEmptySeq DEF Texts
<1> QED BY <1>1, <1>2, <1>3, ReplaceEmpty

LEMMA ImageTwice ==
  ASSUME NEW token \in Tokens, NEW by \in Values, NEW then \in Values
  PROVE  Replace(Image(token, by), then) = Image(token, Twice(by, then))
<1>1. CASE token \in Fields
  BY <1>1 DEF Image, Twice
<1>2. CASE token \notin Fields
  BY <1>2, ReplaceOne DEF Image
<1> QED BY <1>1, <1>2

\* Replacing in what was replaced is replacing by what is replaced in the values.
LEMMA ReplaceTwice ==
  ASSUME NEW text \in Texts, NEW by \in Values, NEW then \in Values
  PROVE  Replace(Replace(text, by), then) = Replace(text, Twice(by, then))
<1> DEFINE A == {t \in Texts : Replace(Replace(t, by), then) = Replace(t, Twice(by, then))}
<1>1. <<>> \in A
  BY ReplaceEmpty, EmptySeq DEF Texts
<1>2. ASSUME NEW t \in Seq(Tokens), NEW token \in Tokens, t \in A PROVE Append(t, token) \in A
  <2>1. Append(t, token) \in Texts /\ t \in Texts
    BY AppendProperties DEF Texts
  <2>2. Replace(Append(t, token), by) = Replace(t, by) \o Image(token, by)
    BY <2>1, ReplaceAppend
  <2>3. Replace(Replace(t, by) \o Image(token, by), then)
          = Replace(Replace(t, by), then) \o Replace(Image(token, by), then)
    BY <2>1, ReplaceType, ImageType, ReplaceConcat
  <2>4. Replace(Append(t, token), Twice(by, then))
          = Replace(t, Twice(by, then)) \o Image(token, Twice(by, then))
    BY <2>1, ReplaceAppend, TwiceType
  <2>5. Replace(Image(token, by), then) = Image(token, Twice(by, then))
    BY ImageTwice
  <2> QED BY <1>2, <2>1, <2>2, <2>3, <2>4, <2>5
<1>3. Seq(Tokens) \subseteq A
  <2> HIDE DEF A
  <2> QED BY <1>1, <1>2, SequenceInduction
<1> QED BY <1>3 DEF Texts

\* It depends on the values of the fields in the text only.
LEMMA ReplaceSame ==
  ASSUME NEW text, NEW by, NEW other,
         \A f \in ToSet(text) \cap Fields : by[f] = other[f]
  PROVE  Replace(text, by) = Replace(text, other)
<1>1. \A n \in DOMAIN text : Image(text[n], by) = Image(text[n], other)
  BY DEF Image, ToSet
<1>2. Images(text, by) = Images(text, other)
  BY <1>1 DEF Images
<1> QED BY <1>2, ReplaceIsFlatten

LEMMA ToSetEmpty == ToSet(<<>>) = {}
BY DEF ToSet

LEMMA ToSetType ==
  ASSUME NEW text \in Texts
  PROVE  ToSet(text) \subseteq Tokens
BY LenProperties, ElementOfSeq DEF ToSet, Texts

LEMMA ToSetConcat ==
  ASSUME NEW s \in Texts, NEW t \in Texts
  PROVE  ToSet(s \o t) = ToSet(s) \cup ToSet(t)
<1> DEFINE m == Len(s)
           n == Len(t)
           u == s \o t
<1>1. m \in Nat /\ n \in Nat /\ DOMAIN s = 1..m /\ DOMAIN t = 1..n /\ DOMAIN u = 1..m + n
  BY LenProperties, ConcatProperties DEF Texts
<1>2. \A i \in 1..m + n : u[i] = IF i <= m THEN s[i] ELSE t[i - m]
  BY ConcatProperties DEF Texts
<1> HIDE DEF m, n, u
<1>3. ASSUME NEW e \in ToSet(u) PROVE e \in ToSet(s) \cup ToSet(t)
  <2>1. PICK i \in 1..m + n : e = u[i]
    BY <1>1 DEF ToSet
  <2>2. CASE i <= m
    <3>1. i \in 1..m
      BY <1>1, <2>2
    <3> QED BY <1>1, <1>2, <2>1, <2>2, <3>1 DEF ToSet
  <2>3. CASE ~ (i <= m)
    <3>1. i - m \in 1..n
      BY <1>1, <2>3
    <3>2. e = t[i - m]
      BY <1>2, <2>1, <2>3
    <3> QED BY <1>1, <3>1, <3>2 DEF ToSet
  <2> QED BY <2>2, <2>3
<1>4. ASSUME NEW e \in ToSet(s) PROVE e \in ToSet(u)
  <2>1. PICK i \in 1..m : e = s[i]
    BY <1>1 DEF ToSet
  <2>2. i \in 1..m + n /\ i <= m
    BY <1>1
  <2>3. u[i] = e
    BY <1>2, <2>1, <2>2
  <2> QED BY <1>1, <2>2, <2>3 DEF ToSet
<1>5. ASSUME NEW e \in ToSet(t) PROVE e \in ToSet(u)
  <2>1. PICK i \in 1..n : e = t[i]
    BY <1>1 DEF ToSet
  <2> DEFINE k == m + i
  <2>2. k \in 1..m + n /\ ~ (k <= m) /\ k - m = i
    BY <1>1
  <2> HIDE DEF k
  <2>3. u[k] = e
    BY <1>2, <2>1, <2>2
  <2> QED BY <1>1, <2>2, <2>3 DEF ToSet
<1> QED BY <1>3, <1>4, <1>5 DEF u

LEMMA ToSetOne ==
  ASSUME NEW e
  PROVE  ToSet(<<e>>) = {e}
BY DEF ToSet

LEMMA ToSetAppend ==
  ASSUME NEW t \in Texts, NEW token \in Tokens
  PROVE  ToSet(Append(t, token)) = ToSet(t) \cup {token}
<1>1. Append(t, token) = t \o <<token>> /\ <<token>> \in Texts
  BY AppendIsConcat DEF Texts
<1> QED BY <1>1, ToSetConcat, ToSetOne

\* The tokens of the text that replacing yields are those of what replaces its tokens.
ImageTokens(text, by) == UNION {ToSet(Image(token, by)) : token \in ToSet(text)}

LEMMA ReplaceTokens ==
  ASSUME NEW text \in Texts, NEW by \in Values
  PROVE  ToSet(Replace(text, by)) = ImageTokens(text, by)
<1> DEFINE A == {t \in Texts : ToSet(Replace(t, by)) = ImageTokens(t, by)}
<1>1. <<>> \in A
  BY ReplaceEmpty, EmptySeq, ToSetEmpty DEF Texts, ImageTokens
<1>2. ASSUME NEW t \in Seq(Tokens), NEW token \in Tokens, t \in A PROVE Append(t, token) \in A
  <2>1. Append(t, token) \in Texts /\ t \in Texts
    BY AppendProperties DEF Texts
  <2>2. Replace(Append(t, token), by) = Replace(t, by) \o Image(token, by)
    BY <2>1, ReplaceAppend
  <2>3. ToSet(Replace(t, by) \o Image(token, by))
          = ToSet(Replace(t, by)) \cup ToSet(Image(token, by))
    BY <2>1, ReplaceType, ImageType, ToSetConcat
  <2>4. ImageTokens(Append(t, token), by) = ImageTokens(t, by) \cup ToSet(Image(token, by))
    <3>1. ToSet(Append(t, token)) = ToSet(t) \cup {token}
      BY <2>1, ToSetAppend
    <3> QED BY <3>1 DEF ImageTokens
  <2> QED BY <1>2, <2>1, <2>2, <2>3, <2>4
<1>3. Seq(Tokens) \subseteq A
  <2> HIDE DEF A
  <2> QED BY <1>1, <1>2, SequenceInduction
<1> QED BY <1>3 DEF Texts

\* A text without references stays as it is.
LEMMA ReplaceNothing ==
  ASSUME NEW text \in Texts, NEW by \in Values, ToSet(text) \cap Fields = {}
  PROVE  Replace(text, by) = text
<1> DEFINE A == {t \in Texts : ToSet(t) \cap Fields = {} => Replace(t, by) = t}
<1>1. <<>> \in A
  BY ReplaceEmpty, EmptySeq DEF Texts
<1>2. ASSUME NEW t \in Seq(Tokens), NEW token \in Tokens, t \in A PROVE Append(t, token) \in A
  <2>1. Append(t, token) \in Texts /\ t \in Texts
    BY AppendProperties DEF Texts
  <2>2. Replace(Append(t, token), by) = Replace(t, by) \o Image(token, by)
    BY <2>1, ReplaceAppend
  <2>3. ASSUME ToSet(Append(t, token)) \cap Fields = {}
        PROVE  Replace(Append(t, token), by) = Append(t, token)
    <3>1. ToSet(t) \cap Fields = {} /\ token \notin Fields
      BY <2>1, <2>3, ToSetAppend
    <3>2. Replace(t, by) = t /\ Image(token, by) = <<token>>
      BY <1>2, <3>1 DEF Image
    <3> QED BY <2>2, <3>2, AppendIsConcat
  <2> QED BY <2>1, <2>3
<1>3. Seq(Tokens) \subseteq A
  <2> HIDE DEF A
  <2> QED BY <1>1, <1>2, SequenceInduction
<1> QED BY <1>3 DEF Texts

-----------------------------------------------------------------------------
(* What a text reaches *)

Closed(fs) == \A g \in fs : References(g) \subseteq fs

LEMMA ReachedType ==
  ASSUME NEW fs
  PROVE  ReachedFrom(fs) \in SUBSET Fields
BY DEF ReachedFrom

LEMMA ReachedHasAll ==
  ASSUME NEW fs \in SUBSET Fields
  PROVE  fs \subseteq ReachedFrom(fs)
BY DEF ReachedFrom

LEMMA ReachedClosed ==
  ASSUME NEW fs
  PROVE  Closed(ReachedFrom(fs))
<1> SUFFICES ASSUME NEW g \in ReachedFrom(fs), NEW f \in References(g)
             PROVE  f \in ReachedFrom(fs)
  BY DEF Closed
<1>1. f \in Fields
  BY DEF References
<1>2. \A s \in SUBSET Fields :
        (fs \subseteq s /\ \A h \in s : References(h) \subseteq s) => f \in s
  BY DEF ReachedFrom
<1> QED BY <1>1, <1>2 DEF ReachedFrom

LEMMA ReachedLeast ==
  ASSUME NEW fs, NEW s \in SUBSET Fields, fs \subseteq s, Closed(s)
  PROVE  ReachedFrom(fs) \subseteq s
BY DEF ReachedFrom, Closed

-----------------------------------------------------------------------------
(* Types *)

LEMMA ValuesType ==
  ASSUME value \in [Fields -> Contents]
  PROVE  value \in Values
BY TextsAssumption DEF Values, Texts, IsText

LEMMA InitTypes == Init => TypeOK
<1> SUFFICES ASSUME Init PROVE TypeOK
  OBVIOUS
<1>1. <<>> \in Seq(Tokens) /\ Len(<<>>) = 0
  BY EmptySeq
<1> QED BY <1>1, LengthAssumption DEF Init, TypeOK, IsText

LEMMA StepTypes == TypeOK /\ [Next]_vars => TypeOK'
<1> SUFFICES ASSUME TypeOK, [Next]_vars PROVE TypeOK'
  OBVIOUS
<1> USE DEF TypeOK
<1>1. ASSUME NEW text \in Templates, RenderGoTemplate(text) PROVE TypeOK'
  BY <1>1, TextsAssumption, LengthAssumption DEF RenderGoTemplate
<1>2. CASE ReRenderFails
  BY <1>2 DEF ReRenderFails
<1>3. CASE ReRender
  <2>1. Expand(previous) \in Texts
    BY ValuesType, ReplaceType, ExpandIsReplace DEF IsText, Texts
  <2> QED BY <1>3, <2>1 DEF ReRender, IsText, Texts
<1>4. CASE UNCHANGED vars
  BY <1>4 DEF vars
<1>5. CASE RenderGoTemplateFails
  BY <1>5 DEF RenderGoTemplateFails
<1> QED BY <1>1, <1>2, <1>3, <1>4, <1>5 DEF Next

\* Every text is a text, and none is longer than the bound.
THEOREM TypeCorrect == Spec => []TypeOK
BY InitTypes, StepTypes, PTL DEF Spec

-----------------------------------------------------------------------------
(* Rendering fails exactly if an action that is reached cannot be rendered *)

\* The tokens in a text, and in the values it reaches.
Ahead(text) ==
  ToSet(text) \cup UNION {ToSet(value[f]) : f \in ReachedFrom(ToSet(text) \cap Fields)}

\* Each pass takes what it yields from the values the first text reaches, and leaves
\* nothing behind that cannot be rendered.
Passes ==
  /\ ToSet(previous) \subseteq Ahead(first)
  /\ Bad \in Ahead(first) => Bad \in Ahead(previous)
  /\ pc = "failed" => ~Renderable(previous)
  /\ pc = "done" => Renderable(previous) /\ previous = Expand(previous)

\* The tokens that one pass yields.
LEMMA ExpandTokens ==
  ASSUME value \in Values, NEW text \in Texts
  PROVE  /\ \A e \in ToSet(Expand(text)) :
              \/ e \in ToSet(text) \ Fields
              \/ \E f \in ToSet(text) \cap Fields : e \in ToSet(value[f])
         /\ \A f \in ToSet(text) \cap Fields : ToSet(value[f]) \subseteq ToSet(Expand(text))
         /\ ToSet(text) \ Fields \subseteq ToSet(Expand(text))
<1>1. ToSet(Expand(text)) = ImageTokens(text, value)
  BY ExpandIsReplace, ReplaceTokens
<1>2. \A token : token \in Fields => ToSet(Image(token, value)) = ToSet(value[token])
  BY DEF Image
<1>3. \A token : token \notin Fields => ToSet(Image(token, value)) = {token}
  BY ToSetOne DEF Image
<1>4. \A e : e \in ToSet(Expand(text)) <=>
               \E token \in ToSet(text) : e \in ToSet(Image(token, value))
  BY <1>1 DEF ImageTokens
<1> QED BY <1>2, <1>3, <1>4

\* What a text has ahead of it, a pass over it stays within.
LEMMA ExpandStays ==
  ASSUME value \in Values, NEW origin \in Texts, NEW text \in Texts,
         ToSet(text) \subseteq Ahead(origin)
  PROVE  ToSet(Expand(text)) \subseteq Ahead(origin)
<1> DEFINE fs == ReachedFrom(ToSet(origin) \cap Fields)
<1>1. Closed(fs) /\ ToSet(origin) \cap Fields \subseteq fs
  BY ReachedClosed, ReachedHasAll
<1>2. ASSUME NEW f \in ToSet(text) \cap Fields PROVE f \in fs
  <2>1. f \in Ahead(origin)
    OBVIOUS
  <2>2. CASE f \in ToSet(origin)
    BY <1>1, <2>2
  <2>3. CASE \E g \in fs : f \in ToSet(value[g])
    <3>1. PICK g \in fs : f \in ToSet(value[g])
      BY <2>3
    <3>2. f \in References(g)
      BY <3>1 DEF References
    <3> QED BY <1>1, <3>2 DEF Closed
  <2> QED BY <2>1, <2>2, <2>3 DEF Ahead
<1>3. ASSUME NEW e \in ToSet(Expand(text)) PROVE e \in Ahead(origin)
  <2>1. CASE e \in ToSet(text)
    BY <2>1
  <2>2. CASE \E f \in ToSet(text) \cap Fields : e \in ToSet(value[f])
    BY <1>2, <2>2 DEF Ahead
  <2> QED BY <2>1, <2>2, ExpandTokens
<1> QED BY <1>3

\* A pass that can be made keeps what cannot be rendered ahead.
LEMMA ExpandKeepsBad ==
  ASSUME value \in Values, NEW text \in Texts, Bad \in Ahead(text), Bad \notin ToSet(text)
  PROVE  Bad \in Ahead(Expand(text))
<1> DEFINE here == ToSet(text) \cap Fields
           there == ToSet(Expand(text)) \cap Fields
           fs == here \cup ReachedFrom(there)
<1>1. Closed(fs)
  <2>1. ASSUME NEW g \in here PROVE References(g) \subseteq ReachedFrom(there)
    <3>1. References(g) \subseteq there
      BY ExpandTokens DEF References
    <3>2. there \subseteq ReachedFrom(there)
      BY ReachedHasAll
    <3> QED BY <3>1, <3>2
  <2>2. ASSUME NEW g \in ReachedFrom(there) PROVE References(g) \subseteq ReachedFrom(there)
    <3>1. Closed(ReachedFrom(there))
      BY ReachedClosed
    <3> QED BY <3>1 DEF Closed
  <2> HIDE DEF here, there
  <2> QED BY <2>1, <2>2 DEF Closed
<1>2. ReachedFrom(here) \subseteq fs
  <2>1. fs \in SUBSET Fields /\ here \subseteq fs
    BY ReachedType
  <2> QED BY <1>1, <2>1, ReachedLeast
<1>3. PICK f \in ReachedFrom(here) : Bad \in ToSet(value[f])
  BY DEF Ahead
<1>4. CASE f \in here
  BY <1>3, <1>4, ExpandTokens DEF Ahead
<1>5. CASE f \in ReachedFrom(there)
  BY <1>3, <1>5 DEF Ahead
<1> QED BY <1>2, <1>3, <1>4, <1>5

\* When a pass changes nothing, nothing that cannot be rendered is ahead.
LEMMA UnchangedHasNoBad ==
  ASSUME value \in Values, NEW text \in Texts, text = Expand(text), Bad \notin ToSet(text)
  PROVE  Bad \notin Ahead(text)
<1> DEFINE here == ToSet(text) \cap Fields
<1>1. \A f \in here : ToSet(value[f]) \subseteq ToSet(text)
  BY ExpandTokens
<1>2. Closed(here)
  BY <1>1 DEF Closed, References
<1>3. ReachedFrom(here) \subseteq here
  BY <1>2, ReachedLeast
<1> QED BY <1>1, <1>3 DEF Ahead

LEMMA InitPasses == Init => Passes
<1> SUFFICES ASSUME Init PROVE Passes
  OBVIOUS
<1>1. first = previous /\ pc = "start"
  BY DEF Init
<1> QED BY <1>1 DEF Passes, Ahead

LEMMA StepPasses == TypeOK /\ Passes /\ [Next]_vars => Passes'
<1> SUFFICES ASSUME TypeOK, Passes, [Next]_vars PROVE Passes'
  OBVIOUS
<1>0. value \in Values /\ first \in Texts /\ previous \in Texts
  BY ValuesType DEF TypeOK, IsText, Texts
<1>1. ASSUME NEW text \in Templates, RenderGoTemplate(text) PROVE Passes'
  <2>1. first' = previous' /\ pc' = "loop"
    BY <1>1 DEF RenderGoTemplate
  <2> QED BY <2>1 DEF Passes, Ahead
<1>2. CASE ReRenderFails
  BY <1>2 DEF ReRenderFails, Passes, Ahead, ReachedFrom, References, Renderable
<1>3. CASE ReRender
  <2>1. /\ value' = value /\ first' = first /\ previous' = Expand(previous)
        /\ Bad \notin ToSet(previous)
        /\ pc' = "done" => Expand(previous) = previous
        /\ pc' # "failed"
    BY <1>3 DEF ReRender, Renderable
  <2>2. ToSet(Expand(previous)) \subseteq Ahead(first)
    BY <1>0, ExpandStays DEF Passes
  <2>3. Bad \in Ahead(first) => Bad \in Ahead(Expand(previous))
    BY <1>0, <2>1, ExpandKeepsBad DEF Passes
  <2>4. Ahead(first)' = Ahead(first)
    BY <2>1 DEF Ahead, ReachedFrom, References
  <2>5. Ahead(previous)' = Ahead(Expand(previous))
    BY <2>1 DEF Ahead, ReachedFrom, References
  <2>6. pc' = "done" => Renderable(previous)' /\ previous' = Expand(previous)'
    BY <2>1 DEF Renderable, Expand, ValueOf
  <2> QED BY <2>1, <2>2, <2>3, <2>4, <2>5, <2>6 DEF Passes
<1>4. CASE UNCHANGED vars
  BY <1>4 DEF vars, Passes, Ahead, ReachedFrom, References, Renderable, Expand, ValueOf
<1>5. CASE RenderGoTemplateFails
  BY <1>5 DEF RenderGoTemplateFails, Passes, Ahead, ReachedFrom, References, Renderable, Expand, ValueOf
<1> QED BY <1>1, <1>2, <1>3, <1>4, <1>5 DEF Next

LEMMA PassesFail == TypeOK /\ Passes => FailsIfBadReached
<1> SUFFICES ASSUME TypeOK, Passes PROVE FailsIfBadReached
  OBVIOUS
<1>1. value \in Values /\ previous \in Texts
  BY ValuesType DEF TypeOK, IsText, Texts
<1>2. pc = "done" => Bad \notin Ahead(previous)
  BY <1>1, UnchangedHasNoBad DEF Passes, Renderable
<1>3. pc = "failed" => Bad \in Ahead(first)
  BY DEF Passes, Renderable
<1>4. pc = "done" => Bad \notin Ahead(first)
  BY <1>2 DEF Passes
<1> QED BY <1>3, <1>4 DEF FailsIfBadReached, Reached, Ahead

\* Given the text that the named template yields, renderObject fails if one of the values
\* that this text reaches, however deep, cannot be rendered, and only then.  (Where the
\* named template itself cannot be executed there is no such text.)
THEOREM FailsExactlyIfBad == Spec => []FailsIfBadReached
BY InitTypes, StepTypes, InitPasses, StepPasses, PassesFail, PTL DEF Spec

-----------------------------------------------------------------------------
(* Values in full *)

Depth == Cardinality(Fields)

LEMMA DepthType == Depth \in Nat
BY TokensAssumption, FS_CardinalityType DEF Depth

\* What ValueInFull chooses: the values, and each time the values with these in them.
OneLevel(by) == [f \in Fields |-> Replace(value[f], by)]
Levels(g, n) == g = [i \in 0..n |-> IF i = 0 THEN value ELSE OneLevel(g[i - 1])]

LEMMA LevelsAt ==
  ASSUME NEW n \in Nat, NEW g, Levels(g, n)
  PROVE  \A i \in 0..n : g[i] = IF i = 0 THEN value ELSE OneLevel(g[i - 1])
BY DEF Levels

LEMMA LevelsExist == \A n \in Nat : \E g : Levels(g, n)
<1> DEFINE B == {n \in Nat : \E g : Levels(g, n)}
<1>1. 0 \in B
  <2> DEFINE h == [i \in 0..0 |-> value]
  <2>1. h = [i \in 0..0 |-> IF i = 0 THEN value ELSE OneLevel(h[i - 1])]
    OBVIOUS
  <2>2. Levels(h, 0)
    BY <2>1 DEF Levels
  <2> QED BY <2>2
<1>2. ASSUME NEW n \in Nat, n \in B PROVE n + 1 \in B
  <2>1. PICK g : Levels(g, n)
    BY <1>2
  <2> DEFINE h == [i \in 0..n + 1 |-> IF i = 0 THEN value ELSE OneLevel(g[i - 1])]
  <2>2. \A i \in 0..n : h[i] = g[i]
    BY <2>1, LevelsAt
  <2>3. \A i \in 0..n + 1 : i # 0 => i - 1 \in 0..n
    OBVIOUS
  <2>4. \A i \in 0..n + 1 : i # 0 => h[i - 1] = g[i - 1]
    <3> HIDE DEF h
    <3> QED BY <2>2, <2>3
  <2>5. h = [i \in 0..n + 1 |-> IF i = 0 THEN value ELSE OneLevel(h[i - 1])]
    BY <2>4
  <2>6. Levels(h, n + 1)
    BY <2>5 DEF Levels
  <2> QED BY <2>6
<1>3. Nat \subseteq B
  <2> HIDE DEF B
  <2> QED BY <1>1, <1>2, Induction
<1> QED BY <1>3

LEMMA FullIsLevels == Levels(ValueInFull, Depth)
<1>1. ValueInFull = CHOOSE g : Levels(g, Depth)
  BY DEF ValueInFull, Levels, OneLevel, Depth
<1> QED BY <1>1, LevelsExist, DepthType

LEMMA FullAt ==
  /\ ValueInFull[0] = value
  /\ \A n \in Nat : n + 1 \in 0..Depth =>
        ValueInFull[n + 1] = [f \in Fields |-> Replace(value[f], ValueInFull[n])]
<1>1. \A i \in 0..Depth : ValueInFull[i] =
        IF i = 0 THEN value ELSE OneLevel(ValueInFull[i - 1])
  BY FullIsLevels, LevelsAt, DepthType
<1>2. ValueInFull[0] = value
  BY <1>1, DepthType
<1>3. ASSUME NEW n \in Nat, n + 1 \in 0..Depth
      PROVE  ValueInFull[n + 1] = [f \in Fields |-> Replace(value[f], ValueInFull[n])]
  <2> DEFINE i == n + 1
  <2>1. i \in 0..Depth /\ i # 0 /\ i - 1 = n
    BY <1>3
  <2> HIDE DEF i
  <2>2. ValueInFull[i] = OneLevel(ValueInFull[n])
    BY <1>1, <2>1
  <2> QED BY <2>2 DEF i, OneLevel
<1> QED BY <1>2, <1>3

LEMMA FullType ==
  ASSUME value \in Values
  PROVE  \A n \in 0..Depth : ValueInFull[n] \in Values
<1> DEFINE B == {n \in Nat : n \in 0..Depth => ValueInFull[n] \in Values}
<1>1. 0 \in B
  BY FullAt
<1>2. ASSUME NEW n \in Nat, n \in B PROVE n + 1 \in B
  <2> SUFFICES ASSUME n + 1 \in 0..Depth PROVE ValueInFull[n + 1] \in Values
    OBVIOUS
  <2>1. ValueInFull[n] \in Values
    BY <1>2, DepthType
  <2>2. \A f \in Fields : value[f] \in Texts
    BY DEF Values
  <2>3. \A f \in Fields : Replace(value[f], ValueInFull[n]) \in Texts
    BY <2>1, <2>2, ReplaceType
  <2>4. ValueInFull[n + 1] = [f \in Fields |-> Replace(value[f], ValueInFull[n])]
    BY FullAt
  <2> QED BY <2>3, <2>4 DEF Values
<1>3. Nat \subseteq B
  <2> HIDE DEF B
  <2> QED BY <1>1, <1>2, Induction
<1> QED BY <1>3

-----------------------------------------------------------------------------
(* Without circles, references come to an end *)

LEMMA HeightType ==
  ASSUME NEW f \in Fields
  PROVE  /\ Height(f) \in Nat
         /\ Height(f) <= Depth
         /\ f \notin Below(f) => Height(f) + 1 <= Depth
<1>1. IsFiniteSet(Fields) /\ Below(f) \in SUBSET Fields
  BY TokensAssumption, ReachedType DEF Below
<1>2. IsFiniteSet(Below(f)) /\ Height(f) <= Depth /\ (Depth = Height(f) => Fields = Below(f))
  BY <1>1, FS_Subset DEF Height, Depth
<1>3. Height(f) \in Nat
  BY <1>2, FS_CardinalityType DEF Height
<1> QED BY <1>2, <1>3, DepthType

\* A field that a value refers to has less below it.
LEMMA HeightDecreases ==
  ASSUME NEW f \in Fields, NEW g \in References(f), g \notin Below(g)
  PROVE  Height(g) < Height(f)
<1>1. References(f) \in SUBSET Fields /\ g \in Fields
  BY DEF References
<1>2. g \in Below(f) /\ Closed(Below(f)) /\ Below(f) \in SUBSET Fields
  BY <1>1, ReachedHasAll, ReachedClosed, ReachedType DEF Below
<1>3. Below(g) \subseteq Below(f)
  BY <1>2, ReachedLeast DEF Below, Closed
<1>4. IsFiniteSet(Below(f))
  BY <1>2, TokensAssumption, FS_Subset
<1>5. Height(g) <= Height(f) /\ (Height(f) = Height(g) => Below(f) = Below(g))
  BY <1>3, <1>4, FS_Subset DEF Height
<1> QED BY <1>1, <1>2, <1>5, HeightType

LEMMA ReachedRefersToReached ==
  ASSUME NEW f \in Reached
  PROVE  References(f) \subseteq Reached
BY ReachedClosed DEF Reached, Closed

\* As deep as references nest, one more level changes nothing.
LEMMA DeepEnough ==
  ASSUME value \in Values, Acyclic
  PROVE  \A n \in Nat : n + 1 <= Depth =>
           \A f \in Reached : Height(f) <= n => ValueInFull[n + 1][f] = ValueInFull[n][f]
<1> DEFINE Steady(n) == n + 1 <= Depth =>
             \A f \in Reached : Height(f) <= n => ValueInFull[n + 1][f] = ValueInFull[n][f]
           B == {n \in Nat : Steady(n)}
<1>0. Reached \subseteq Fields
  BY ReachedType DEF Reached
<1>1. 0 \in B
  <2> SUFFICES ASSUME 0 + 1 <= Depth, NEW f \in Reached, Height(f) <= 0
               PROVE  ValueInFull[0 + 1][f] = ValueInFull[0][f]
    OBVIOUS
  <2>1. 0 + 1 \in 0..Depth /\ 0 \in 0..Depth
    BY DepthType
  <2>2. ValueInFull[0 + 1][f] = Replace(value[f], ValueInFull[0])
    BY <1>0, <2>1, FullAt
  <2>3. References(f) = {}
    <3> SUFFICES ASSUME NEW g \in References(f) PROVE FALSE
      OBVIOUS
    <3>1. g \in Reached
      BY ReachedRefersToReached
    <3>2. g \notin Below(g)
      BY <3>1 DEF Acyclic
    <3>3. Height(g) < Height(f) /\ Height(f) \in Nat /\ Height(g) \in Nat
      BY <1>0, <3>1, <3>2, HeightDecreases, HeightType
    <3> QED BY <3>3
  <2>4. value[f] \in Texts /\ ValueInFull[0] \in Values
    BY <1>0, <2>1, FullType DEF Values
  <2>5. Replace(value[f], ValueInFull[0]) = value[f]
    BY <2>3, <2>4, ReplaceNothing DEF References
  <2> QED BY <2>2, <2>5, FullAt
<1>2. ASSUME NEW n \in Nat, n \in B PROVE n + 1 \in B
  <2> SUFFICES ASSUME n + 1 + 1 <= Depth, NEW f \in Reached, Height(f) <= n + 1
               PROVE  ValueInFull[n + 1 + 1][f] = ValueInFull[n + 1][f]
    OBVIOUS
  <2>1. n + 1 \in 0..Depth /\ n + 1 + 1 \in 0..Depth /\ n + 1 \in Nat /\ n + 1 <= Depth
    BY DepthType
  <2>2. ValueInFull[n + 1 + 1][f] = Replace(value[f], ValueInFull[n + 1])
    BY <1>0, <2>1, FullAt
  <2>3. ValueInFull[n + 1][f] = Replace(value[f], ValueInFull[n])
    BY <1>0, <2>1, FullAt
  <2>4. \A g \in References(f) : ValueInFull[n + 1][g] = ValueInFull[n][g]
    <3> SUFFICES ASSUME NEW g \in References(f) PROVE ValueInFull[n + 1][g] = ValueInFull[n][g]
      OBVIOUS
    <3>1. g \in Reached
      BY ReachedRefersToReached
    <3>2. g \notin Below(g)
      BY <3>1 DEF Acyclic
    <3>3. Height(g) < Height(f) /\ Height(f) \in Nat /\ Height(g) \in Nat
      BY <1>0, <3>1, <3>2, HeightDecreases, HeightType
    <3>4. Height(g) <= n
      BY <3>3
    <3> QED BY <1>2, <2>1, <3>1, <3>4
  <2>5. Replace(value[f], ValueInFull[n + 1]) = Replace(value[f], ValueInFull[n])
    BY <2>4, ReplaceSame DEF References
  <2> QED BY <2>2, <2>3, <2>5
<1>3. Nat \subseteq B
  <2> HIDE DEF B
  <2> QED BY <1>1, <1>2, Induction
<1> QED BY <1>3

\* In full, a value is the value with the values in full in it.
LEMMA FullIsFull ==
  ASSUME value \in Values, Acyclic, NEW f \in Reached
  PROVE  Replace(value[f], ValueInFull[Depth]) = ValueInFull[Depth][f]
<1>0. Reached \subseteq Fields
  BY ReachedType DEF Reached
<1> DEFINE n == Depth - 1
<1>1. n \in Nat /\ n + 1 = Depth /\ n + 1 \in 0..Depth
  BY <1>0, HeightType, DepthType DEF Acyclic
<1> HIDE DEF n
<1>2. ValueInFull[n + 1][f] = Replace(value[f], ValueInFull[n])
  BY <1>0, <1>1, FullAt
<1>3. \A g \in References(f) : ValueInFull[n + 1][g] = ValueInFull[n][g]
  <2> SUFFICES ASSUME NEW g \in References(f) PROVE ValueInFull[n + 1][g] = ValueInFull[n][g]
    OBVIOUS
  <2>1. g \in Reached
    BY ReachedRefersToReached
  <2>2. Height(g) <= n
    BY <1>0, <1>1, <2>1, HeightType, DepthType DEF Acyclic
  <2> QED BY <1>1, <2>1, <2>2, DeepEnough, DepthType
<1>4. Replace(value[f], ValueInFull[n + 1]) = Replace(value[f], ValueInFull[n])
  BY <1>3, ReplaceSame DEF References
<1> QED BY <1>1, <1>2, <1>4

-----------------------------------------------------------------------------
(* Rendered in full *)

InFullOf(text) == Replace(text, ValueInFull[Depth])

\* What is left to do never changes: the text rendered last is, in full, what the first is.
SameInFull == Acyclic => InFullOf(previous) = InFullOf(first)

LEMMA AheadIsReached ==
  ASSUME NEW f \in Ahead(first) \cap Fields
  PROVE  f \in Reached
<1> DEFINE fs == ReachedFrom(ToSet(first) \cap Fields)
<1>1. Closed(fs) /\ ToSet(first) \cap Fields \subseteq fs
  BY ReachedClosed, ReachedHasAll
<1>2. CASE f \in ToSet(first)
  BY <1>1, <1>2 DEF Reached
<1>3. CASE \E g \in fs : f \in ToSet(value[g])
  <2>1. PICK g \in fs : f \in ToSet(value[g])
    BY <1>3
  <2>2. f \in References(g)
    BY <2>1 DEF References
  <2> QED BY <1>1, <2>1, <2>2 DEF Closed, Reached
<1> QED BY <1>2, <1>3 DEF Ahead

LEMMA ExpandInFull ==
  ASSUME value \in Values, Acyclic, NEW text \in Texts, ToSet(text) \subseteq Ahead(first)
  PROVE  InFullOf(Expand(text)) = InFullOf(text)
<1> DEFINE full == ValueInFull[Depth]
<1>1. full \in Values
  BY FullType, DepthType
<1>2. \A f \in ToSet(text) \cap Fields : Twice(value, full)[f] = full[f]
  <2> SUFFICES ASSUME NEW f \in ToSet(text) \cap Fields PROVE Twice(value, full)[f] = full[f]
    OBVIOUS
  <2>1. f \in Reached
    BY AheadIsReached
  <2>2. Replace(value[f], full) = full[f]
    BY <2>1, FullIsFull
  <2> HIDE DEF full
  <2> QED BY <2>2 DEF Twice
<1> HIDE DEF full
<1>3. Replace(Replace(text, value), full) = Replace(text, Twice(value, full))
  BY <1>1, ReplaceTwice
<1>4. Replace(text, Twice(value, full)) = Replace(text, full)
  BY <1>2, ReplaceSame
<1> QED BY <1>3, <1>4, ExpandIsReplace DEF InFullOf, full

\* A text that a pass does not change has no references, unless they are circular: the
\* one with the most below it would be in the value of another one.
LEMMA UnchangedHasNoFields ==
  ASSUME value \in Values, Acyclic, NEW text \in Texts, ToSet(text) \subseteq Ahead(first),
         text = Expand(text)
  PROVE  ToSet(text) \cap Fields = {}
<1> DEFINE here == ToSet(text) \cap Fields
           Left(f) == Depth - Height(f)
           lefts == {Left(f) : f \in here}
<1>1. \A f \in here : f \in Fields /\ f \in Reached /\ f \notin Below(f)
  BY AheadIsReached DEF Acyclic
<1>2. \A f \in here : Height(f) \in Nat /\ Left(f) \in Nat
  BY <1>1, HeightType, DepthType
<1>3. \A f \in here : \E g \in here : f \in References(g)
  BY ExpandTokens DEF References
<1> SUFFICES ASSUME here # {} PROVE FALSE
  OBVIOUS
<1>4. lefts \in SUBSET Nat /\ lefts # {}
  BY <1>2
<1>5. PICK m \in lefts : \A k \in lefts : m <= k
  <2> HIDE DEF lefts
  <2> QED BY <1>4, LeastElement
<1>6. PICK f \in here : m = Left(f)
  BY <1>5
<1>7. PICK g \in here : f \in References(g)
  BY <1>3, <1>6
<1>8. Height(f) < Height(g)
  BY <1>1, <1>6, <1>7, HeightDecreases
<1>9. Left(f) <= Left(g)
  BY <1>5, <1>6, <1>7
<1> QED BY <1>2, <1>6, <1>7, <1>8, <1>9, DepthType

LEMMA InitInFull == Init => SameInFull
<1> SUFFICES ASSUME Init PROVE SameInFull
  OBVIOUS
<1>1. first = previous
  BY DEF Init
<1> QED BY <1>1 DEF SameInFull

LEMMA StepInFull == TypeOK /\ Passes /\ SameInFull /\ [Next]_vars => SameInFull'
<1> SUFFICES ASSUME TypeOK, Passes, SameInFull, [Next]_vars PROVE SameInFull'
  OBVIOUS
<1>1. ASSUME NEW text \in Templates, RenderGoTemplate(text) PROVE SameInFull'
  <2>1. first' = previous'
    BY <1>1 DEF RenderGoTemplate
  <2> QED BY <2>1 DEF SameInFull
<1>2. ASSUME value' = value, first' = first,
             Acyclic => InFullOf(previous') = InFullOf(previous)
      PROVE  SameInFull'
  <2>1. Acyclic' = Acyclic
    BY <1>2 DEF Acyclic, Below, Reached, ReachedFrom, References
  <2>2. ValueInFull' = ValueInFull
    BY <1>2 DEF ValueInFull
  <2>3. InFullOf(first)' = InFullOf(first) /\ InFullOf(previous)' = InFullOf(previous')
    BY <1>2, <2>2 DEF InFullOf
  <2> QED BY <1>2, <2>1, <2>3 DEF SameInFull
<1>3. CASE ReRenderFails
  BY <1>2, <1>3 DEF ReRenderFails
<1>4. CASE ReRender
  <2>1. value' = value /\ first' = first /\ previous' = Expand(previous)
    BY <1>4 DEF ReRender
  <2>2. value \in Values /\ previous \in Texts
    BY ValuesType DEF TypeOK, IsText, Texts
  <2>3. Acyclic => InFullOf(Expand(previous)) = InFullOf(previous)
    BY <2>2, ExpandInFull DEF Passes
  <2> QED BY <1>2, <2>1, <2>3
<1>5. CASE UNCHANGED vars
  BY <1>2, <1>5 DEF vars
<1>6. CASE RenderGoTemplateFails
  BY <1>2, <1>6 DEF RenderGoTemplateFails
<1> QED BY <1>1, <1>3, <1>4, <1>5, <1>6 DEF Next

LEMMA SameIsRendered == TypeOK /\ Passes /\ SameInFull => RenderedInFull
<1> SUFFICES ASSUME TypeOK, Passes, SameInFull, pc = "done", Acyclic PROVE previous = InFull
  BY DEF RenderedInFull
<1>1. value \in Values /\ previous \in Texts /\ ValueInFull[Depth] \in Values
  BY ValuesType, FullType, DepthType DEF TypeOK, IsText, Texts
<1>2. ToSet(previous) \cap Fields = {}
  BY <1>1, UnchangedHasNoFields DEF Passes
<1>3. InFullOf(previous) = previous
  BY <1>1, <1>2, ReplaceNothing DEF InFullOf
<1> QED BY <1>3 DEF SameInFull, InFullOf, InFull, Depth

\* What renderObject returns, pass after pass from the outside in, is the text with every
\* value in full in it, from the inside out, unless a value that it reaches refers to itself.
THEOREM AllReferencesReplaced == Spec => []RenderedInFull
BY InitTypes, StepTypes, InitPasses, StepPasses, InitInFull, StepInFull, SameIsRendered, PTL
   DEF Spec

-----------------------------------------------------------------------------
(* Passes descend *)

LEMMA ExpandDescends ==
  ASSUME value \in Values, Acyclic, NEW text \in Texts, ToSet(text) \subseteq Ahead(first),
         NEW f \in ToSet(Expand(text)) \cap Fields
  PROVE  \E g \in ToSet(text) \cap Fields : Height(f) < Height(g)
<1>1. PICK g \in ToSet(text) \cap Fields : f \in References(g)
  BY ExpandTokens DEF References
<1>2. f \in Reached
  <2>1. g \in Reached
    BY AheadIsReached
  <2> QED BY <1>1, <2>1, ReachedRefersToReached
<1>3. f \notin Below(f)
  BY <1>2 DEF Acyclic
<1> QED BY <1>1, <1>3, HeightDecreases

\* renderObject's loop descends along the references, from the first text to values that
\* have none: the rank by which it ends.
THEOREM EveryPassDescends == Spec => PassesDescend
<1>1. TypeOK /\ Passes /\ [Next]_vars =>
        [pc = "loop" /\ Acyclic /\ previous' # previous =>
           \A f \in ToSet(previous') \cap Fields :
             \E g \in ToSet(previous) \cap Fields : Height(f) < Height(g)]_vars
  <2> SUFFICES ASSUME TypeOK, Passes, Next, pc = "loop", Acyclic, previous' # previous,
                      NEW f \in ToSet(previous') \cap Fields
               PROVE  \E g \in ToSet(previous) \cap Fields : Height(f) < Height(g)
    OBVIOUS
  <2>1. previous' = Expand(previous)
    BY DEF Next, RenderGoTemplate, RenderGoTemplateFails, ReRenderFails, ReRender
  <2>2. value \in Values /\ previous \in Texts
    BY ValuesType DEF TypeOK, IsText, Texts
  <2> QED BY <2>1, <2>2, ExpandDescends DEF Passes
<1> QED BY <1>1, InitTypes, StepTypes, InitPasses, StepPasses, PTL DEF Spec, PassesDescend
===============================================================================
