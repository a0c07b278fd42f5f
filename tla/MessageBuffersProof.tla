------------------------- MODULE MessageBuffersProof -------------------------
(***************************************************************************)
(* Proof that every message reads as what it was built from, and that its  *)
(* encoding is canonical, for all builders of all messages.                *)
(*                                                                         *)
(* A value is its type, its cells and its leaves.  It is well-made (Well)  *)
(* if it belongs to a set of values each of which is a scalar, bytes, or   *)
(* composed of others of the set: its cells are theirs, one after the      *)
(* other, and so are its leaves.  Three things follow of a well-made       *)
(* value: the getters find its parts where they are (MadeParts), another   *)
(* one of the type has the same cells exactly when it has the same leaves  *)
(* (CanonicalValues), and a part is overwritten without disturbing another *)
(* (Overwriting).                                                          *)
(*                                                                         *)
(* Every builder makes a well-made value, since the fields of all schemes  *)
(* are those their Write puts (SchemesAre), with names of their own.  That *)
(* buffers remain so is the inductive invariant (BuffersInv).              *)
(***************************************************************************)
EXTENDS MessageBuffers, SequenceTheorems, WellFoundedInduction, NaturalsInduction, TLAPS

---------------------------------------------------------------------------
(* Induction on the naturals, as a fact about sets.                        *)

LEMMA NatSetInduction ==
  ASSUME NEW S, 0 \in S, \A n \in Nat : n \in S => n + 1 \in S
  PROVE  \A n \in Nat : n \in S
<1> DEFINE R == OpToRel(<, Nat)
           T == Nat \ S
<1>1. SUFFICES ASSUME T # {} PROVE FALSE
  OBVIOUS
<1>2. IsWellFoundedOn(R, Nat)
  BY NatLessThanWellFounded
<1>3. ASSUME NEW x \in Nat, NEW y \in Nat, y < x
      PROVE  <<y, x>> \in R
  BY <1>3 DEF OpToRel
<1>. HIDE DEF R
<1>4. T \subseteq Nat
  OBVIOUS
<1>5. PICK x \in T : \A y \in T : ~ (<<y, x>> \in R)
  BY <1>1, <1>2, <1>4, WFMin
<1>6. x \in Nat /\ x \notin S
  OBVIOUS
<1>7. x # 0
  BY <1>6
<1>8. x - 1 \in Nat /\ x - 1 < x /\ (x - 1) + 1 = x
  BY <1>6, <1>7
<1>9. x - 1 \in S
  BY <1>3, <1>5, <1>6, <1>8
<1> QED
  BY <1>6, <1>8, <1>9

---------------------------------------------------------------------------
(* Cells.                                                                  *)

LEMMA OneCell ==
  ASSUME NEW tag, NEW n, <<tag, n>> \in Cell
  PROVE  /\ <<<<tag, n>>>> \in Seq(Cell)
         /\ Len(<<<<tag, n>>>>) = 1
         /\ <<<<tag, n>>>>[1] = <<tag, n>>
OBVIOUS

LEMMA HeaderCell ==
  ASSUME NEW cells \in Seq(Cell)
  PROVE  /\ <<"size", Len(cells)>> \in Cell
         /\ WithHeader(cells) \in Seq(Cell)
         /\ Len(WithHeader(cells)) = Len(cells) + 1
         /\ WithHeader(cells)[1] = <<"size", Len(cells)>>
         /\ \A i \in 1 .. Len(cells) : WithHeader(cells)[i + 1] = cells[i]
<1>1. <<"size", Len(cells)>> \in Cell
  <2>1. Len(cells) \in Nat
    BY LenProperties
  <2>2. "size" \in Tag
    BY DEF Tag
  <2> QED
    BY <2>1, <2>2 DEF Cell
<1>2. <<<<"size", Len(cells)>>>> \in Seq(Cell) /\ Len(<<<<"size", Len(cells)>>>>) = 1
      /\ <<<<"size", Len(cells)>>>>[1] = <<"size", Len(cells)>>
  BY <1>1, OneCell
<1> QED
  BY <1>1, <1>2, ConcatProperties DEF WithHeader

\* What comes first in a sequence.
LEMMA ConcatFrom ==
  ASSUME NEW s \in Seq(Cell), NEW t \in Seq(Cell)
  PROVE  /\ From(s \o t, Len(s)) = t
         /\ SubSeq(s \o t, 1, Len(s)) = s
<1>1. /\ s \o t \in Seq(Cell) /\ Len(s \o t) = Len(s) + Len(t)
      /\ Len(s) \in Nat /\ Len(t) \in Nat
      /\ \A i \in 1 .. Len(s) + Len(t) :
           (s \o t)[i] = IF i <= Len(s) THEN s[i] ELSE t[i - Len(s)]
  BY ConcatProperties, LenProperties
<1>2. \A i \in Len(s) + 1 .. Len(s) + Len(t) : (s \o t)[i] \in Cell
  BY <1>1, ElementOfSeq
<1>3. /\ From(s \o t, Len(s)) \in Seq(Cell)
      /\ Len(From(s \o t, Len(s))) = Len(t)
      /\ \A i \in 1 .. Len(t) : From(s \o t, Len(s))[i] = t[i]
  BY <1>1, <1>2, SubSeqProperties DEF From
<1>4. \A i \in 1 .. Len(s) : (s \o t)[i] \in Cell
  BY <1>1, ElementOfSeq
<1>5. /\ SubSeq(s \o t, 1, Len(s)) \in Seq(Cell)
      /\ Len(SubSeq(s \o t, 1, Len(s))) = Len(s)
      /\ \A i \in 1 .. Len(s) : SubSeq(s \o t, 1, Len(s))[i] = s[i]
  BY <1>1, <1>4, SubSeqProperties
<1> QED
  BY <1>3, <1>5, SeqEqual

LEMMA InsideHeader ==
  ASSUME NEW cells \in Seq(Cell), NEW more \in Seq(Cell)
  PROVE  Inside(WithHeader(cells) \o more) = cells
<1> DEFINE c == WithHeader(cells) \o more
<1>1. /\ c \in Seq(Cell) /\ Len(c) = Len(cells) + 1 + Len(more)
      /\ Len(cells) \in Nat /\ Len(more) \in Nat
      /\ c[1] = <<"size", Len(cells)>>
      /\ \A i \in 1 .. Len(cells) : c[i + 1] = cells[i]
  <2>1. Len(cells) \in Nat /\ Len(more) \in Nat
    BY LenProperties
  <2>2. /\ WithHeader(cells) \in Seq(Cell)
        /\ Len(WithHeader(cells)) = Len(cells) + 1
        /\ WithHeader(cells)[1] = <<"size", Len(cells)>>
        /\ \A i \in 1 .. Len(cells) : WithHeader(cells)[i + 1] = cells[i]
    BY HeaderCell
  <2>3. /\ c \in Seq(Cell) /\ Len(c) = Len(cells) + 1 + Len(more)
        /\ \A i \in 1 .. Len(cells) + 1 + Len(more) :
             c[i] = IF i <= Len(cells) + 1 THEN WithHeader(cells)[i]
                    ELSE more[i - (Len(cells) + 1)]
    <3>1. PICK h \in Seq(Cell) : h = WithHeader(cells)
      BY <2>2
    <3>2. /\ h \o more \in Seq(Cell) /\ Len(h \o more) = Len(h) + Len(more)
          /\ \A i \in 1 .. Len(h) + Len(more) :
               (h \o more)[i] = IF i <= Len(h) THEN h[i] ELSE more[i - Len(h)]
      BY ConcatProperties
    <3> QED
      BY <2>2, <3>1, <3>2
  <2>4. 1 \in 1 .. Len(cells) + 1 + Len(more) /\ 1 <= Len(cells) + 1
    BY <2>1
  <2>5. \A i \in 1 .. Len(cells) : i + 1 \in 1 .. Len(cells) + 1 + Len(more) /\ i + 1 <= Len(cells) + 1
    BY <2>1
  <2>. HIDE DEF c
  <2> QED
    BY <2>1, <2>2, <2>3, <2>4, <2>5
<1>. HIDE DEF c
<1>2. c # <<>>
  BY <1>1
<1>3. First(c, "size") = Len(cells)
  BY <1>1, <1>2 DEF First
<1>4. Inside(c) = SubSeq(c, 2, Len(cells) + 1)
  BY <1>1, <1>3 DEF Inside
<1>5. \A i \in 2 .. Len(cells) + 1 : c[i] \in Cell
  BY <1>1, ElementOfSeq
<1>6. /\ SubSeq(c, 2, Len(cells) + 1) \in Seq(Cell)
      /\ Len(SubSeq(c, 2, Len(cells) + 1)) = Len(cells)
      /\ \A i \in 1 .. Len(cells) : SubSeq(c, 2, Len(cells) + 1)[i] = c[i + 1]
  BY <1>1, <1>5, SubSeqProperties
<1> QED
  BY <1>1, <1>4, <1>6, SeqEqual DEF c

LEMMA InsideHeaderAlone ==
  ASSUME NEW cells \in Seq(Cell)
  PROVE  Inside(WithHeader(cells)) = cells
<1>1. WithHeader(cells) \o <<>> = WithHeader(cells) /\ <<>> \in Seq(Cell)
  BY HeaderCell, ConcatEmptySeq
<1> QED
  BY <1>1, InsideHeader

---------------------------------------------------------------------------
(* What FlattenSeq makes of sequences of cells: up[i] is the first i of    *)
(* them, one after the other.                                              *)

Flat(s, up) ==
  /\ up \in [0 .. Len(s) -> Seq(Cell)]
  /\ up[0] = <<>>
  /\ \A i \in 1 .. Len(s) : up[i] = up[i - 1] \o s[i]

\* FlattenSeq's own recursion, up to n.
FlattenUpTo(g, n, s) ==
  g = [i \in 1 .. n |-> IF i = 1 THEN s[i] ELSE g[i - 1] \o s[i]]

LEMMA FlattenUpToExists ==
  ASSUME NEW s
  PROVE  \A n \in Nat : \E g : FlattenUpTo(g, n, s)
<1> DEFINE Is(g, n) == FlattenUpTo(g, n, s)
           S == {n \in Nat : \E g : Is(g, n)}
<1>1. 0 \in S
  <2>1. PICK g : g = [i \in 1 .. 0 |-> s[i]]
    OBVIOUS
  <2>2. 1 .. 0 = {}
    OBVIOUS
  <2>3. Is(g, 0)
    BY <2>1, <2>2 DEF FlattenUpTo
  <2> QED
    BY <2>3
<1>2. ASSUME NEW n \in Nat, n \in S
      PROVE  n + 1 \in S
  <2>1. PICK g : Is(g, n)
    BY <1>2
  <2>2. PICK last : last = IF n = 0 THEN s[1] ELSE g[n] \o s[n + 1]
    OBVIOUS
  <2>3. PICK h : h = [k \in 1 .. n + 1 |-> IF k <= n THEN g[k] ELSE last]
    OBVIOUS
  <2>4. (\A k \in 1 .. n : h[k] = g[k]) /\ h[n + 1] = last
    BY <2>3
  <2>5. ASSUME NEW k \in 1 .. n + 1
        PROVE  h[k] = IF k = 1 THEN s[k] ELSE h[k - 1] \o s[k]
    <3>1. CASE k \in 1 .. n
      <4>1. g[k] = IF k = 1 THEN s[k] ELSE g[k - 1] \o s[k]
        BY <2>1, <3>1 DEF FlattenUpTo
      <4>2. k # 1 => h[k - 1] = g[k - 1]
        BY <2>4, <3>1
      <4> QED
        BY <2>4, <3>1, <4>1, <4>2
    <3>2. CASE k = n + 1 /\ n = 0
      BY <2>2, <2>4, <3>2
    <3>3. CASE k = n + 1 /\ n # 0
      <4>1. h[k - 1] = g[n] /\ k # 1
        BY <2>4, <3>3
      <4> QED
        BY <2>2, <2>4, <3>3, <4>1
    <3> QED
      BY <3>1, <3>2, <3>3
  <2>6. Is(h, n + 1)
    BY <2>3, <2>5 DEF FlattenUpTo
  <2> QED
    BY <2>6
<1>. HIDE DEF S, Is
<1>3. \A n \in Nat : n \in S
  BY <1>1, <1>2, NatSetInduction
<1> QED
  BY <1>3 DEF S, Is

LEMMA FlattenIs ==
  ASSUME NEW s \in Seq(Seq(Cell))
  PROVE  \E up : Flat(s, up) /\ FlattenSeq(s) = up[Len(s)]
<1>1. PICK n \in Nat : n = Len(s)
  BY LenProperties
<1>2. CASE n = 0
  <2>1. PICK up : up = [i \in 0 .. 0 |-> <<>>]
    OBVIOUS
  <2>2. FlattenSeq(s) = s
    BY <1>1, <1>2, Zenon DEF FlattenSeq
  <2>3. s = <<>> /\ <<>> \in Seq(Cell)
    BY <1>1, <1>2, EmptySeq
  <2>4. up \in [0 .. 0 -> Seq(Cell)] /\ up[0] = <<>> /\ 1 .. 0 = {}
    BY <2>1
  <2> QED
    BY <1>1, <1>2, <2>2, <2>3, <2>4 DEF Flat
<1>3. CASE n # 0
  <2> DEFINE g == CHOOSE h : FlattenUpTo(h, n, s)
  <2>1. FlattenUpTo(g, n, s)
    BY FlattenUpToExists
  <2>2. FlattenSeq(s) = g[n]
    BY <1>1, <1>3, Zenon DEF FlattenSeq, FlattenUpTo
  <2>. HIDE DEF g
  <2>3. PICK up : up = [i \in 0 .. n |-> IF i = 0 THEN <<>> ELSE g[i]]
    OBVIOUS
  <2>4. up[0] = <<>> /\ \A i \in 1 .. n : up[i] = g[i]
    BY <2>3
  <2>5. ASSUME NEW i \in 1 .. n
        PROVE  up[i] = up[i - 1] \o s[i]
    <3>1. s[i] \in Seq(Cell) /\ <<>> \o s[i] = s[i]
      BY <1>1, ElementOfSeq, ConcatEmptySeq
    <3>2. g[i] = IF i = 1 THEN s[i] ELSE g[i - 1] \o s[i]
      BY <2>1 DEF FlattenUpTo
    <3>3. i # 1 => up[i - 1] = g[i - 1]
      BY <2>4
    <3>4. CASE i = 1
      <4>1. i - 1 = 0 /\ up[i - 1] = <<>>
        BY <2>4, <3>4
      <4> QED
        BY <2>4, <3>1, <3>2, <3>4, <4>1
    <3>5. CASE i # 1
      BY <2>4, <3>2, <3>3, <3>5
    <3> QED
      BY <3>4, <3>5
  <2> DEFINE S == {k \in Nat : k <= n => up[k] \in Seq(Cell)}
  <2>6. 0 \in S
    BY <2>4, EmptySeq
  <2>7. ASSUME NEW k \in Nat, k \in S
        PROVE  k + 1 \in S
    <3>1. SUFFICES ASSUME k + 1 <= n PROVE up[k + 1] \in Seq(Cell)
      OBVIOUS
    <3>2. k + 1 \in 1 .. n /\ (k + 1) - 1 = k /\ k <= n
      BY <3>1
    <3>3. up[k + 1] = up[k] \o s[k + 1]
      BY <2>5, <3>2
    <3>4. s[k + 1] \in Seq(Cell)
      BY <1>1, <3>2, ElementOfSeq
    <3> QED
      BY <2>7, <3>2, <3>3, <3>4, ConcatProperties
  <2>. HIDE DEF S
  <2>8. \A k \in Nat : k \in S
    BY <2>6, <2>7, NatSetInduction
  <2>9. up \in [0 .. n -> Seq(Cell)]
    BY <2>3, <2>8 DEF S
  <2> QED
    BY <1>1, <1>3, <2>2, <2>4, <2>5, <2>9 DEF Flat
<1> QED
  BY <1>2, <1>3
---------------------------------------------------------------------------
(* One sequence of cells inside another.                                   *)

LEMMA ConcatCells ==
  ASSUME NEW a \in Seq(Cell), NEW b \in Seq(Cell)
  PROVE  /\ a \o b \in Seq(Cell)
         /\ Len(a) \in Nat /\ Len(b) \in Nat
         /\ Len(a \o b) = Len(a) + Len(b)
BY ConcatProperties, LenProperties

LEMMA Middle ==
  ASSUME NEW a \in Seq(Cell), NEW b \in Seq(Cell), NEW c \in Seq(Cell)
  PROVE  /\ From(a \o (b \o c), Len(a)) = b \o c
         /\ SubSeq(a \o (b \o c), Len(a) + 1, Len(a) + Len(b)) = b
<1> DEFINE x == a \o (b \o c)
<1>1. /\ b \o c \in Seq(Cell) /\ x \in Seq(Cell)
      /\ Len(a) \in Nat /\ Len(b) \in Nat /\ Len(c) \in Nat
      /\ Len(b \o c) = Len(b) + Len(c)
      /\ Len(x) = Len(a) + (Len(b) + Len(c))
  BY ConcatCells
<1>2. From(x, Len(a)) = b \o c
  BY <1>1, ConcatFrom
<1>3. ASSUME NEW i \in 1 .. Len(b)
      PROVE  x[Len(a) + i] = b[i]
  <2>1. (b \o c)[i] = b[i]
    BY <1>1, ConcatProperties
  <2>2. Len(a) + i \in 1 .. Len(a) + Len(b \o c) /\ ~ (Len(a) + i <= Len(a)) /\ (Len(a) + i) - Len(a) = i
    BY <1>1
  <2>3. x[Len(a) + i] = (b \o c)[i]
    BY <1>1, <2>2, ConcatProperties
  <2> QED
    BY <2>1, <2>3
<1>. HIDE DEF x
<1>4. \A i \in Len(a) + 1 .. Len(a) + Len(b) : x[i] \in Cell
  BY <1>1, ElementOfSeq
<1>5. /\ SubSeq(x, Len(a) + 1, Len(a) + Len(b)) \in Seq(Cell)
      /\ Len(SubSeq(x, Len(a) + 1, Len(a) + Len(b))) = Len(b)
      /\ \A i \in 1 .. Len(b) : SubSeq(x, Len(a) + 1, Len(a) + Len(b))[i] = x[Len(a) + i]
  BY <1>1, <1>4, SubSeqProperties
<1>6. SubSeq(x, Len(a) + 1, Len(a) + Len(b)) = b
  BY <1>3, <1>5, SeqEqual
<1> QED
  BY <1>2, <1>6 DEF x

LEMMA Associates ==
  ASSUME NEW a \in Seq(Cell), NEW b \in Seq(Cell), NEW c \in Seq(Cell)
  PROVE  (a \o b) \o c = a \o (b \o c)
BY ConcatAssociative

LEMMA OverwriteIs ==
  ASSUME NEW c \in Seq(Cell), NEW at \in Nat, NEW new \in Seq(Cell),
         at + Len(new) <= Len(c)
  PROVE  /\ Overwrite(c, at, new) \in Seq(Cell)
         /\ Len(Overwrite(c, at, new)) = Len(c)
         /\ \A i \in 1 .. Len(c) :
              Overwrite(c, at, new)[i]
                = IF at < i /\ i <= at + Len(new) THEN new[i - at] ELSE c[i]
<1>1. Len(c) \in Nat /\ Len(new) \in Nat
  BY LenProperties
<1>2. \A i \in 1 .. Len(c) : c[i] \in Cell
  BY ElementOfSeq
<1> DEFINE before == SubSeq(c, 1, at)
           after == From(c, at + Len(new))
<1>3. /\ before \in Seq(Cell) /\ Len(before) = at
      /\ \A i \in 1 .. at : before[i] = c[i]
  BY <1>1, <1>2, SubSeqProperties
<1>4. /\ after \in Seq(Cell) /\ Len(after) = Len(c) - (at + Len(new))
      /\ \A i \in 1 .. Len(c) - (at + Len(new)) : after[i] = c[at + Len(new) + i]
  <2>1. \A i \in at + Len(new) + 1 .. Len(c) : c[i] \in Cell
    BY <1>1, <1>2
  <2>2. /\ SubSeq(c, at + Len(new) + 1, Len(c)) \in Seq(Cell)
        /\ Len(SubSeq(c, at + Len(new) + 1, Len(c))) = Len(c) - (at + Len(new))
        /\ \A i \in 1 .. Len(c) - (at + Len(new)) :
             SubSeq(c, at + Len(new) + 1, Len(c))[i] = c[at + Len(new) + i]
    BY <1>1, <2>1, SubSeqProperties
  <2> QED
    BY <2>2 DEF From
<1>5. Overwrite(c, at, new) = (before \o new) \o after
  BY DEF Overwrite
<1>. HIDE DEF before, after
<1>6. /\ before \o new \in Seq(Cell) /\ Len(before \o new) = at + Len(new)
      /\ \A i \in 1 .. at + Len(new) :
           (before \o new)[i] = IF i <= at THEN before[i] ELSE new[i - at]
  BY <1>1, <1>3, ConcatProperties
<1>7. PICK front \in Seq(Cell), rear \in Seq(Cell) : front = before \o new /\ rear = after
  <2>1. before \o new \in Seq(Cell) /\ after \in Seq(Cell)
    BY <1>4, <1>6
  <2> QED
    BY <2>1
<1>8. /\ front \o rear \in Seq(Cell) /\ Len(front \o rear) = Len(front) + Len(rear)
      /\ \A i \in 1 .. Len(front) + Len(rear) :
           (front \o rear)[i] = IF i <= Len(front) THEN front[i] ELSE rear[i - Len(front)]
  BY ConcatProperties
<1>9. Len(front) + Len(rear) = Len(c) /\ Len(front) = at + Len(new)
  <2>1. Len(front) = at + Len(new)
    BY <1>6, <1>7
  <2>2. Len(rear) = Len(c) - (at + Len(new))
    BY <1>4, <1>7
  <2> QED
    BY <1>1, <2>1, <2>2
<1>10. ASSUME NEW i \in 1 .. Len(c)
       PROVE  (front \o rear)[i]
                = IF at < i /\ i <= at + Len(new) THEN new[i - at] ELSE c[i]
  <2>1. CASE i <= at
    BY <1>1, <1>3, <1>6, <1>7, <1>8, <1>9, <2>1
  <2>2. CASE at < i /\ i <= at + Len(new)
    BY <1>1, <1>6, <1>7, <1>8, <1>9, <2>2
  <2>3. CASE at + Len(new) < i
    <3>1. i - (at + Len(new)) \in 1 .. Len(c) - (at + Len(new))
          /\ (at + Len(new)) + (i - (at + Len(new))) = i
      BY <1>1, <2>3
    <3>2. rear[i - (at + Len(new))] = c[i]
      BY <1>4, <1>7, <3>1
    <3> QED
      BY <1>1, <1>8, <1>9, <2>3, <3>2
  <2>4. i \in Int /\ at \in Int /\ Len(new) \in Int
    BY <1>1
  <2>5. i <= at \/ (at < i /\ i <= at + Len(new)) \/ at + Len(new) < i
    BY <2>4
  <2> QED
    BY <2>1, <2>2, <2>3, <2>5
<1> QED
  BY <1>5, <1>7, <1>8, <1>9, <1>10

\* Overwriting a part of a concatenation.
LEMMA OverwriteRight ==
  ASSUME NEW a \in Seq(Cell), NEW b \in Seq(Cell), NEW d \in Nat, NEW new \in Seq(Cell),
         d + Len(new) <= Len(b)
  PROVE  Overwrite(a \o b, Len(a) + d, new) = a \o Overwrite(b, d, new)
<1>1. /\ a \o b \in Seq(Cell) /\ Len(a \o b) = Len(a) + Len(b)
      /\ Len(a) \in Nat /\ Len(b) \in Nat /\ Len(new) \in Nat
      /\ \A i \in 1 .. Len(a) + Len(b) : (a \o b)[i] = IF i <= Len(a) THEN a[i] ELSE b[i - Len(a)]
  BY ConcatProperties, LenProperties
<1>2. PICK ab \in Seq(Cell) : ab = a \o b
  BY <1>1
<1>3. Len(a) + d \in Nat /\ (Len(a) + d) + Len(new) <= Len(ab)
  BY <1>1, <1>2
<1>4. /\ Overwrite(ab, Len(a) + d, new) \in Seq(Cell)
      /\ Len(Overwrite(ab, Len(a) + d, new)) = Len(ab)
      /\ \A i \in 1 .. Len(ab) :
           Overwrite(ab, Len(a) + d, new)[i]
             = IF Len(a) + d < i /\ i <= (Len(a) + d) + Len(new) THEN new[i - (Len(a) + d)] ELSE ab[i]
  BY <1>3, OverwriteIs
<1>5. PICK o \in Seq(Cell) : o = Overwrite(b, d, new)
  BY OverwriteIs
<1>6. /\ Len(o) = Len(b)
      /\ \A i \in 1 .. Len(b) :
           o[i] = IF d < i /\ i <= d + Len(new) THEN new[i - d] ELSE b[i]
  BY <1>5, OverwriteIs
<1>7. /\ a \o o \in Seq(Cell) /\ Len(a \o o) = Len(a) + Len(o)
      /\ \A i \in 1 .. Len(a) + Len(o) : (a \o o)[i] = IF i <= Len(a) THEN a[i] ELSE o[i - Len(a)]
  BY ConcatProperties
<1>8. ASSUME NEW i \in 1 .. Len(ab)
      PROVE  Overwrite(ab, Len(a) + d, new)[i] = (a \o o)[i]
  <2>1. PICK m \in Nat, n \in Nat, k \in Nat : m = Len(a) /\ n = Len(b) /\ k = Len(new)
    BY <1>1
  <2>2. i \in 1 .. m + n
    BY <1>1, <1>2, <2>1
  <2>3. Overwrite(ab, Len(a) + d, new)[i]
          = IF m + d < i /\ i <= (m + d) + k THEN new[i - (m + d)] ELSE ab[i]
    BY <1>4, <2>1
  <2>4. ab[i] = IF i <= m THEN a[i] ELSE b[i - m]
    BY <1>1, <1>2, <2>1, <2>2
  <2>5. (a \o o)[i] = IF i <= m THEN a[i] ELSE o[i - m]
    BY <1>6, <1>7, <2>1, <2>2
  <2>6. CASE i <= m
    <3>1. ~ (m + d < i)
      BY <2>1, <2>2, <2>6
    <3> QED
      BY <2>3, <2>4, <2>5, <2>6, <3>1
  <2>7. CASE m < i
    <3>1. i - m \in 1 .. n /\ i - (m + d) = (i - m) - d /\ ~ (i <= m)
      BY <2>1, <2>2, <2>7
    <3>2. o[i - m] = IF d < i - m /\ i - m <= d + k THEN new[(i - m) - d] ELSE b[i - m]
      BY <1>6, <2>1, <3>1
    <3>3. (m + d < i /\ i <= (m + d) + k) <=> (d < i - m /\ i - m <= d + k)
      BY <2>1, <2>2
    <3> QED
      BY <2>3, <2>4, <2>5, <3>1, <3>2, <3>3
  <2>8. i <= m \/ m < i
    BY <2>1, <2>2
  <2> QED
    BY <2>6, <2>7, <2>8
<1>9. Len(ab) = Len(a \o o)
  BY <1>1, <1>2, <1>6, <1>7
<1>10. Overwrite(ab, Len(a) + d, new) = a \o o
  BY <1>4, <1>7, <1>8, <1>9, SeqEqual
<1> QED
  BY <1>2, <1>5, <1>10

LEMMA OverwriteLeft ==
  ASSUME NEW a \in Seq(Cell), NEW b \in Seq(Cell), NEW d \in Nat, NEW new \in Seq(Cell),
         d + Len(new) <= Len(a)
  PROVE  Overwrite(a \o b, d, new) = Overwrite(a, d, new) \o b
<1>1. /\ a \o b \in Seq(Cell) /\ Len(a \o b) = Len(a) + Len(b)
      /\ Len(a) \in Nat /\ Len(b) \in Nat /\ Len(new) \in Nat
      /\ \A i \in 1 .. Len(a) + Len(b) : (a \o b)[i] = IF i <= Len(a) THEN a[i] ELSE b[i - Len(a)]
  BY ConcatProperties, LenProperties
<1>2. PICK ab \in Seq(Cell) : ab = a \o b
  BY <1>1
<1>3. d + Len(new) <= Len(ab)
  BY <1>1, <1>2
<1>4. /\ Overwrite(ab, d, new) \in Seq(Cell)
      /\ Len(Overwrite(ab, d, new)) = Len(ab)
      /\ \A i \in 1 .. Len(ab) :
           Overwrite(ab, d, new)[i] = IF d < i /\ i <= d + Len(new) THEN new[i - d] ELSE ab[i]
  BY <1>3, OverwriteIs
<1>5. PICK o \in Seq(Cell) : o = Overwrite(a, d, new)
  BY OverwriteIs
<1>6. /\ Len(o) = Len(a)
      /\ \A i \in 1 .. Len(a) :
           o[i] = IF d < i /\ i <= d + Len(new) THEN new[i - d] ELSE a[i]
  BY <1>5, OverwriteIs
<1>7. /\ o \o b \in Seq(Cell) /\ Len(o \o b) = Len(o) + Len(b)
      /\ \A i \in 1 .. Len(o) + Len(b) : (o \o b)[i] = IF i <= Len(o) THEN o[i] ELSE b[i - Len(o)]
  BY ConcatProperties
<1>8. ASSUME NEW i \in 1 .. Len(ab)
      PROVE  Overwrite(ab, d, new)[i] = (o \o b)[i]
  <2>1. CASE i <= Len(a)
    <3>1. i \in 1 .. Len(a) /\ i \in 1 .. Len(a) + Len(b) /\ i \in 1 .. Len(o) + Len(b) /\ i <= Len(o)
      BY <1>1, <1>2, <1>6, <2>1
    <3>2. ab[i] = a[i] /\ (o \o b)[i] = o[i]
      BY <1>1, <1>2, <1>7, <2>1, <3>1
    <3> QED
      BY <1>4, <1>6, <3>1, <3>2
  <2>2. CASE Len(a) < i
    <3>1. i \in 1 .. Len(a) + Len(b) /\ i \in 1 .. Len(o) + Len(b) /\ ~ (i <= Len(o))
          /\ ~ (i <= Len(a)) /\ ~ (i <= d + Len(new)) /\ Len(o) = Len(a)
      BY <1>1, <1>2, <1>6, <2>2
    <3>2. ab[i] = b[i - Len(a)]
      BY <1>1, <1>2, <3>1
    <3>3. (o \o b)[i] = b[i - Len(a)]
      BY <1>7, <3>1
    <3> QED
      BY <1>4, <3>1, <3>2, <3>3
  <2>3. i \in Int /\ Len(a) \in Int
    BY <1>1
  <2>4. i <= Len(a) \/ Len(a) < i
    BY <2>3
  <2> QED
    BY <2>1, <2>2, <2>4
<1>9. Len(ab) = Len(o \o b)
  BY <1>1, <1>2, <1>6, <1>7
<1>10. Overwrite(ab, d, new) = o \o b
  BY <1>4, <1>7, <1>8, <1>9, SeqEqual
<1> QED
  BY <1>2, <1>5, <1>10

---------------------------------------------------------------------------
(* The pieces of a flat sequence.                                          *)

LEMMA FlatAt ==
  ASSUME NEW s \in Seq(Seq(Cell)), NEW up, Flat(s, up), NEW i \in 1 .. Len(s)
  PROVE  /\ s[i] \in Seq(Cell) /\ up[i] \in Seq(Cell) /\ up[i - 1] \in Seq(Cell)
         /\ up[i] = up[i - 1] \o s[i]
         /\ Len(up[i - 1]) \in Nat /\ Len(s[i]) \in Nat
         /\ Len(up[i]) = Len(up[i - 1]) + Len(s[i])
<1>1. Len(s) \in Nat /\ i - 1 \in 0 .. Len(s) /\ i \in 0 .. Len(s)
  BY LenProperties
<1>2. s[i] \in Seq(Cell) /\ up[i] \in Seq(Cell) /\ up[i - 1] \in Seq(Cell)
      /\ up[i] = up[i - 1] \o s[i]
  BY <1>1, ElementOfSeq DEF Flat
<1> QED
  BY <1>2, ConcatCells

LEMMA FlatOnly ==
  ASSUME NEW s \in Seq(Seq(Cell)), NEW up, Flat(s, up), NEW vp, Flat(s, vp)
  PROVE  vp[Len(s)] = up[Len(s)]
<1>1. Len(s) \in Nat
  BY LenProperties
<1> DEFINE S == {k \in Nat : k <= Len(s) => vp[k] = up[k]}
<1>2. 0 \in S
  BY DEF Flat
<1>3. ASSUME NEW k \in Nat, k \in S
      PROVE  k + 1 \in S
  <2>1. SUFFICES ASSUME k + 1 <= Len(s) PROVE vp[k + 1] = up[k + 1]
    OBVIOUS
  <2>2. k <= Len(s) /\ k + 1 \in 1 .. Len(s) /\ (k + 1) - 1 = k
    BY <1>1, <2>1
  <2>3. vp[k] = up[k]
    BY <1>3, <2>2
  <2>4. up[k + 1] = up[k] \o s[k + 1] /\ vp[k + 1] = vp[k] \o s[k + 1]
    BY <2>2 DEF Flat
  <2> QED
    BY <2>3, <2>4
<1>. HIDE DEF S
<1>4. \A k \in Nat : k \in S
  BY <1>2, <1>3, NatSetInduction
<1>5. Len(s) \in S /\ Len(s) <= Len(s)
  BY <1>1, <1>4
<1> QED
  BY <1>5 DEF S

LEMMA FlatPrefix ==
  ASSUME NEW s \in Seq(Seq(Cell)), NEW up, Flat(s, up), NEW i \in 0 .. Len(s)
  PROVE  \E more \in Seq(Cell) : up[Len(s)] = up[i] \o more
<1> DEFINE Has(k) == i + k <= Len(s) => \E more \in Seq(Cell) : up[i + k] = up[i] \o more
           S == {k \in Nat : Has(k)}
<1>1. Len(s) \in Nat /\ i \in Nat /\ \A k \in 0 .. Len(s) : up[k] \in Seq(Cell)
  BY LenProperties DEF Flat
<1>2. Has(0)
  <2>1. up[i + 0] = up[i] \o <<>> /\ <<>> \in Seq(Cell)
    BY <1>1, ConcatEmptySeq, EmptySeq
  <2> QED
    BY <2>1
<1>3. ASSUME NEW k \in Nat, Has(k)
      PROVE  Has(k + 1)
  <2>1. SUFFICES ASSUME i + (k + 1) <= Len(s)
        PROVE  \E more \in Seq(Cell) : up[i + (k + 1)] = up[i] \o more
    OBVIOUS
  <2>2. i + (k + 1) \in 1 .. Len(s) /\ (i + (k + 1)) - 1 = i + k /\ i + k <= Len(s)
    BY <1>1, <2>1
  <2>3. PICK more \in Seq(Cell) : up[i + k] = up[i] \o more
    BY <1>3, <2>2
  <2>4. s[i + (k + 1)] \in Seq(Cell) /\ up[i + (k + 1)] = up[i + k] \o s[i + (k + 1)]
    BY <2>2, FlatAt
  <2>5. PICK u \in Seq(Cell), v \in Seq(Cell) : u = up[i] /\ v = s[i + (k + 1)]
    BY <1>1, <2>4
  <2>6. (u \o more) \o v = u \o (more \o v) /\ more \o v \in Seq(Cell)
    BY Associates, ConcatCells
  <2>7. up[i + (k + 1)] = u \o (more \o v)
    BY <2>3, <2>4, <2>5, <2>6
  <2> QED
    BY <2>5, <2>6, <2>7
<1>. HIDE DEF Has
<1>4. 0 \in S /\ \A k \in Nat : k \in S => k + 1 \in S
  BY <1>2, <1>3
<1>. HIDE DEF S
<1>5. \A k \in Nat : k \in S
  BY <1>4, NatSetInduction
<1>. USE DEF S
<1>6. PICK rest \in Nat : i + rest = Len(s)
  <2>1. Len(s) - i \in Nat /\ i + (Len(s) - i) = Len(s)
    BY <1>1
  <2> QED
    BY <2>1
<1>7. Has(rest)
  BY <1>5
<1>8. i + rest <= Len(s)
  BY <1>1, <1>6
<1> QED
  BY <1>6, <1>7, <1>8 DEF Has

\* Each piece is found where the ones before it end.
LEMMA FlatPiece ==
  ASSUME NEW s \in Seq(Seq(Cell)), NEW up, Flat(s, up), NEW lead \in Seq(Cell),
         NEW i \in 1 .. Len(s)
  PROVE  LET cells == lead \o up[Len(s)]
             start == Len(lead) + Len(up[i - 1])
         IN  /\ \E more \in Seq(Cell) : From(cells, start) = s[i] \o more
             /\ SubSeq(cells, start + 1, Len(lead) + Len(up[i])) = s[i]
<1> DEFINE cells == lead \o up[Len(s)]
           start == Len(lead) + Len(up[i - 1])
           front == lead \o up[i - 1]
<1>1. /\ s[i] \in Seq(Cell) /\ up[i] \in Seq(Cell) /\ up[i - 1] \in Seq(Cell)
      /\ up[i] = up[i - 1] \o s[i]
      /\ Len(up[i - 1]) \in Nat /\ Len(s[i]) \in Nat
      /\ Len(up[i]) = Len(up[i - 1]) + Len(s[i])
  BY FlatAt
<1>2. PICK more \in Seq(Cell) : up[Len(s)] = up[i] \o more
  <2>1. Len(s) \in Nat /\ i \in 0 .. Len(s)
    BY LenProperties
  <2> QED
    BY <2>1, FlatPrefix
<1>3. front \in Seq(Cell) /\ Len(front) = start /\ Len(lead) \in Nat
  BY <1>1, ConcatCells
<1>. HIDE DEF front
<1>4. cells = front \o (s[i] \o more)
  <2>0. up[i - 1] \in Seq(Cell) /\ s[i] \in Seq(Cell)
    BY <1>1
  <2>1. PICK u \in Seq(Cell), v \in Seq(Cell) : u = up[i - 1] /\ v = s[i]
    BY <2>0
  <2>2. /\ (u \o v) \o more = u \o (v \o more)
        /\ v \o more \in Seq(Cell)
    <3>1. (u \o v) \o more = u \o (v \o more)
      BY Associates
    <3>2. v \o more \in Seq(Cell)
      BY ConcatCells
    <3> QED
      BY <3>1, <3>2
  <2>3. lead \o (u \o (v \o more)) = (lead \o u) \o (v \o more)
    BY <2>2, Associates
  <2>4. up[Len(s)] = u \o (v \o more)
    BY <1>1, <1>2, <2>1, <2>2
  <2> QED
    BY <2>1, <2>3, <2>4 DEF front
<1>5. From(front \o (s[i] \o more), Len(front)) = s[i] \o more
      /\ SubSeq(front \o (s[i] \o more), Len(front) + 1, Len(front) + Len(s[i])) = s[i]
  BY <1>1, <1>3, Middle
<1>6. Len(front) + Len(s[i]) = Len(lead) + Len(up[i])
  <2>1. PICK x \in Nat, y \in Nat, z \in Nat : x = Len(lead) /\ y = Len(up[i - 1]) /\ z = Len(s[i])
    BY <1>1, <1>3
  <2>2. Len(front) = x + y
    BY <1>3, <2>1
  <2>3. Len(up[i]) = y + z
    BY <1>1, <2>1
  <2>4. (x + y) + z = x + (y + z)
    OBVIOUS
  <2> QED
    BY <2>1, <2>2, <2>3, <2>4, Zenon
<1> QED
  BY <1>3, <1>4, <1>5, <1>6

\* Overwriting in one piece.
LEMMA FlatOverwrite ==
  ASSUME NEW s \in Seq(Seq(Cell)), NEW up, Flat(s, up),
         NEW t \in Seq(Seq(Cell)), NEW vp, Flat(t, vp), Len(t) = Len(s),
         NEW j \in 1 .. Len(s), NEW d \in Nat, NEW new \in Seq(Cell),
         d + Len(new) <= Len(s[j]),
         t[j] = Overwrite(s[j], d, new),
         \A i \in 1 .. Len(s) : i # j => t[i] = s[i]
  PROVE  /\ vp[Len(s)] = Overwrite(up[Len(s)], Len(up[j - 1]) + d, new)
         /\ Len(up[j - 1]) + d + Len(new) <= Len(up[Len(s)])
<1> DEFINE n == Len(s)
           at == Len(up[j - 1]) + d
           Before(k) == k < j => vp[k] = up[k]
           After(k) == k >= j => /\ at + Len(new) <= Len(up[k])
                                 /\ vp[k] = Overwrite(up[k], at, new)
           Has(k) == k <= n => Before(k) /\ After(k)
           S == {k \in Nat : Has(k)}
<1>1. n \in Nat /\ j \in Nat /\ 1 <= j /\ j <= n
  BY LenProperties
<1>2. Has(0)
  BY <1>1 DEF Flat
<1>3. ASSUME NEW k \in Nat, Has(k)
      PROVE  Has(k + 1)
  <2>1. SUFFICES ASSUME k + 1 <= n PROVE Before(k + 1) /\ After(k + 1)
    OBVIOUS
  <2>2. k + 1 \in 1 .. n /\ (k + 1) - 1 = k /\ k <= n
    BY <1>1, <2>1
  <2>3. PICK u \in Seq(Cell), v \in Seq(Cell) : u = up[k] /\ v = s[k + 1]
    BY <2>2, FlatAt
  <2>4. up[k + 1] = u \o v /\ Len(u \o v) = Len(u) + Len(v) /\ Len(u) \in Nat /\ Len(v) \in Nat
    <3>1. up[k + 1] = u \o v
      BY <2>2, <2>3, FlatAt
    <3> QED
      BY <3>1, ConcatCells
  <2>5. vp[k + 1] = vp[k] \o t[k + 1]
    <3>1. k + 1 \in 1 .. Len(t)
      BY <2>2
    <3>2. vp[k + 1] = vp[(k + 1) - 1] \o t[k + 1]
      BY <3>1, FlatAt
    <3> QED
      BY <2>2, <3>2
  <2>6. Len(new) \in Nat
    BY LenProperties
  <2>7. CASE k + 1 < j
    <3>1. vp[k] = u /\ t[k + 1] = v
      BY <1>1, <1>3, <2>2, <2>3, <2>7
    <3> QED
      BY <1>1, <2>4, <2>5, <2>7, <3>1
  <2>8. CASE k + 1 = j
    <3>1. vp[k] = u /\ up[j - 1] = u /\ t[k + 1] = Overwrite(v, d, new) /\ d + Len(new) <= Len(v)
      <4>1. k < j /\ j - 1 = k
        BY <1>1, <2>8
      <4> QED
        BY <1>3, <2>2, <2>3, <2>8, <4>1
    <3>2. Overwrite(u \o v, Len(u) + d, new) = u \o Overwrite(v, d, new)
      BY <3>1, OverwriteRight
    <3>3. vp[k + 1] = Overwrite(up[k + 1], at, new)
      BY <2>4, <2>5, <3>1, <3>2
    <3>4. at + Len(new) <= Len(up[k + 1])
      <4>1. Len(u) + d + Len(new) <= Len(u) + Len(v)
        BY <2>4, <2>6, <3>1
      <4> QED
        BY <2>4, <3>1, <4>1
    <3>5. ~ (k + 1 < j)
      BY <1>1, <2>8
    <3> QED
      BY <3>3, <3>4, <3>5
  <2>9. CASE k + 1 > j
    <3>1. k >= j /\ ~ (k + 1 < j)
      BY <1>1, <2>9
    <3>2. at + Len(new) <= Len(u) /\ vp[k] = Overwrite(u, at, new)
      BY <1>3, <2>2, <2>3, <3>1
    <3>3. t[k + 1] = v
      BY <1>1, <2>2, <2>3, <2>9
    <3>4. PICK a \in Nat : a = at
      <4>1. Len(up[j - 1]) \in Nat
        BY FlatAt
      <4>2. Len(up[j - 1]) + d \in Nat
        BY <4>1
      <4> QED
        BY <4>2
    <3>5. Overwrite(u \o v, a, new) = Overwrite(u, a, new) \o v
      BY <3>2, <3>4, OverwriteLeft
    <3>6. vp[k + 1] = Overwrite(up[k + 1], at, new)
      BY <2>4, <2>5, <3>2, <3>3, <3>4, <3>5
    <3>7. a + Len(new) <= Len(u) + Len(v)
      <4>1. a + Len(new) <= Len(u)
        BY <3>2, <3>4
      <4> HIDE DEF at
      <4> QED
        BY <2>4, <2>6, <4>1
    <3>8. at + Len(new) <= Len(up[k + 1])
      BY <2>4, <3>4, <3>7
    <3> QED
      BY <3>1, <3>6, <3>8
  <2>10. k + 1 < j \/ k + 1 = j \/ k + 1 > j
    BY <1>1
  <2>. HIDE DEF Before, After
  <2> QED
    BY <2>7, <2>8, <2>9, <2>10
<1>. HIDE DEF Has
<1>4. 0 \in S /\ \A k \in Nat : k \in S => k + 1 \in S
  BY <1>2, <1>3
<1>. HIDE DEF S
<1>5. \A k \in Nat : k \in S
  BY <1>4, NatSetInduction
<1>. USE DEF S
<1>6. Has(n)
  BY <1>1, <1>5
<1>7. n <= n /\ n >= j
  BY <1>1
<1> QED
  BY <1>6, <1>7 DEF Has
---------------------------------------------------------------------------
(* Well-made values: what builders put for a value of a type, with what it *)
(* means.  A value is [type, cells, leaves, rank]; the rank is above those *)
(* of its parts.                                                           *)

Own(type, cells) ==
  IF type.kind \in {"content", "message", "array"} THEN WithHeader(cells) ELSE cells

Lead(type, x) == IF type.kind = "union" THEN <<<<"index", x>>>> ELSE <<>>

ChildType(type, x, j) ==
  CASE type.kind = "message" -> ReaderOf(type.of).fields[j][2]
    [] type.kind = "array" -> type.of
    [] type.kind = "union" -> type.of[x + 1][2]

Pieces(parts, n) == [j \in 1 .. n |-> Own(parts[j].type, parts[j].cells)]

LeavesOf(parts, n) == [j \in 1 .. n |-> parts[j].leaves]

IsLeaves(l) ==
  /\ l = [p \in DOMAIN l |-> l[p]]
  /\ DOMAIN l \subseteq Seq(Nat)
  /\ <<>> \in DOMAIN l

Composed(t, x, parts, n) ==
  /\ n \in Nat
  /\ t.leaves = Join(x, LeavesOf(parts, n))
  /\ t.cells = Lead(t.type, x) \o FlattenSeq(Pieces(parts, n))
  /\ \A j \in 1 .. n : parts[j].type = ChildType(t.type, x, j)
  /\ \/ /\ t.type.kind = "message" /\ t.type.of \in Name
        /\ x = (t.cells = <<>>)
        /\ n = IF t.cells = <<>> THEN 0 ELSE Len(ReaderOf(t.type.of).fields)
     \/ t.type.kind = "array" /\ x = n
     \/ t.type.kind = "union" /\ x \in Nat /\ n = 1 /\ parts[1].type.kind # "union"

IsScalar(t) ==
  /\ t.type.kind = "scalar"
  /\ \E v : /\ <<t.type.of, v>> \in Cell
            /\ t.cells = <<<<t.type.of, v>>>> /\ t.leaves = Single(v)

IsContent(t) == t.type.kind = "content" /\ t.leaves = Single(t.cells)

IsTyped(t) == t.rank \in Nat /\ t.cells \in Seq(Cell) /\ IsLeaves(t.leaves)

Decomposed(t, U) ==
  /\ IsTyped(t)
  /\ \/ IsScalar(t)
     \/ IsContent(t)
     \/ \E x, parts, n :
          /\ Composed(t, x, parts, n)
          /\ \A j \in 1 .. n : parts[j] \in U /\ parts[j].rank < t.rank

Closed(U) == \A t \in U : Decomposed(t, U)

Well(t) == \E U : Closed(U) /\ t \in U

\* A well-made value is a scalar, bytes, or made of parts that are well-made.
LEMMA WellUnfold ==
  ASSUME NEW t, Well(t)
  PROVE  /\ IsTyped(t)
         /\ \/ IsScalar(t)
            \/ IsContent(t)
            \/ \E x, parts, n :
                 /\ Composed(t, x, parts, n)
                 /\ \A j \in 1 .. n : Well(parts[j]) /\ parts[j].rank < t.rank
<1>1. PICK U : Closed(U) /\ t \in U
  BY DEF Well
<1>2. Decomposed(t, U)
  BY <1>1 DEF Closed
<1>3. \A p \in U : Well(p)
  BY <1>1 DEF Well
<1>4. ASSUME NEW x, NEW parts, NEW n, Composed(t, x, parts, n),
             \A j \in 1 .. n : parts[j] \in U /\ parts[j].rank < t.rank
      PROVE  \E y, q, m :
               /\ Composed(t, y, q, m)
               /\ \A j \in 1 .. m : Well(q[j]) /\ q[j].rank < t.rank
  BY <1>3, <1>4
<1> QED
  BY <1>2, <1>4 DEF Decomposed

LEMMA WellFold ==
  ASSUME NEW t, IsTyped(t),
         \/ IsScalar(t)
         \/ IsContent(t)
         \/ \E x, parts, n :
              /\ Composed(t, x, parts, n)
              /\ \A j \in 1 .. n : Well(parts[j]) /\ parts[j].rank < t.rank
  PROVE  Well(t)
<1>1. CASE IsScalar(t) \/ IsContent(t)
  <2>1. Closed({t})
    BY <1>1 DEF Closed, Decomposed
  <2> QED
    BY <2>1 DEF Well
<1>2. ASSUME NEW x, NEW parts, NEW n, Composed(t, x, parts, n),
             \A j \in 1 .. n : Well(parts[j]) /\ parts[j].rank < t.rank
      PROVE  Well(t)
  <2> DEFINE A(j) == CHOOSE U : Closed(U) /\ parts[j] \in U
             V == UNION {A(j) : j \in 1 .. n}
             W == V \cup {t}
  <2>1. \A j \in 1 .. n : Closed(A(j)) /\ parts[j] \in A(j)
    BY <1>2 DEF Well
  <2>. HIDE DEF A
  <2>2. ASSUME NEW U, NEW X, U \subseteq X, NEW s, Decomposed(s, U)
        PROVE  Decomposed(s, X)
    BY <2>2 DEF Decomposed
  <2>3. ASSUME NEW s \in V
        PROVE  Decomposed(s, W)
    <3>1. PICK j \in 1 .. n : s \in A(j)
      OBVIOUS
    <3>2. Decomposed(s, A(j))
      BY <2>1, <3>1 DEF Closed
    <3>3. A(j) \subseteq W
      OBVIOUS
    <3>. HIDE DEF W
    <3> QED
      BY <2>2, <3>2, <3>3
  <2>4. \A j \in 1 .. n : parts[j] \in W
    BY <2>1
  <2>5. t \in W /\ \A s \in W : s \in V \/ s = t
    OBVIOUS
  <2>. HIDE DEF W, V
  <2>6. Decomposed(t, W)
    BY <1>2, <2>4 DEF Decomposed
  <2>7. Closed(W)
    BY <2>3, <2>5, <2>6 DEF Closed
  <2> QED
    BY <2>5, <2>7 DEF Well
<1> QED
  BY <1>1, <1>2

\* The rank may be greater.
LEMMA WellRank ==
  ASSUME NEW t, Well(t), NEW m \in Nat, t.rank <= m, NEW s,
         s.type = t.type, s.cells = t.cells, s.leaves = t.leaves, s.rank = m
  PROVE  Well(s)
<1>1. IsTyped(t) /\ IsTyped(s)
  BY WellUnfold DEF IsTyped
<1>2. CASE IsScalar(t) \/ IsContent(t)
  <2>1. IsScalar(s) \/ IsContent(s)
    BY <1>2 DEF IsScalar, IsContent
  <2> QED
    BY <1>1, <2>1, WellFold
<1>3. ASSUME NEW x, NEW parts, NEW n, Composed(t, x, parts, n),
             \A j \in 1 .. n : Well(parts[j]) /\ parts[j].rank < t.rank
      PROVE  Well(s)
  <2>1. Composed(s, x, parts, n)
    BY <1>3, Zenon DEF Composed
  <2>2. ASSUME NEW j \in 1 .. n
        PROVE  parts[j].rank < s.rank
    <3>1. parts[j].rank \in Nat /\ t.rank \in Nat
      BY <1>1, <1>3, WellUnfold DEF IsTyped
    <3> QED
      BY <1>3, <3>1
  <2> QED
    BY <1>1, <1>3, <2>1, <2>2, WellFold
<1> QED
  BY <1>2, <1>3, WellUnfold

\* What a value takes in the value it is part of.
LEMMA OwnCells ==
  ASSUME NEW t, Well(t)
  PROVE  /\ t.cells \in Seq(Cell)
         /\ Own(t.type, t.cells) \in Seq(Cell)
<1>1. t.cells \in Seq(Cell)
  BY WellUnfold DEF IsTyped
<1> QED
  BY <1>1, HeaderCell DEF Own

\* The cells of a value are its parts', one after the other.
Parted(t, x, parts, n, s, up) ==
  /\ s \in Seq(Seq(Cell))
  /\ Len(s) = n
  /\ \A j \in 1 .. n : s[j] = Own(parts[j].type, parts[j].cells)
  /\ Flat(s, up)
  /\ s = Pieces(parts, n)
  /\ Lead(t.type, x) \in Seq(Cell)
  /\ t.cells = Lead(t.type, x) \o up[n]

LEMMA PiecesFlat ==
  ASSUME NEW t, NEW x, NEW parts, NEW n, Composed(t, x, parts, n),
         \A j \in 1 .. n : Well(parts[j])
  PROVE  \E s, up : Parted(t, x, parts, n, s, up)
<1>1. n \in Nat
  BY DEF Composed
<1>2. \A j \in 1 .. n : Own(parts[j].type, parts[j].cells) \in Seq(Cell)
  BY OwnCells
<1>3. PICK s : s = Pieces(parts, n)
  OBVIOUS
<1>4. s = [j \in 1 .. n |-> Own(parts[j].type, parts[j].cells)]
  BY <1>3 DEF Pieces
<1>5. s \in Seq(Seq(Cell)) /\ Len(s) = n
  <2>1. s \in [1 .. n -> Seq(Cell)]
    BY <1>2, <1>4
  <2> QED
    BY <1>1, <2>1
<1>6. PICK up : Flat(s, up) /\ FlattenSeq(s) = up[n]
  BY <1>5, FlattenIs
<1>7. Lead(t.type, x) \in Seq(Cell)
  <2>1. CASE t.type.kind = "union"
    <3>1. x \in Nat
      BY <2>1 DEF Composed
    <3>2. <<"index", x>> \in Cell
      BY <3>1 DEF Cell, Tag
    <3> QED
      BY <2>1, <3>2, OneCell DEF Lead
  <2>2. CASE t.type.kind # "union"
    BY <2>2, EmptySeq DEF Lead
  <2> QED
    BY <2>1, <2>2
<1>8. t.cells = Lead(t.type, x) \o up[n]
  BY <1>3, <1>6 DEF Composed
<1> QED
  BY <1>3, <1>4, <1>5, <1>6, <1>7, <1>8 DEF Parted

LEMMA OwnNotEmpty ==
  ASSUME NEW t, Well(t)
  PROVE  Len(Own(t.type, t.cells)) \in Nat /\ Len(Own(t.type, t.cells)) >= 1
<1>1. t.cells \in Seq(Cell) /\ Len(t.cells) \in Nat
  BY OwnCells, LenProperties
<1>2. CASE t.type.kind \in {"content", "message", "array"}
  <2>1. Own(t.type, t.cells) = WithHeader(t.cells)
    BY <1>2 DEF Own
  <2>2. Len(WithHeader(t.cells)) = Len(t.cells) + 1
    BY <1>1, HeaderCell
  <2> QED
    BY <1>1, <2>1, <2>2
<1>3. CASE IsScalar(t)
  <2>1. Own(t.type, t.cells) = t.cells
    BY <1>3 DEF Own, IsScalar
  <2>2. Len(t.cells) = 1
    BY <1>3, OneCell DEF IsScalar
  <2> QED
    BY <1>1, <2>1, <2>2
<1>4. ASSUME NEW x, NEW parts, NEW n, Composed(t, x, parts, n),
             \A j \in 1 .. n : Well(parts[j]) /\ parts[j].rank < t.rank,
             t.type.kind = "union"
      PROVE  Len(t.cells) >= 1
  <2>1. PICK s, up : Parted(t, x, parts, n, s, up)
    BY <1>4, PiecesFlat
  <2>2. Lead(t.type, x) = <<<<"index", x>>>> /\ n = 1
    BY <1>4 DEF Lead, Composed
  <2>3. up[n] \in Seq(Cell)
    <3>1. s \in Seq(Seq(Cell)) /\ Flat(s, up) /\ n \in 1 .. Len(s)
      BY <2>1, <2>2 DEF Parted
    <3> QED
      BY <3>1, FlatAt
  <2>4. PICK lead \in Seq(Cell), rest \in Seq(Cell) : lead = Lead(t.type, x) /\ rest = up[n]
    BY <2>1, <2>3 DEF Parted
  <2>5. Len(t.cells) = Len(lead) + Len(rest) /\ Len(rest) \in Nat
    BY <2>1, <2>4, ConcatCells DEF Parted
  <2>6. Len(lead) = 1
    BY <2>2, <2>4
  <2> QED
    BY <2>5, <2>6
<1>5. ASSUME t.type.kind = "union"
      PROVE  Len(Own(t.type, t.cells)) \in Nat /\ Len(Own(t.type, t.cells)) >= 1
  <2>1. Own(t.type, t.cells) = t.cells
    BY <1>5 DEF Own
  <2>2. Len(t.cells) >= 1
    BY <1>4, <1>5, WellUnfold DEF IsScalar, IsContent
  <2> QED
    BY <1>1, <2>1, <2>2
<1>6. \/ t.type.kind \in {"content", "message", "array"}
      \/ IsScalar(t)
      \/ t.type.kind = "union"
  <2>1. ASSUME NEW x, NEW parts, NEW n, Composed(t, x, parts, n)
        PROVE  t.type.kind \in {"message", "array", "union"}
    BY <2>1 DEF Composed
  <2> QED
    BY <2>1, WellUnfold DEF IsContent
<1> QED
  BY <1>2, <1>3, <1>5, <1>6

---------------------------------------------------------------------------
(* Where the getters look.                                                 *)

EndUpTo(g, n, place) ==
  g = [j \in 0 .. n |->
         IF j = 0 THEN IF place.type.kind = "union" THEN 1 ELSE 0
         ELSE g[j - 1] + SizeOf(PartType(place, j), From(place.cells, g[j - 1]))]

LEMMA EndUpToExists ==
  ASSUME NEW place
  PROVE  \A n \in Nat : \E g : EndUpTo(g, n, place)
<1> DEFINE Is(g, n) == EndUpTo(g, n, place)
           S == {n \in Nat : \E g : Is(g, n)}
           zero == IF place.type.kind = "union" THEN 1 ELSE 0
           Step(start, j) == start + SizeOf(PartType(place, j), From(place.cells, start))
<1>1. 0 \in S
  <2>1. PICK g : g = [i \in 0 .. 0 |-> zero]
    OBVIOUS
  <2>2. \A i \in 0 .. 0 : i = 0
    OBVIOUS
  <2>3. g = [j \in 0 .. 0 |-> IF j = 0 THEN zero ELSE Step(g[j - 1], j)]
    BY <2>1, <2>2
  <2>4. Is(g, 0)
    BY <2>3 DEF EndUpTo
  <2> QED
    BY <2>4
<1>2. ASSUME NEW n \in Nat, n \in S
      PROVE  n + 1 \in S
  <2>1. PICK g : Is(g, n)
    BY <1>2
  <2>2. PICK last : last = Step(g[n], n + 1)
    OBVIOUS
  <2>3. PICK h : h = [k \in 0 .. n + 1 |-> IF k <= n THEN g[k] ELSE last]
    OBVIOUS
  <2>4. (\A k \in 0 .. n : h[k] = g[k]) /\ h[n + 1] = last
    BY <2>3
  <2>5. g = [j \in 0 .. n |-> IF j = 0 THEN zero ELSE Step(g[j - 1], j)]
    BY <2>1 DEF EndUpTo
  <2>. HIDE DEF Step, zero
  <2>6. ASSUME NEW k \in 0 .. n + 1
        PROVE  h[k] = IF k = 0 THEN zero ELSE Step(h[k - 1], k)
    <3>1. CASE k \in 0 .. n
      <4>1. g[k] = IF k = 0 THEN zero ELSE Step(g[k - 1], k)
        BY <2>5, <3>1
      <4>2. k # 0 => h[k - 1] = g[k - 1]
        BY <2>4, <3>1
      <4> QED
        BY <2>4, <3>1, <4>1, <4>2
    <3>2. CASE k = n + 1
      <4>1. h[k - 1] = g[n] /\ k # 0
        BY <2>4, <3>2
      <4> QED
        BY <2>2, <2>4, <3>2, <4>1
    <3> QED
      BY <3>1, <3>2
  <2>7. h = [j \in 0 .. n + 1 |-> IF j = 0 THEN zero ELSE Step(h[j - 1], j)]
    BY <2>3, <2>6
  <2>8. Is(h, n + 1)
    BY <2>7 DEF EndUpTo, Step, zero
  <2> QED
    BY <2>8
<1>. HIDE DEF S, Is
<1>3. \A n \in Nat : n \in S
  BY <1>1, <1>2, NatSetInduction
<1> QED
  BY <1>3 DEF S, Is

LEMMA EndIs ==
  ASSUME NEW place, NEW n \in Nat
  PROVE  \E end : EndUpTo(end, n, place) /\ End(place, n) = end[n]
<1> DEFINE g == CHOOSE h : EndUpTo(h, n, place)
<1>1. EndUpTo(g, n, place)
  BY EndUpToExists
<1>2. End(place, n) = g[n]
  BY Zenon DEF End, EndUpTo
<1> QED
  BY <1>1, <1>2

\* A value takes up its own cells, whatever follows.
LEMMA SizeOfPlain ==
  ASSUME NEW t, Well(t), t.type.kind # "union", NEW more \in Seq(Cell)
  PROVE  SizeOfOne(t.type, Own(t.type, t.cells) \o more) = Len(Own(t.type, t.cells))
<1> DEFINE own == Own(t.type, t.cells)
<1>1. own \in Seq(Cell) /\ Len(own) \in Nat /\ Len(own) >= 1 /\ t.cells \in Seq(Cell)
  BY OwnCells, OwnNotEmpty
<1>2. own \o more # <<>>
  <2>. HIDE DEF own
  <2>1. PICK c \in Seq(Cell) : c = own \o more
    BY <1>1, ConcatCells
  <2>2. Len(c) = Len(own) + Len(more) /\ Len(more) \in Nat
    BY <1>1, <2>1, ConcatCells
  <2>3. Len(c) # 0
    BY <1>1, <2>2
  <2> QED
    BY <2>1, <2>3, EmptySeq
<1>3. CASE IsScalar(t)
  <2>1. t.type.kind = "scalar" /\ own = t.cells /\ Len(t.cells) = 1
    BY <1>3, OneCell DEF Own, IsScalar
  <2>. HIDE DEF own
  <2>2. SizeOfOne(t.type, own \o more) = 1
    BY <1>2, <2>1 DEF SizeOfOne
  <2> QED
    BY <2>1, <2>2 DEF own
<1>4. CASE t.type.kind \in {"content", "message", "array"}
  <2>1. own = WithHeader(t.cells) /\ t.type.kind # "scalar"
    BY <1>4 DEF Own
  <2>2. Inside(own \o more) = t.cells
    BY <1>1, <2>1, InsideHeader
  <2>3. Len(own) = Len(t.cells) + 1 /\ Len(t.cells) \in Nat
    BY <1>1, <2>1, HeaderCell, LenProperties
  <2>. HIDE DEF own
  <2>4. SizeOfOne(t.type, own \o more) = 1 + Len(t.cells)
    BY <1>2, <2>1, <2>2 DEF SizeOfOne
  <2> QED
    BY <2>3, <2>4 DEF own
<1>5. IsScalar(t) \/ t.type.kind \in {"content", "message", "array"}
  <2>1. ASSUME NEW x, NEW parts, NEW n, Composed(t, x, parts, n)
        PROVE  t.type.kind \in {"message", "array"}
    BY <2>1 DEF Composed
  <2> QED
    BY <2>1, WellUnfold DEF IsContent
<1> QED
  BY <1>3, <1>4, <1>5

LEMMA SizeOfOwn ==
  ASSUME NEW t, Well(t), NEW more \in Seq(Cell)
  PROVE  SizeOf(t.type, Own(t.type, t.cells) \o more) = Len(Own(t.type, t.cells))
<1>1. CASE t.type.kind # "union"
  BY <1>1, SizeOfPlain DEF SizeOf
<1>2. ASSUME t.type.kind = "union",
             NEW x, NEW parts, NEW n, Composed(t, x, parts, n),
             \A j \in 1 .. n : Well(parts[j]) /\ parts[j].rank < t.rank
      PROVE  SizeOf(t.type, t.cells \o more) = Len(t.cells)
  <2>1. /\ n = 1 /\ x \in Nat /\ Lead(t.type, x) = <<<<"index", x>>>>
        /\ parts[1].type = t.type.of[x + 1][2] /\ parts[1].type.kind # "union"
    BY <1>2 DEF Composed, Lead, ChildType
  <2>2. PICK s, up : Parted(t, x, parts, n, s, up)
    BY <1>2, PiecesFlat
  <2>3. PICK own \in Seq(Cell) : own = Own(parts[1].type, parts[1].cells)
    BY <1>2, <2>1, OwnCells
  <2>4. up[1] = own
    <3>1. s \in Seq(Seq(Cell)) /\ Len(s) = 1 /\ s[1] = own /\ Flat(s, up)
      BY <2>1, <2>2, <2>3 DEF Parted
    <3>2. up[0] = <<>> /\ up[1] = up[1 - 1] \o s[1]
      BY <3>1 DEF Flat
    <3>3. up[1] = <<>> \o own
      BY <3>1, <3>2
    <3> QED
      BY <3>3, ConcatEmptySeq
  <2>5. PICK lead \in Seq(Cell) : lead = <<<<"index", x>>>>
    BY <2>1, <2>2 DEF Parted
  <2>6. t.cells = lead \o own
    BY <2>1, <2>2, <2>4, <2>5 DEF Parted
  <2>7. PICK c \in Seq(Cell) : c = lead \o (own \o more)
    BY ConcatCells
  <2>8. t.cells \o more = c
    BY <2>6, <2>7, Associates
  <2>9. Len(lead) = 1 /\ lead[1] = <<"index", x>>
    BY <2>5
  <2>10. own \o more \in Seq(Cell) /\ Len(own \o more) \in Nat /\ Len(own) \in Nat
    BY ConcatCells
  <2>11. Len(c) = 1 + Len(own \o more) /\ c[1] = <<"index", x>>
    <3>1. PICK rest \in Seq(Cell) : rest = own \o more
      BY <2>10
    <3>2. /\ Len(lead \o rest) = Len(lead) + Len(rest) /\ Len(rest) \in Nat
          /\ \A i \in 1 .. Len(lead) + Len(rest) :
               (lead \o rest)[i] = IF i <= Len(lead) THEN lead[i] ELSE rest[i - Len(lead)]
      BY ConcatProperties, LenProperties
    <3>3. 1 \in 1 .. Len(lead) + Len(rest)
      BY <2>9, <3>2
    <3> QED
      BY <2>7, <2>9, <3>1, <3>2, <3>3
  <2>12. c # <<>>
    BY <2>10, <2>11, EmptySeq
  <2>13. First(c, "index") = x
    BY <2>11, <2>12 DEF First
  <2>14. Tail(c) = own \o more
    <3>1. Tail(c) = SubSeq(c, 2, Len(c))
      BY <2>12, TailIsSubSeq
    <3>2. From(c, 1) = own \o more
      BY <2>7, <2>9, <2>10, ConcatFrom
    <3>3. From(c, 1) = SubSeq(c, 2, Len(c))
      BY DEF From
    <3> QED
      BY <3>1, <3>2, <3>3
  <2>15. Well(parts[1])
    BY <1>2, <2>1
  <2>16. SizeOfOne(t.type.of[x + 1][2], Tail(c)) = Len(own)
    BY <2>1, <2>3, <2>14, <2>15, SizeOfPlain
  <2>17. SizeOf(t.type, c) = 1 + Len(own)
    BY <1>2, <2>12, <2>13, <2>16 DEF SizeOf
  <2>18. Len(t.cells) = 1 + Len(own)
    BY <2>6, <2>9, ConcatCells
  <2> QED
    BY <2>8, <2>17, <2>18
<1>3. CASE t.type.kind = "union"
  <2>1. Own(t.type, t.cells) = t.cells
    BY <1>3 DEF Own
  <2>2. ~ IsScalar(t) /\ ~ IsContent(t)
    BY <1>3 DEF IsScalar, IsContent
  <2> QED
    BY <1>2, <1>3, <2>1, <2>2, WellUnfold
<1> QED
  BY <1>1, <1>3

\* The place of a value in a buffer.
At(place, t) == place.type = t.type /\ place.cells = t.cells

\* A place of a value made of parts has the parts the getters find.
LEMMA LeadIs ==
  ASSUME NEW place, NEW t, At(place, t), NEW x, NEW parts, NEW n, Composed(t, x, parts, n),
         \A j \in 1 .. n : Well(parts[j])
  PROVE  /\ Lead(t.type, x) \in Seq(Cell)
         /\ Len(Lead(t.type, x)) = IF place.type.kind = "union" THEN 1 ELSE 0
         /\ \A j \in 1 .. n : PartType(place, j) = parts[j].type
         /\ t.type.kind = "union" => First(place.cells, "index") = x
<1>1. PICK s, up : Parted(t, x, parts, n, s, up)
  BY PiecesFlat
<1>2. place.type = t.type /\ place.cells = t.cells
  BY DEF At
<1>3. PICK lead \in Seq(Cell) : lead = Lead(t.type, x)
  BY <1>1 DEF Parted
<1>4. Len(lead) = IF t.type.kind = "union" THEN 1 ELSE 0
  <2>1. CASE t.type.kind = "union"
    BY <1>3, <2>1 DEF Lead
  <2>2. CASE t.type.kind # "union"
    BY <1>3, <2>2 DEF Lead
  <2> QED
    BY <2>1, <2>2
<1>5. ASSUME t.type.kind = "union"
      PROVE  First(place.cells, "index") = x
  <2>1. n = 1
    BY <1>5 DEF Composed
  <2>2. PICK rest \in Seq(Cell) : rest = up[n]
    <3>1. s \in Seq(Seq(Cell)) /\ Flat(s, up) /\ n \in 1 .. Len(s)
      BY <1>1, <2>1 DEF Parted
    <3> QED
      BY <3>1, FlatAt
  <2>3. lead[1] = <<"index", x>> /\ Len(lead) = 1
    BY <1>3, <1>5 DEF Lead
  <2>4. PICK c \in Seq(Cell) : c = lead \o rest
    BY ConcatCells
  <2>5. /\ Len(lead \o rest) = Len(lead) + Len(rest) /\ Len(rest) \in Nat
        /\ \A i \in 1 .. Len(lead) + Len(rest) :
             (lead \o rest)[i] = IF i <= Len(lead) THEN lead[i] ELSE rest[i - Len(lead)]
    BY ConcatProperties, LenProperties
  <2>6. 1 \in 1 .. Len(lead) + Len(rest)
    BY <2>3, <2>5
  <2>7. c[1] = <<"index", x>> /\ Len(c) # 0
    BY <2>3, <2>4, <2>5, <2>6
  <2>8. c # <<>>
    BY <2>7, EmptySeq
  <2>9. place.cells = c
    BY <1>1, <1>2, <1>3, <2>2, <2>4 DEF Parted
  <2> QED
    BY <2>7, <2>8, <2>9 DEF First
<1>6. ASSUME NEW j \in 1 .. n
      PROVE  PartType(place, j) = parts[j].type
  <2>1. parts[j].type = ChildType(t.type, x, j)
    BY DEF Composed
  <2>2. t.type.kind \in {"message", "array", "union"}
    BY DEF Composed
  <2>3. CASE t.type.kind = "union"
    BY <1>2, <1>5, <2>1, <2>3 DEF PartType, ChildType
  <2>4. CASE t.type.kind # "union"
    BY <1>2, <2>1, <2>2, <2>4 DEF PartType, ChildType
  <2> QED
    BY <2>3, <2>4
<1> QED
  BY <1>2, <1>3, <1>4, <1>5, <1>6

\* All of it together.
Laid(place, t, x, parts, n, s, up) ==
  /\ At(place, t)
  /\ Composed(t, x, parts, n)
  /\ \A j \in 1 .. n : Well(parts[j])
  /\ Parted(t, x, parts, n, s, up)

LEMMA EndsAt ==
  ASSUME NEW place, NEW t, NEW x, NEW parts, NEW n, NEW s, NEW up,
         Laid(place, t, x, parts, n, s, up), NEW m \in 0 .. n
  PROVE  /\ End(place, m) = Len(Lead(t.type, x)) + Len(up[m])
         /\ Len(Lead(t.type, x)) \in Nat /\ up[m] \in Seq(Cell) /\ Len(up[m]) \in Nat
<1>. /\ At(place, t) /\ Composed(t, x, parts, n) /\ Parted(t, x, parts, n, s, up)
     /\ \A j \in 1 .. n : Well(parts[j])
  BY DEF Laid
<1>1. /\ s \in Seq(Seq(Cell)) /\ Len(s) = n /\ Flat(s, up) /\ n \in Nat
      /\ \A j \in 1 .. n : s[j] = Own(parts[j].type, parts[j].cells)
  BY DEF Parted, Composed
<1>2. PICK lead \in Seq(Cell) : lead = Lead(t.type, x)
  BY LeadIs
<1>3. /\ Len(lead) = IF place.type.kind = "union" THEN 1 ELSE 0
      /\ \A j \in 1 .. n : PartType(place, j) = parts[j].type
  BY <1>2, LeadIs
<1>4. place.cells = lead \o up[n]
  BY <1>2 DEF At, Parted
<1>5. m \in Nat
  BY <1>1
<1>6. PICK end : EndUpTo(end, m, place) /\ End(place, m) = end[m]
  BY <1>5, EndIs
<1>7. \A j \in 0 .. n : up[j] \in Seq(Cell) /\ Len(up[j]) \in Nat
  BY <1>1, LenProperties DEF Flat
<1> DEFINE Has(k) == k <= m => end[k] = Len(lead) + Len(up[k])
           S == {k \in Nat : Has(k)}
<1>8. Has(0)
  <2>1. end[0] = IF place.type.kind = "union" THEN 1 ELSE 0
    BY <1>5, <1>6 DEF EndUpTo
  <2>2. up[0] = <<>> /\ Len(up[0]) = 0
    BY <1>1, EmptySeq DEF Flat
  <2>3. Len(lead) \in Nat
    BY LenProperties
  <2> QED
    BY <1>3, <2>1, <2>2, <2>3
<1>9. ASSUME NEW k \in Nat, Has(k)
      PROVE  Has(k + 1)
  <2>1. SUFFICES ASSUME k + 1 <= m PROVE end[k + 1] = Len(lead) + Len(up[k + 1])
    OBVIOUS
  <2>2. k + 1 \in 1 .. n /\ k + 1 \in 0 .. m /\ (k + 1) - 1 = k /\ k <= m /\ k + 1 # 0
    BY <1>1, <1>5, <2>1
  <2>3. end[k + 1] = end[k] + SizeOf(PartType(place, k + 1), From(place.cells, end[k]))
    BY <1>6, <2>2 DEF EndUpTo
  <2>4. end[k] = Len(lead) + Len(up[k])
    BY <1>9, <2>2
  <2>5. PICK more \in Seq(Cell) : From(place.cells, end[k]) = s[k + 1] \o more
    <3>1. PICK i \in 1 .. Len(s) : i = k + 1
      BY <1>1, <2>2
    <3>2. \E more \in Seq(Cell) :
            From(lead \o up[Len(s)], Len(lead) + Len(up[i - 1])) = s[i] \o more
      BY <1>1, FlatPiece
    <3>3. i - 1 = k
      BY <2>2, <3>1
    <3> QED
      BY <1>1, <1>4, <2>4, <3>1, <3>2, <3>3
  <2>6. SizeOf(PartType(place, k + 1), s[k + 1] \o more) = Len(s[k + 1])
    <3>1. s[k + 1] = Own(parts[k + 1].type, parts[k + 1].cells) /\ Well(parts[k + 1])
          /\ PartType(place, k + 1) = parts[k + 1].type
      BY <1>1, <1>3, <2>2
    <3> QED
      BY <3>1, SizeOfOwn
  <2>7. Len(up[k + 1]) = Len(up[k]) + Len(s[k + 1]) /\ Len(up[k]) \in Nat /\ Len(s[k + 1]) \in Nat
    BY <1>1, <2>2, FlatAt
  <2>8. Len(lead) \in Nat
    BY LenProperties
  <2>9. end[k + 1] = (Len(lead) + Len(up[k])) + Len(s[k + 1])
    BY <2>3, <2>4, <2>5, <2>6
  <2>10. PICK a \in Nat, b \in Nat, c \in Nat : a = Len(lead) /\ b = Len(up[k]) /\ c = Len(s[k + 1])
    BY <2>7, <2>8
  <2>11. (a + b) + c = a + (b + c)
    OBVIOUS
  <2> QED
    BY <2>7, <2>9, <2>10, <2>11, Zenon
<1>. HIDE DEF Has
<1>10. 0 \in S /\ \A k \in Nat : k \in S => k + 1 \in S
  BY <1>8, <1>9
<1>. HIDE DEF S
<1>11. \A k \in Nat : k \in S
  BY <1>10, NatSetInduction
<1>. USE DEF S
<1>12. Has(m) /\ m <= m
  BY <1>5, <1>11
<1>13. end[m] = Len(lead) + Len(up[m])
  BY <1>12 DEF Has
<1>14. Len(lead) \in Nat
  BY LenProperties
<1> QED
  BY <1>2, <1>6, <1>7, <1>13, <1>14

\* An iterator finds the elements of an array.
LEMMA CountIs ==
  ASSUME NEW place, NEW t, At(place, t), NEW x, NEW parts, NEW n, Composed(t, x, parts, n),
         \A j \in 1 .. n : Well(parts[j]), t.type.kind = "array"
  PROVE  Count(place) = n
<1>1. PICK s, up : Parted(t, x, parts, n, s, up)
  BY PiecesFlat
<1>2. /\ s \in Seq(Seq(Cell)) /\ Len(s) = n /\ Flat(s, up) /\ n \in Nat
      /\ \A j \in 1 .. n : s[j] = Own(parts[j].type, parts[j].cells)
  BY <1>1 DEF Parted, Composed
<1>3. Lead(t.type, x) = <<>> /\ Len(<<>>) = 0
  BY EmptySeq DEF Lead
<1>4. \A k \in 0 .. n : End(place, k) = Len(up[k]) /\ up[k] \in Seq(Cell) /\ Len(up[k]) \in Nat
  <2>1. ASSUME NEW k \in 0 .. n
        PROVE  End(place, k) = Len(up[k]) /\ up[k] \in Seq(Cell) /\ Len(up[k]) \in Nat
    <3>1. Laid(place, t, x, parts, n, s, up)
      BY <1>1 DEF Laid
    <3>2. /\ End(place, k) = Len(Lead(t.type, x)) + Len(up[k])
          /\ Len(Lead(t.type, x)) \in Nat /\ up[k] \in Seq(Cell) /\ Len(up[k]) \in Nat
      BY <3>1, EndsAt, Zenon
    <3> QED
      BY <1>3, <3>2
  <2> QED
    BY <2>1
<1>5. place.cells = up[n]
  <2>1. place.cells = <<>> \o up[n]
    BY <1>1, <1>3 DEF Parted, At
  <2>2. up[n] \in Seq(Cell)
    BY <1>2, <1>4
  <2> QED
    BY <2>1, <2>2, ConcatEmptySeq
<1>6. \A k \in 0 .. n : k + 1 \in 0 .. n => Len(up[k]) + 1 <= Len(up[k + 1])
  <2>1. ASSUME NEW k \in 0 .. n, k + 1 \in 0 .. n
        PROVE  Len(up[k]) + 1 <= Len(up[k + 1])
    <3>1. PICK i \in 1 .. Len(s) : i = k + 1 /\ i - 1 = k
      BY <1>2, <2>1
    <3>2. Len(up[i]) = Len(up[i - 1]) + Len(s[i]) /\ Len(up[i - 1]) \in Nat /\ Len(s[i]) \in Nat
      BY <1>2, FlatAt
    <3>3. Len(s[i]) >= 1
      BY <1>2, OwnNotEmpty
    <3>4. PICK a \in Nat, b \in Nat : a = Len(up[i - 1]) /\ b = Len(s[i])
      BY <3>2
    <3>5. a + 1 <= a + b
      BY <3>3, <3>4
    <3> QED
      BY <3>1, <3>2, <3>4, <3>5
  <2> QED
    BY <2>1
\* The lengths grow, by one at least with each element.
<1> DEFINE Has(d) == \A k \in 0 .. n : k + d \in 0 .. n => Len(up[k]) + d <= Len(up[k + d])
           S == {d \in Nat : Has(d)}
<1>7. Has(0)
  BY <1>2, <1>4
<1>8. ASSUME NEW d \in Nat, Has(d)
      PROVE  Has(d + 1)
  <2>1. SUFFICES ASSUME NEW k \in 0 .. n, k + (d + 1) \in 0 .. n
        PROVE  Len(up[k]) + (d + 1) <= Len(up[k + (d + 1)])
    OBVIOUS
  <2>2. PICK e \in 0 .. n : e = k + d /\ e + 1 = k + (d + 1) /\ e + 1 \in 0 .. n
    BY <1>2, <2>1
  <2>3. Len(up[k]) + d <= Len(up[e])
    BY <1>8, <2>2
  <2>4. Len(up[e]) + 1 <= Len(up[e + 1])
    BY <1>6, <2>2
  <2>5. PICK a \in Nat, b \in Nat, c \in Nat : a = Len(up[k]) /\ b = Len(up[e]) /\ c = Len(up[e + 1])
    BY <1>4, <2>2
  <2>6. a + d <= b
    BY <2>3, <2>5
  <2>7. b + 1 <= c
    BY <2>4, <2>5
  <2>8. a + (d + 1) <= c
    BY <2>6, <2>7
  <2> QED
    BY <2>2, <2>5, <2>8
<1>. HIDE DEF Has
<1>9. 0 \in S /\ \A d \in Nat : d \in S => d + 1 \in S
  BY <1>7, <1>8
<1>. HIDE DEF S
<1>10. \A d \in Nat : d \in S
  BY <1>9, NatSetInduction
<1>11. \A d \in Nat : Has(d)
  BY <1>10 DEF S
<1>12. \A k \in 0 .. n - 1 : Len(up[k]) < Len(up[n])
  <2>1. ASSUME NEW k \in 0 .. n - 1
        PROVE  Len(up[k]) < Len(up[n])
    <3>1. PICK d \in Nat : k + d = n /\ d >= 1
      <4>1. n - k \in Nat /\ k + (n - k) = n /\ n - k >= 1
        BY <1>2
      <4> QED
        BY <4>1
    <3>2. k \in 0 .. n /\ k + d \in 0 .. n
      BY <1>2, <3>1
    <3>3. Len(up[k]) + d <= Len(up[k + d])
      BY <1>11, <3>2 DEF Has
    <3>4. PICK a \in Nat, b \in Nat : a = Len(up[k]) /\ b = Len(up[n])
      BY <1>2, <1>4, <3>2
    <3>5. a + d <= b
      BY <3>1, <3>3, <3>4
    <3> QED
      BY <3>1, <3>4, <3>5
  <2> QED
    BY <2>1
<1>13. n <= Len(up[n])
  <2>1. 0 \in 0 .. n /\ 0 + n \in 0 .. n /\ 0 + n = n
    BY <1>2
  <2>2. Len(up[0]) + n <= Len(up[n])
    BY <1>2, <1>11, <2>1 DEF Has
  <2>3. PICK a \in Nat, b \in Nat : a = Len(up[0]) /\ b = Len(up[n])
    BY <1>2, <1>4, <2>1
  <2> QED
    BY <1>2, <2>2, <2>3
<1> DEFINE Here(m) == /\ End(place, m) >= Len(place.cells)
                      /\ \A k \in 0 .. m - 1 : End(place, k) < Len(place.cells)
<1>14. n \in 0 .. Len(place.cells) /\ Here(n)
  <2>1. PICK b \in Nat : b = Len(up[n]) /\ b = Len(place.cells) /\ End(place, n) = b
    BY <1>2, <1>4, <1>5
  <2>2. \A k \in 0 .. n - 1 : k \in 0 .. n
    BY <1>2
  <2>3. \A k \in 0 .. n - 1 : End(place, k) < b
    BY <1>4, <1>12, <2>1, <2>2
  <2> QED
    BY <1>2, <1>13, <2>1, <2>3
<1>15. ASSUME NEW m \in 0 .. Len(place.cells), Here(m)
       PROVE  m = n
  <2>1. PICK b \in Nat : b = Len(up[n]) /\ b = Len(place.cells) /\ End(place, n) = b
    BY <1>2, <1>4, <1>5
  <2>2. m \in Nat
    BY <2>1
  <2>3. ASSUME n < m PROVE FALSE
    <3>1. n \in 0 .. m - 1
      BY <1>2, <2>2, <2>3
    <3>2. End(place, n) < Len(place.cells)
      BY <1>15, <3>1
    <3> QED
      BY <2>1, <3>2
  <2>4. ASSUME m < n PROVE FALSE
    <3>1. m \in 0 .. n - 1
      BY <1>2, <2>2, <2>4
    <3>2. End(place, m) < Len(place.cells) /\ End(place, m) >= Len(place.cells)
      BY <1>14, <1>15, <3>1
    <3>3. m \in 0 .. n
      BY <1>2, <3>1
    <3>4. End(place, m) \in Nat
      BY <1>4, <3>3
    <3> QED
      BY <2>1, <3>2, <3>4
  <2> QED
    BY <1>2, <2>2, <2>3, <2>4
<1>16. Count(place) = CHOOSE m \in 0 .. Len(place.cells) : Here(m)
  BY Zenon DEF Count
<1>. HIDE DEF Here
<1> QED
  BY <1>14, <1>15, <1>16

---------------------------------------------------------------------------
(* A value made of parts, with what it is made of: c has the value x of    *)
(* its own leaf, its n parts, their cells s and those up to each part, up. *)

Made(t, c) ==
  /\ Composed(t, c.x, c.parts, c.n)
  /\ \A j \in 1 .. c.n : Well(c.parts[j]) /\ c.parts[j].rank < t.rank
  /\ Parted(t, c.x, c.parts, c.n, c.s, c.up)

LEMMA WellMade ==
  ASSUME NEW t, Well(t)
  PROVE  IsTyped(t) /\ (IsScalar(t) \/ IsContent(t) \/ \E c : Made(t, c))
<1>1. ASSUME NEW x, NEW parts, NEW n, Composed(t, x, parts, n),
             \A j \in 1 .. n : Well(parts[j]) /\ parts[j].rank < t.rank
      PROVE  \E c : Made(t, c)
  <2>1. PICK s, up : Parted(t, x, parts, n, s, up)
    BY <1>1, PiecesFlat
  <2>2. PICK c : c = [x |-> x, parts |-> parts, n |-> n, s |-> s, up |-> up]
    OBVIOUS
  <2>3. c.x = x /\ c.parts = parts /\ c.n = n /\ c.s = s /\ c.up = up
    BY <2>2
  <2>4. Made(t, c)
    BY <1>1, <2>1, <2>3 DEF Made
  <2> QED
    BY <2>4
<1> QED
  BY <1>1, WellUnfold

LEMMA MadeLaid ==
  ASSUME NEW place, NEW t, NEW c, At(place, t), Made(t, c)
  PROVE  /\ Laid(place, t, c.x, c.parts, c.n, c.s, c.up)
         /\ c.n \in Nat
         /\ t.leaves = Join(c.x, LeavesOf(c.parts, c.n))
BY DEF Made, Laid, Composed

\* The cells of a value begin after its header, if it has one.
Skip(type, start) == IF type.kind \in {"content", "message", "array"} THEN start + 1 ELSE start

\* The getters find the parts.
LEMMA PartsPlaced ==
  ASSUME NEW place, NEW t, NEW c, At(place, t), Made(t, c), NEW j \in 1 .. c.n
  PROVE  /\ At(Part(place, j), c.parts[j])
         /\ PartWithHeader(place, j) = Own(c.parts[j].type, c.parts[j].cells)
         /\ Part(place, j).at
              = Skip(c.parts[j].type, place.at + (Len(Lead(t.type, c.x)) + Len(c.up[j - 1])))
<1>. /\ At(place, t) /\ Composed(t, c.x, c.parts, c.n) /\ Parted(t, c.x, c.parts, c.n, c.s, c.up)
     /\ \A i \in 1 .. c.n : Well(c.parts[i])
  BY MadeLaid DEF Laid
<1>. Laid(place, t, c.x, c.parts, c.n, c.s, c.up)
  BY MadeLaid
<1>1. /\ c.s \in Seq(Seq(Cell)) /\ Len(c.s) = c.n /\ Flat(c.s, c.up) /\ c.n \in Nat
      /\ c.s[j] = Own(c.parts[j].type, c.parts[j].cells)
  BY DEF Parted, Composed
<1>2. PICK lead \in Seq(Cell) : lead = Lead(t.type, c.x)
  BY LeadIs
<1>3. PartType(place, j) = c.parts[j].type
  BY LeadIs
<1>4. place.cells = lead \o c.up[Len(c.s)]
  BY <1>1, <1>2 DEF At, Parted
<1>5. j - 1 \in 0 .. c.n /\ j \in 0 .. c.n
  BY <1>1
<1>6. End(place, j - 1) = Len(lead) + Len(c.up[j - 1])
  <2>1. /\ End(place, j - 1) = Len(Lead(t.type, c.x)) + Len(c.up[j - 1])
        /\ Len(Lead(t.type, c.x)) \in Nat /\ c.up[j - 1] \in Seq(Cell) /\ Len(c.up[j - 1]) \in Nat
    BY <1>5, EndsAt, Zenon
  <2> QED
    BY <1>2, <2>1
<1>7. End(place, j) = Len(lead) + Len(c.up[j])
  <2>1. /\ End(place, j) = Len(Lead(t.type, c.x)) + Len(c.up[j])
        /\ Len(Lead(t.type, c.x)) \in Nat /\ c.up[j] \in Seq(Cell) /\ Len(c.up[j]) \in Nat
    BY <1>5, EndsAt, Zenon
  <2> QED
    BY <1>2, <2>1
<1>8. SubSeq(lead \o c.up[Len(c.s)], (Len(lead) + Len(c.up[j - 1])) + 1, Len(lead) + Len(c.up[j])) = c.s[j]
  BY <1>1, FlatPiece
<1>9. PartWithHeader(place, j) = Own(c.parts[j].type, c.parts[j].cells)
  BY <1>1, <1>4, <1>6, <1>7, <1>8 DEF PartWithHeader
<1>10. CASE c.parts[j].type.kind \in {"content", "message", "array"}
  <2>1. Own(c.parts[j].type, c.parts[j].cells) = WithHeader(c.parts[j].cells)
    BY <1>10 DEF Own
  <2>2. Inside(WithHeader(c.parts[j].cells)) = c.parts[j].cells
    BY OwnCells, InsideHeaderAlone
  <2>3. Part(place, j) = [type |-> c.parts[j].type, cells |-> c.parts[j].cells,
                          at |-> (place.at + (Len(lead) + Len(c.up[j - 1]))) + 1]
    BY <1>3, <1>6, <1>9, <1>10, <2>1, <2>2 DEF Part
  <2> QED
    BY <1>2, <1>9, <1>10, <2>3 DEF At, Skip
<1>11. CASE c.parts[j].type.kind \notin {"content", "message", "array"}
  <2>1. Own(c.parts[j].type, c.parts[j].cells) = c.parts[j].cells
    BY <1>11 DEF Own
  <2>2. Part(place, j) = [type |-> c.parts[j].type, cells |-> c.parts[j].cells,
                          at |-> place.at + (Len(lead) + Len(c.up[j - 1]))]
    BY <1>3, <1>6, <1>9, <1>11, <2>1 DEF Part
  <2> QED
    BY <1>2, <1>9, <1>11, <2>2 DEF At, Skip
<1> QED
  BY <1>10, <1>11

\* Where the cells of a part begin in those of the value.
Offset(t, c, j) ==
  Skip(c.parts[j].type, Len(Lead(t.type, c.x)) + Len(c.up[j - 1]))

LEMMA MadeParts ==
  ASSUME NEW place, NEW t, NEW c, At(place, t), Made(t, c), NEW j \in 1 .. c.n
  PROVE  /\ Well(c.parts[j]) /\ c.parts[j].rank < t.rank
         /\ At(Part(place, j), c.parts[j])
         /\ PartWithHeader(place, j) = Own(c.parts[j].type, c.parts[j].cells)
         /\ Offset(t, c, j) \in Nat
         /\ place.at \in Nat => Part(place, j).at = place.at + Offset(t, c, j)
<1>1. Laid(place, t, c.x, c.parts, c.n, c.s, c.up) /\ c.n \in Nat
  BY MadeLaid
<1>2. /\ At(Part(place, j), c.parts[j])
      /\ PartWithHeader(place, j) = Own(c.parts[j].type, c.parts[j].cells)
      /\ Part(place, j).at
           = Skip(c.parts[j].type, place.at + (Len(Lead(t.type, c.x)) + Len(c.up[j - 1])))
  BY PartsPlaced, ZenonT(60)
<1>3. /\ End(place, j - 1) = Len(Lead(t.type, c.x)) + Len(c.up[j - 1])
      /\ Len(Lead(t.type, c.x)) \in Nat /\ c.up[j - 1] \in Seq(Cell) /\ Len(c.up[j - 1]) \in Nat
  <2>1. j - 1 \in 0 .. c.n
    BY <1>1
  <2> QED
    BY <1>1, <2>1, EndsAt, Zenon
<1>4. PICK l \in Nat, u \in Nat : l = Len(Lead(t.type, c.x)) /\ u = Len(c.up[j - 1])
  BY <1>3
<1>5. Offset(t, c, j) = Skip(c.parts[j].type, l + u)
  BY <1>4 DEF Offset
<1>6. Skip(c.parts[j].type, l + u) \in Nat
  BY DEF Skip
<1>7. ASSUME NEW a \in Nat
      PROVE  Skip(c.parts[j].type, a + (l + u)) = a + Skip(c.parts[j].type, l + u)
  BY DEF Skip
<1> QED
  BY <1>2, <1>4, <1>5, <1>6, <1>7 DEF Made

---------------------------------------------------------------------------
(* Leaves.                                                                 *)

LEMMA PathCons ==
  ASSUME NEW j \in Nat, NEW p \in Seq(Nat)
  PROVE  /\ <<j>> \o p \in Seq(Nat)
         /\ <<j>> \o p # <<>>
         /\ Head(<<j>> \o p) = j
         /\ Tail(<<j>> \o p) = p
         /\ Len(<<j>> \o p) = Len(p) + 1
<1>1. PICK one \in Seq(Nat) : one = <<j>>
  <2>1. <<j>> \in Seq(Nat)
    OBVIOUS
  <2> QED
    BY <2>1
<1>2. Len(one) = 1 /\ one[1] = j
  BY <1>1
<1>3. /\ one \o p \in Seq(Nat) /\ Len(one \o p) = Len(one) + Len(p) /\ Len(p) \in Nat
      /\ \A i \in 1 .. Len(one) + Len(p) :
           (one \o p)[i] = IF i <= Len(one) THEN one[i] ELSE p[i - Len(one)]
  BY ConcatProperties, LenProperties
<1>4. PICK q \in Seq(Nat) : q = one \o p
  BY <1>3
<1>5. Len(q) = 1 + Len(p) /\ q[1] = j
  <2>1. 1 \in 1 .. Len(one) + Len(p)
    BY <1>2, <1>3
  <2> QED
    BY <1>2, <1>3, <1>4, <2>1
<1>6. q # <<>>
  BY <1>3, <1>5, EmptySeq
<1>7. Head(q) = j
  BY <1>5
<1>8. /\ Tail(q) \in Seq(Nat) /\ Len(Tail(q)) = Len(q) - 1
      /\ \A i \in 1 .. Len(Tail(q)) : Tail(q)[i] = q[i + 1]
  BY <1>6, HeadTailProperties
<1>9. ASSUME NEW i \in 1 .. Len(p)
      PROVE  Tail(q)[i] = p[i]
  <2>1. i \in 1 .. Len(Tail(q)) /\ i + 1 \in 1 .. Len(one) + Len(p)
        /\ ~ (i + 1 <= Len(one)) /\ (i + 1) - Len(one) = i
    BY <1>2, <1>3, <1>5, <1>8
  <2> QED
    BY <1>3, <1>4, <1>8, <2>1
<1>10. Tail(q) = p
  <2>1. Len(Tail(q)) = Len(p)
    BY <1>3, <1>5, <1>8
  <2> QED
    BY <1>8, <1>9, <2>1, SeqEqual
<1> QED
  BY <1>1, <1>3, <1>4, <1>5, <1>6, <1>7, <1>10

LEMMA PathSplit ==
  ASSUME NEW q \in Seq(Nat), q # <<>>
  PROVE  /\ Head(q) \in Nat /\ Tail(q) \in Seq(Nat)
         /\ q = <<Head(q)>> \o Tail(q)
         /\ Len(Tail(q)) = Len(q) - 1
<1>1. /\ Head(q) \in Nat /\ Tail(q) \in Seq(Nat) /\ Len(Tail(q)) = Len(q) - 1
      /\ \A i \in 1 .. Len(Tail(q)) : Tail(q)[i] = q[i + 1]
  BY HeadTailProperties
<1>2. Len(q) \in Nat /\ Len(q) >= 1 /\ Head(q) = q[1]
  <2>1. Len(q) \in Nat
    BY LenProperties
  <2>2. Len(q) # 0
    BY EmptySeq
  <2> QED
    BY <2>1, <2>2
<1>3. PICK p \in Seq(Nat), j \in Nat : p = Tail(q) /\ j = Head(q)
  BY <1>1
<1>4. PICK one \in Seq(Nat) : one = <<j>>
  <2>1. <<j>> \in Seq(Nat)
    OBVIOUS
  <2> QED
    BY <2>1
<1>5. Len(one) = 1 /\ one[1] = j
  BY <1>4
<1>6. /\ one \o p \in Seq(Nat) /\ Len(one \o p) = Len(one) + Len(p)
      /\ \A i \in 1 .. Len(one) + Len(p) :
           (one \o p)[i] = IF i <= Len(one) THEN one[i] ELSE p[i - Len(one)]
  BY ConcatProperties
<1>7. Len(p) = Len(q) - 1 /\ \A i \in 1 .. Len(p) : p[i] = q[i + 1]
  BY <1>1, <1>3
<1>8. ASSUME NEW i \in 1 .. Len(q)
      PROVE  q[i] = (one \o p)[i]
  <2>1. i \in 1 .. Len(one) + Len(p)
    BY <1>2, <1>5, <1>7
  <2>2. CASE i = 1
    BY <1>2, <1>3, <1>5, <1>6, <2>1, <2>2
  <2>3. CASE i # 1
    <3>1. ~ (i <= Len(one)) /\ i - Len(one) \in 1 .. Len(p) /\ (i - Len(one)) + 1 = i
      BY <1>2, <1>5, <1>7, <2>3
    <3> QED
      BY <1>6, <1>7, <2>1, <3>1
  <2> QED
    BY <2>2, <2>3
<1>9. q = one \o p
  <2>1. Len(q) = Len(one \o p)
    BY <1>2, <1>5, <1>6, <1>7
  <2> QED
    BY <1>6, <1>8, <2>1, SeqEqual
<1> QED
  BY <1>1, <1>3, <1>4, <1>9

\* The leaves of a value made of parts.
Branches(l, x, parts, n) ==
  /\ IsLeaves(l)
  /\ l[<<>>] = x
  /\ \A j \in 1 .. n : \A p \in DOMAIN parts[j].leaves :
       <<j>> \o p \in DOMAIN l /\ l[<<j>> \o p] = parts[j].leaves[p]
  /\ \A q \in DOMAIN l : q # <<>> =>
       /\ Head(q) \in 1 .. n
       /\ Tail(q) \in DOMAIN parts[Head(q)].leaves
       /\ q = <<Head(q)>> \o Tail(q)

LEMMA JoinIs ==
  ASSUME NEW x, NEW n \in Nat, NEW parts, \A j \in 1 .. n : IsLeaves(parts[j].leaves)
  PROVE  Branches(Join(x, LeavesOf(parts, n)), x, parts, n)
<1> DEFINE ls == LeavesOf(parts, n)
           l == Join(x, ls)
           Under(j) == {<<j>> \o p : p \in DOMAIN ls[j]}
           D == {<<>>} \cup UNION {Under(j) : j \in DOMAIN ls}
           Val(q) == IF q = <<>> THEN x ELSE ls[Head(q)][Tail(q)]
<1>1. DOMAIN ls = 1 .. n /\ \A j \in 1 .. n : ls[j] = parts[j].leaves /\ IsLeaves(ls[j])
  BY DEF LeavesOf
<1>. HIDE DEF ls
<1>2. \A j \in 1 .. n : \A p \in DOMAIN ls[j] :
        /\ <<j>> \o p \in Seq(Nat) /\ <<j>> \o p # <<>>
        /\ Head(<<j>> \o p) = j /\ Tail(<<j>> \o p) = p
  <2>1. ASSUME NEW j \in 1 .. n, NEW p \in DOMAIN ls[j]
        PROVE  /\ <<j>> \o p \in Seq(Nat) /\ <<j>> \o p # <<>>
               /\ Head(<<j>> \o p) = j /\ Tail(<<j>> \o p) = p
    <3>1. j \in Nat /\ p \in Seq(Nat)
      BY <1>1, <2>1 DEF IsLeaves
    <3> QED
      BY <3>1, PathCons
  <2> QED
    BY <2>1
<1>3. l = [q \in D |-> Val(q)]
  BY DEF Join
<1>. HIDE DEF l, D, Val, Under
<1>4. DOMAIN l = D /\ l = [q \in DOMAIN l |-> l[q]] /\ \A q \in D : l[q] = Val(q)
  BY <1>3
<1>5. <<>> \in D /\ Val(<<>>) = x
  BY DEF D, Val
<1>6. ASSUME NEW j \in 1 .. n, NEW p \in DOMAIN ls[j]
      PROVE  <<j>> \o p \in D /\ Val(<<j>> \o p) = ls[j][p]
  <2>1. <<j>> \o p \in Under(j)
    BY DEF Under
  <2>2. <<j>> \o p \in D
    BY <1>1, <2>1 DEF D
  <2> QED
    BY <1>2, <2>2 DEF Val
<1>7. ASSUME NEW q \in D, q # <<>>
      PROVE  /\ Head(q) \in 1 .. n /\ Tail(q) \in DOMAIN ls[Head(q)]
             /\ q = <<Head(q)>> \o Tail(q) /\ q \in Seq(Nat)
  <2>1. PICK j \in 1 .. n : q \in Under(j)
    BY <1>1, <1>7 DEF D
  <2>2. PICK p \in DOMAIN ls[j] : q = <<j>> \o p
    BY <2>1 DEF Under
  <2> QED
    BY <1>2, <2>2
<1>8. IsLeaves(l)
  <2>1. <<>> \in Seq(Nat)
    OBVIOUS
  <2> QED
    BY <1>4, <1>5, <1>7, <2>1 DEF IsLeaves
<1> QED
  BY <1>1, <1>4, <1>5, <1>6, <1>7, <1>8 DEF l, ls, Branches

\* A value with its leaf, and those of its parts.
LEMMA MadeLeaves ==
  ASSUME NEW t, NEW c, Made(t, c)
  PROVE  /\ Branches(t.leaves, c.x, c.parts, c.n)
         /\ c.n \in Nat
         /\ \A j \in 1 .. c.n : IsLeaves(c.parts[j].leaves)
<1>1. c.n \in Nat /\ t.leaves = Join(c.x, LeavesOf(c.parts, c.n))
  BY DEF Made, Composed
<1>2. \A j \in 1 .. c.n : IsLeaves(c.parts[j].leaves)
  BY WellUnfold DEF Made, IsTyped
<1> QED
  BY <1>1, <1>2, JoinIs

\* A leaf of its own has no others.
LEMMA SingleIs ==
  ASSUME NEW v
  PROVE  DOMAIN Single(v) = {<<>>} /\ Single(v)[<<>>] = v /\ IsLeaves(Single(v))
<1>1. <<>> \in Seq(Nat)
  OBVIOUS
<1> QED
  BY <1>1 DEF Single, IsLeaves

LEMMA BelowRoot ==
  ASSUME NEW l, IsLeaves(l)
  PROVE  Below(l, <<>>) = l
<1>1. \A q \in DOMAIN l : q \in Seq(Nat) /\ IsPrefix(<<>>, q) /\ From(q, Len(<<>>)) = q
  <2>1. ASSUME NEW q \in DOMAIN l
        PROVE  q \in Seq(Nat) /\ IsPrefix(<<>>, q) /\ From(q, Len(<<>>)) = q
    <3>1. q \in Seq(Nat) /\ Len(q) \in Nat
      BY LenProperties DEF IsLeaves
    <3>2. IsPrefix(<<>>, q)
      BY <3>1 DEF IsPrefix
    <3>3. From(q, Len(<<>>)) = SubSeq(q, 1, Len(q))
      BY <3>1 DEF From
    <3> QED
      BY <3>1, <3>2, <3>3, SubSeqFull
  <2> QED
    BY <2>1
<1>2. {From(q, Len(<<>>)) : q \in {r \in DOMAIN l : IsPrefix(<<>>, r)}} = DOMAIN l
  BY <1>1
<1>3. \A q \in DOMAIN l : <<>> \o q = q
  BY <1>1, ConcatEmptySeq
<1>4. Below(l, <<>>) = [p \in DOMAIN l |-> l[<<>> \o p]]
  BY <1>2 DEF Below
<1> QED
  BY <1>3, <1>4 DEF IsLeaves

\* Prefixes of paths.
LEMMA PrefixRest ==
  ASSUME NEW p \in Seq(Nat), NEW q \in Seq(Nat), IsPrefix(p, q)
  PROVE  From(q, Len(p)) \in Seq(Nat) /\ q = p \o From(q, Len(p))
<1>1. Len(p) \in Nat /\ Len(q) \in Nat /\ Len(p) <= Len(q)
      /\ SubSeq(p, 1, Len(p)) = SubSeq(q, 1, Len(p)) /\ SubSeq(p, 1, Len(p)) = p
  BY LenProperties, SubSeqFull DEF IsPrefix
<1>2. \A i \in 1 .. Len(q) : q[i] \in Nat
  BY ElementOfSeq
<1>3. PICK r \in Seq(Nat) :
        /\ r = From(q, Len(p))
        /\ Len(r) = Len(q) - Len(p)
        /\ \A i \in 1 .. Len(q) - Len(p) : r[i] = q[Len(p) + i]
  <2>1. PICK m \in Nat : m = Len(p)
    BY <1>1
  <2>2. \A i \in (m + 1) .. Len(q) : q[i] \in Nat
    BY <1>1, <1>2, <2>1
  <2>3. /\ SubSeq(q, m + 1, Len(q)) \in Seq(Nat)
        /\ Len(SubSeq(q, m + 1, Len(q))) = IF m + 1 <= Len(q) THEN Len(q) - (m + 1) + 1 ELSE 0
        /\ \A i \in 1 .. Len(q) - (m + 1) + 1 :
             SubSeq(q, m + 1, Len(q))[i] = q[(m + 1) + i - 1]
    BY <1>1, <2>1, <2>2, SubSeqProperties
  <2>4. Len(SubSeq(q, m + 1, Len(q))) = Len(q) - m
    BY <1>1, <2>1, <2>3
  <2>5. \A i \in 1 .. Len(q) - m : SubSeq(q, m + 1, Len(q))[i] = q[m + i]
    <3>1. ASSUME NEW i \in 1 .. Len(q) - m
          PROVE  SubSeq(q, m + 1, Len(q))[i] = q[m + i]
      <4>1. i \in 1 .. Len(q) - (m + 1) + 1 /\ (m + 1) + i - 1 = m + i
        BY <1>1, <2>1
      <4> QED
        BY <2>3, <4>1
    <3> QED
      BY <3>1
  <2> QED
    BY <2>1, <2>3, <2>4, <2>5 DEF From
<1>4. \A i \in 1 .. Len(p) : q[i] = p[i]
  <2>1. \A i \in 1 .. Len(p) : q[i] \in Nat
    BY <1>1, <1>2
  <2>2. \A i \in 1 .. Len(p) : SubSeq(q, 1, Len(p))[i] = q[i]
    <3>1. \A i \in 1 .. Len(p) - 1 + 1 : SubSeq(q, 1, Len(p))[i] = q[1 + i - 1]
      BY <1>1, <2>1, SubSeqProperties
    <3> QED
      BY <1>1, <3>1
  <2> QED
    BY <1>1, <2>2
<1>5. /\ p \o r \in Seq(Nat) /\ Len(p \o r) = Len(p) + Len(r)
      /\ \A i \in 1 .. Len(p) + Len(r) :
           (p \o r)[i] = IF i <= Len(p) THEN p[i] ELSE r[i - Len(p)]
  BY ConcatProperties
<1>6. Len(p \o r) = Len(q)
  BY <1>1, <1>3, <1>5
<1>7. ASSUME NEW i \in 1 .. Len(q)
      PROVE  q[i] = (p \o r)[i]
  <2>1. i \in 1 .. Len(p) + Len(r)
    BY <1>1, <1>3
  <2>2. CASE i <= Len(p)
    BY <1>1, <1>4, <1>5, <2>1, <2>2
  <2>3. CASE ~ (i <= Len(p))
    <3>1. i - Len(p) \in 1 .. Len(q) - Len(p) /\ Len(p) + (i - Len(p)) = i
      BY <1>1, <2>3
    <3>2. r[i - Len(p)] = q[Len(p) + (i - Len(p))]
      BY <1>3, <3>1
    <3> QED
      BY <1>5, <2>1, <2>3, <3>1, <3>2
  <2> QED
    BY <2>2, <2>3
<1>8. q = p \o r
  BY <1>5, <1>6, <1>7, SeqEqual
<1> QED
  BY <1>3, <1>8

LEMMA PrefixOf ==
  ASSUME NEW p \in Seq(Nat), NEW s \in Seq(Nat)
  PROVE  p \o s \in Seq(Nat) /\ IsPrefix(p, p \o s) /\ From(p \o s, Len(p)) = s
<1>1. PICK q \in Seq(Nat) : q = p \o s
  BY ConcatProperties
<1>2. /\ Len(q) = Len(p) + Len(s) /\ Len(p) \in Nat /\ Len(s) \in Nat /\ Len(q) \in Nat
      /\ \A i \in 1 .. Len(p) + Len(s) : q[i] = IF i <= Len(p) THEN p[i] ELSE s[i - Len(p)]
  BY <1>1, ConcatProperties, LenProperties
<1>3. \A i \in 1 .. Len(p) : q[i] = p[i] /\ q[i] \in Nat
  BY <1>2, ElementOfSeq
<1>4. IsPrefix(p, q)
  <2>1. /\ SubSeq(q, 1, Len(p)) \in Seq(Nat)
        /\ Len(SubSeq(q, 1, Len(p))) = Len(p)
        /\ \A i \in 1 .. Len(p) : SubSeq(q, 1, Len(p))[i] = q[i]
    <3>1. /\ SubSeq(q, 1, Len(p)) \in Seq(Nat)
          /\ Len(SubSeq(q, 1, Len(p))) = IF 1 <= Len(p) THEN Len(p) - 1 + 1 ELSE 0
          /\ \A i \in 1 .. Len(p) - 1 + 1 : SubSeq(q, 1, Len(p))[i] = q[1 + i - 1]
      BY <1>2, <1>3, SubSeqProperties
    <3>2. Len(SubSeq(q, 1, Len(p))) = Len(p)
      BY <1>2, <3>1
    <3>3. \A i \in 1 .. Len(p) : SubSeq(q, 1, Len(p))[i] = q[i]
      BY <1>2, <3>1
    <3> QED
      BY <3>1, <3>2, <3>3
  <2>2. SubSeq(q, 1, Len(p)) = p
    BY <1>3, <2>1, SeqEqual
  <2>3. SubSeq(p, 1, Len(p)) = p
    BY SubSeqFull
  <2> QED
    BY <1>2, <2>2, <2>3 DEF IsPrefix
<1>5. From(q, Len(p)) \in Seq(Nat) /\ q = p \o From(q, Len(p))
  BY <1>4, PrefixRest
<1>6. PICK r \in Seq(Nat) : r = From(q, Len(p))
  BY <1>5
<1>7. /\ Len(q) = Len(p) + Len(r) /\ Len(r) \in Nat
      /\ \A i \in 1 .. Len(p) + Len(r) : q[i] = IF i <= Len(p) THEN p[i] ELSE r[i - Len(p)]
  <2>1. q = p \o r
    BY <1>5, <1>6
  <2>2. /\ Len(p \o r) = Len(p) + Len(r) /\ Len(r) \in Nat
        /\ \A i \in 1 .. Len(p) + Len(r) :
             (p \o r)[i] = IF i <= Len(p) THEN p[i] ELSE r[i - Len(p)]
    BY ConcatProperties, LenProperties
  <2> QED
    BY <2>1, <2>2
<1>8. Len(r) = Len(s)
  BY <1>2, <1>7
<1>9. ASSUME NEW i \in 1 .. Len(r)
      PROVE  r[i] = s[i]
  <2>1. /\ Len(p) + i \in 1 .. Len(p) + Len(r) /\ Len(p) + i \in 1 .. Len(p) + Len(s)
        /\ ~ (Len(p) + i <= Len(p)) /\ (Len(p) + i) - Len(p) = i
    BY <1>2, <1>7, <1>8
  <2> QED
    BY <1>2, <1>7, <2>1
<1>10. r = s
  BY <1>8, <1>9, SeqEqual
<1> QED
  BY <1>1, <1>4, <1>6, <1>10

\* The leaves below a path are those the path leads on to.
LEMMA BelowIs ==
  ASSUME NEW l, IsLeaves(l), NEW path \in Seq(Nat)
  PROVE  Below(l, path) = [s \in {r \in Seq(Nat) : path \o r \in DOMAIN l} |-> l[path \o s]]
<1> DEFINE D == {From(q, Len(path)) : q \in {r \in DOMAIN l : IsPrefix(path, r)}}
           E == {r \in Seq(Nat) : path \o r \in DOMAIN l}
<1>1. ASSUME NEW s \in D
      PROVE  s \in E
  <2>1. PICK q \in DOMAIN l : IsPrefix(path, q) /\ s = From(q, Len(path))
    OBVIOUS
  <2>2. q \in Seq(Nat)
    BY DEF IsLeaves
  <2> QED
    BY <2>1, <2>2, PrefixRest
<1>2. ASSUME NEW s \in E
      PROVE  s \in D
  <2>1. path \o s \in DOMAIN l /\ IsPrefix(path, path \o s) /\ From(path \o s, Len(path)) = s
    BY PrefixOf
  <2> QED
    BY <2>1
<1>3. D = E
  BY <1>1, <1>2
<1>4. Below(l, path) = [s \in D |-> l[path \o s]]
  BY DEF Below
<1> QED
  BY <1>3, <1>4

LEMMA BelowPart ==
  ASSUME NEW t, NEW c, Made(t, c), NEW j \in 1 .. c.n, NEW p \in DOMAIN c.parts[j].leaves
  PROVE  Below(t.leaves, <<j>> \o p) = Below(c.parts[j].leaves, p)
<1>1. PICK l, k : l = t.leaves /\ k = c.parts[j].leaves
  OBVIOUS
<1>2. IsLeaves(l) /\ IsLeaves(k) /\ j \in Nat /\ p \in Seq(Nat)
  BY <1>1, MadeLeaves DEF Branches, IsLeaves
<1>3. \A r \in DOMAIN k : <<j>> \o r \in DOMAIN l /\ l[<<j>> \o r] = k[r]
  BY <1>1, MadeLeaves DEF Branches
<1>4. \A q \in DOMAIN l : q # <<>> /\ Head(q) = j => Tail(q) \in DOMAIN k
  <2>1. ASSUME NEW q \in DOMAIN l, q # <<>>, Head(q) = j
        PROVE  Tail(q) \in DOMAIN k
    <3>1. \A r \in DOMAIN t.leaves : r # <<>> => Tail(r) \in DOMAIN c.parts[Head(r)].leaves
      BY MadeLeaves DEF Branches
    <3> QED
      BY <1>1, <2>1, <3>1
  <2> QED
    BY <2>1
<1>5. <<j>> \o p \in Seq(Nat)
  BY <1>2, PathCons
<1>6. ASSUME NEW s \in Seq(Nat)
      PROVE  /\ (<<j>> \o p) \o s \in DOMAIN l <=> p \o s \in DOMAIN k
             /\ p \o s \in DOMAIN k => l[(<<j>> \o p) \o s] = k[p \o s]
  <2>1. PICK r \in Seq(Nat) : r = p \o s
    BY <1>2, ConcatProperties
  <2>2. (<<j>> \o p) \o s = <<j>> \o r
    <3>1. <<j>> \in Seq(Nat)
      BY <1>2
    <3> QED
      BY <1>2, <2>1, <3>1, ConcatAssociative
  <2>3. <<j>> \o r # <<>> /\ Head(<<j>> \o r) = j /\ Tail(<<j>> \o r) = r
    BY <1>2, PathCons
  <2> QED
    BY <1>3, <1>4, <2>1, <2>2, <2>3
<1>7. {r \in Seq(Nat) : (<<j>> \o p) \o r \in DOMAIN l} = {r \in Seq(Nat) : p \o r \in DOMAIN k}
  BY <1>6
<1>8. Below(l, <<j>> \o p) = [s \in {r \in Seq(Nat) : (<<j>> \o p) \o r \in DOMAIN l} |-> l[(<<j>> \o p) \o s]]
  BY <1>2, <1>5, BelowIs
<1>9. Below(k, p) = [s \in {r \in Seq(Nat) : p \o r \in DOMAIN k} |-> k[p \o s]]
  BY <1>2, BelowIs
<1>10. \A s \in {r \in Seq(Nat) : p \o r \in DOMAIN k} : l[(<<j>> \o p) \o s] = k[p \o s]
  BY <1>6
<1>11. Below(l, <<j>> \o p) = Below(k, p)
  BY <1>7, <1>8, <1>9, <1>10
<1> QED
  BY <1>1, <1>11

---------------------------------------------------------------------------
(* Getters read the leaves.                                                *)

LEMMA ObserveIs ==
  ASSUME NEW t, Well(t), NEW place, At(place, t)
  PROVE  Observe(place) = t.leaves[<<>>]
<1>1. place.type = t.type /\ place.cells = t.cells
  BY DEF At
<1>2. CASE IsScalar(t)
  <2>1. PICK v : /\ t.cells = <<<<t.type.of, v>>>> /\ t.leaves = Single(v)
    BY <1>2 DEF IsScalar
  <2>2. t.cells # <<>> /\ t.cells[1] = <<t.type.of, v>>
    BY <2>1
  <2>3. t.cells[1][1] = t.type.of /\ t.cells[1][2] = v
    BY <2>2
  <2>4. First(t.cells, t.type.of) = v
    BY <2>2, <2>3, Zenon DEF First
  <2>5. Observe(place) = First(t.cells, t.type.of)
    BY <1>1, <1>2 DEF Observe, IsScalar
  <2> QED
    BY <2>1, <2>4, <2>5, SingleIs
<1>3. CASE IsContent(t)
  <2>1. Observe(place) = t.cells
    BY <1>1, <1>3 DEF Observe, IsContent
  <2> QED
    BY <1>3, <2>1, SingleIs DEF IsContent
<1>4. ASSUME NEW c, Made(t, c)
      PROVE  Observe(place) = t.leaves[<<>>]
  <2>1. t.leaves[<<>>] = c.x
    BY <1>4, MadeLeaves DEF Branches
  <2>2. Composed(t, c.x, c.parts, c.n) /\ \A j \in 1 .. c.n : Well(c.parts[j])
    BY <1>4 DEF Made
  <2>3. CASE t.type.kind = "message"
    <3>1. c.x = (t.cells = <<>>)
      BY <2>2, <2>3 DEF Composed
    <3>2. Observe(place) = (t.cells = <<>>)
      BY <1>1, <2>3 DEF Observe
    <3> QED
      BY <2>1, <3>1, <3>2
  <2>4. CASE t.type.kind = "array"
    <3>1. c.x = c.n
      BY <2>2, <2>4 DEF Composed
    <3>2. Count(place) = c.n
      BY <2>2, <2>4, CountIs
    <3>3. Observe(place) = Count(place)
      BY <1>1, <2>4 DEF Observe
    <3> QED
      BY <2>1, <3>1, <3>2, <3>3
  <2>5. CASE t.type.kind = "union"
    <3>1. First(place.cells, "index") = c.x
      BY <2>2, <2>5, LeadIs
    <3>2. Observe(place) = First(place.cells, "index")
      BY <1>1, <2>5 DEF Observe
    <3> QED
      BY <2>1, <3>1, <3>2
  <2> QED
    BY <2>2, <2>3, <2>4, <2>5 DEF Composed
<1> QED
  BY <1>2, <1>3, <1>4, WellMade

\* Walk's own recursion, n steps of it.
Reached(g, n, path, place) ==
  g = [k \in 0 .. n |-> IF k = 0 THEN place ELSE Part(g[k - 1], path[k])]

LEMMA ReachedExists ==
  ASSUME NEW path, NEW place
  PROVE  \A n \in Nat : \E g : Reached(g, n, path, place)
<1> DEFINE S == {n \in Nat : \E g : Reached(g, n, path, place)}
<1>1. 0 \in S
  <2> DEFINE g == [k \in 0 .. 0 |-> place]
  <2>1. g = [k \in 0 .. 0 |-> IF k = 0 THEN place ELSE Part(g[k - 1], path[k])]
    OBVIOUS
  <2>2. Reached(g, 0, path, place)
    BY <2>1 DEF Reached
  <2> QED
    BY <2>2
<1>2. ASSUME NEW n \in Nat, n \in S
      PROVE  n + 1 \in S
  <2>1. PICK g : Reached(g, n, path, place)
    BY <1>2
  <2>2. g = [k \in 0 .. n |-> IF k = 0 THEN place ELSE Part(g[k - 1], path[k])]
    BY <2>1 DEF Reached
  <2> DEFINE last == Part(g[n], path[n + 1])
             h == [k \in 0 .. n + 1 |-> IF k = n + 1 THEN last ELSE g[k]]
  <2>3. ASSUME NEW k \in 0 .. n + 1
        PROVE  h[k] = IF k = 0 THEN place ELSE Part(h[k - 1], path[k])
    <3>1. CASE k = n + 1
      <4>1. k # 0 /\ k - 1 = n /\ n \in 0 .. n + 1 /\ n # n + 1
        BY <3>1
      <4>2. h[k] = last /\ h[k - 1] = g[n]
        BY <3>1, <4>1
      <4> QED
        BY <3>1, <4>1, <4>2
    <3>2. CASE k = 0
      <4>1. k # n + 1 /\ k \in 0 .. n
        BY <3>2
      <4>2. h[k] = g[k]
        BY <4>1
      <4>3. g[k] = place
        BY <2>2, <3>2, <4>1
      <4> QED
        BY <3>2, <4>2, <4>3
    <3>3. CASE k # 0 /\ k # n + 1
      <4>1. k \in 0 .. n /\ k - 1 \in 0 .. n + 1 /\ k - 1 # n + 1
        BY <3>3
      <4>2. h[k] = g[k] /\ h[k - 1] = g[k - 1]
        BY <3>3, <4>1
      <4>. HIDE DEF h
      <4>3. g[k] = Part(g[k - 1], path[k])
        BY <2>2, <3>3, <4>1
      <4> QED
        BY <3>3, <4>2, <4>3
    <3> QED
      BY <3>1, <3>2, <3>3
  <2>4. h = [k \in 0 .. n + 1 |-> h[k]]
    OBVIOUS
  <2>. HIDE DEF h
  <2>5. h = [k \in 0 .. n + 1 |-> IF k = 0 THEN place ELSE Part(h[k - 1], path[k])]
    BY <2>3, <2>4
  <2>6. Reached(h, n + 1, path, place)
    BY <2>5 DEF Reached
  <2> QED
    BY <2>6
<1>. HIDE DEF S
<1>3. \A n \in Nat : n \in S
  BY <1>1, <1>2, NatSetInduction
<1> QED
  BY <1>3 DEF S

Trail(g, n, path, place) ==
  /\ g[0] = place
  /\ \A k \in 1 .. n : g[k] = Part(g[k - 1], path[k])

LEMMA ReachedAt ==
  ASSUME NEW path, NEW place, NEW n \in Nat, NEW g, Reached(g, n, path, place)
  PROVE  Trail(g, n, path, place)
<1>1. g = [k \in 0 .. n |-> IF k = 0 THEN place ELSE Part(g[k - 1], path[k])]
  BY DEF Reached
<1>2. \A k \in 0 .. n : g[k] = IF k = 0 THEN place ELSE Part(g[k - 1], path[k])
  BY <1>1
<1>3. 0 \in 0 .. n /\ \A k \in 1 .. n : k \in 0 .. n /\ k # 0
  OBVIOUS
<1> QED
  BY <1>2, <1>3 DEF Trail

LEMMA ReachedOnly ==
  ASSUME NEW n \in Nat, NEW path, NEW place, NEW g, Trail(g, n, path, place),
         NEW h, Trail(h, n, path, place)
  PROVE  g[n] = h[n]
<1> DEFINE S == {k \in Nat : k <= n => g[k] = h[k]}
<1>1. 0 \in S
  BY DEF Trail
<1>2. ASSUME NEW k \in Nat, k \in S
      PROVE  k + 1 \in S
  <2>1. SUFFICES ASSUME k + 1 <= n PROVE g[k + 1] = h[k + 1]
    OBVIOUS
  <2>2. k <= n /\ k + 1 \in 1 .. n /\ (k + 1) - 1 = k
    BY <2>1
  <2>3. g[k] = h[k]
    BY <1>2, <2>2
  <2> QED
    BY <2>2, <2>3 DEF Trail
<1>. HIDE DEF S
<1>3. \A k \in Nat : k \in S
  BY <1>1, <1>2, NatSetInduction
<1>4. n \in S /\ n <= n
  BY <1>3
<1> QED
  BY <1>4 DEF S

LEMMA WalkIs ==
  ASSUME NEW path \in Seq(Nat), NEW place
  PROVE  \E g : Trail(g, Len(path), path, place) /\ Walk(place, path) = g[Len(path)]
<1> DEFINE g == CHOOSE h : Reached(h, Len(path), path, place)
<1>1. Reached(g, Len(path), path, place)
  BY ReachedExists, LenProperties
<1>2. Walk(place, path) = g[Len(path)]
  BY Zenon DEF Walk, Reached
<1>. HIDE DEF g
<1>3. Len(path) \in Nat
  BY LenProperties
<1>4. Trail(g, Len(path), path, place)
  BY <1>1, <1>3, ReachedAt
<1> QED
  BY <1>2, <1>4

LEMMA WalkHere ==
  ASSUME NEW place
  PROVE  Walk(place, <<>>) = place
<1>1. <<>> \in Seq(Nat) /\ Len(<<>>) = 0
  OBVIOUS
<1>2. PICK path \in Seq(Nat) : path = <<>> /\ Len(path) = 0
  BY <1>1
<1>3. PICK g : Trail(g, Len(path), path, place) /\ Walk(place, path) = g[Len(path)]
  BY WalkIs
<1> QED
  BY <1>2, <1>3 DEF Trail

LEMMA WalkOn ==
  ASSUME NEW place, NEW j \in Nat, NEW p \in Seq(Nat)
  PROVE  Walk(place, <<j>> \o p) = Walk(Part(place, j), p)
<1>1. PICK q \in Seq(Nat) : q = <<j>> \o p
  BY PathCons
<1>2. Len(q) = Len(p) + 1 /\ Len(p) \in Nat /\ Len(q) \in Nat
  BY <1>1, PathCons, LenProperties
<1>3. q[1] = j /\ \A k \in 1 .. Len(p) : q[k + 1] = p[k]
  <2>1. PICK one \in Seq(Nat) : one = <<j>>
    <3>1. <<j>> \in Seq(Nat)
      OBVIOUS
    <3> QED
      BY <3>1
  <2>2. Len(one) = 1 /\ one[1] = j
    BY <2>1
  <2>3. \A i \in 1 .. Len(one) + Len(p) :
          (one \o p)[i] = IF i <= Len(one) THEN one[i] ELSE p[i - Len(one)]
    BY ConcatProperties
  <2>4. \A i \in 1 .. 1 + Len(p) : q[i] = IF i <= 1 THEN one[i] ELSE p[i - 1]
    BY <1>1, <2>1, <2>2, <2>3
  <2>5. 1 \in 1 .. 1 + Len(p)
    BY <1>2
  <2>6. ASSUME NEW k \in 1 .. Len(p)
        PROVE  q[k + 1] = p[k]
    <3>1. k + 1 \in 1 .. 1 + Len(p) /\ ~ (k + 1 <= 1) /\ (k + 1) - 1 = k
      BY <1>2
    <3> QED
      BY <2>4, <3>1
  <2> QED
    BY <2>2, <2>4, <2>5, <2>6
<1>4. PICK g : Trail(g, Len(q), q, place) /\ Walk(place, q) = g[Len(q)]
  BY WalkIs
<1>5. PICK f : Trail(f, Len(p), p, Part(place, j)) /\ Walk(Part(place, j), p) = f[Len(p)]
  BY WalkIs
<1> DEFINE h == [k \in 0 .. Len(p) |-> g[k + 1]]
<1>8. h[0] = f[0]
  <2>1. 0 \in 0 .. Len(p) /\ 1 \in 1 .. Len(q) /\ 1 - 1 = 0 /\ 0 + 1 = 1
    BY <1>2
  <2>2. h[0] = g[1]
    BY <2>1
  <2> QED
    BY <1>3, <1>4, <1>5, <2>1, <2>2 DEF Trail
<1>9. ASSUME NEW k \in 1 .. Len(p)
      PROVE  h[k] = Part(h[k - 1], p[k])
  <2>1. /\ k \in 0 .. Len(p) /\ k - 1 \in 0 .. Len(p)
        /\ k + 1 \in 1 .. Len(q) /\ (k + 1) - 1 = k /\ (k - 1) + 1 = k
    BY <1>2
  <2>2. h[k] = g[k + 1] /\ h[k - 1] = g[k]
    BY <2>1
  <2>. HIDE DEF h
  <2> QED
    BY <1>3, <1>4, <2>1, <2>2 DEF Trail
<1>10. h[Len(p)] = g[Len(q)]
  <2>1. Len(p) \in 0 .. Len(p)
    BY <1>2
  <2> QED
    BY <1>2, <2>1
<1>. HIDE DEF h
<1>11. h[Len(p)] = f[Len(p)]
  <2>1. Trail(h, Len(p), p, Part(place, j))
    BY <1>5, <1>8, <1>9 DEF Trail
  <2>2. Len(p) \in Nat
    BY <1>2
  <2> QED
    BY <1>5, <2>1, <2>2, ReachedOnly
<1> QED
  BY <1>1, <1>4, <1>5, <1>10, <1>11

\* A path leads to the value it names, in every buffer that has it.
Reads(t, path, u) ==
  /\ Well(u)
  /\ u.leaves = Below(t.leaves, path)
  /\ \A place : At(place, t) => At(Walk(place, path), u)

\* A path goes into a part, and on there.
Into(t, path, c, j, p) ==
  /\ Made(t, c)
  /\ j \in 1 .. c.n /\ j \in Nat
  /\ p \in DOMAIN c.parts[j].leaves /\ p \in Seq(Nat)
  /\ path = <<j>> \o p
  /\ Len(path) \in Nat /\ Len(p) \in Nat /\ Len(path) = Len(p) + 1

\* A value with a path into it is made of parts.
LEMMA PathIntoParts ==
  ASSUME NEW t, Well(t), NEW path \in DOMAIN t.leaves, path # <<>>
  PROVE  \E c, j, p : Into(t, path, c, j, p)
<1>1. ASSUME IsScalar(t) \/ IsContent(t)
      PROVE  FALSE
  <2>1. PICK v : t.leaves = Single(v)
    BY <1>1 DEF IsScalar, IsContent
  <2> QED
    BY <2>1, SingleIs
<1>2. PICK c : Made(t, c)
  BY <1>1, WellMade
<1>3. /\ Head(path) \in 1 .. c.n
      /\ Tail(path) \in DOMAIN c.parts[Head(path)].leaves
      /\ path = <<Head(path)>> \o Tail(path)
  BY <1>2, MadeLeaves DEF Branches
<1>4. PICK j, p : j = Head(path) /\ p = Tail(path)
  OBVIOUS
<1>5. c.n \in Nat /\ IsLeaves(c.parts[j].leaves)
  BY <1>2, <1>3, <1>4, MadeLeaves
<1>6. j \in 1 .. c.n /\ p \in DOMAIN c.parts[j].leaves /\ path = <<j>> \o p
  BY <1>3, <1>4
<1>7. j \in Nat /\ p \in Seq(Nat)
  BY <1>5, <1>6 DEF IsLeaves
<1>8. Len(p) \in Nat /\ Len(path) = Len(p) + 1
  BY <1>6, <1>7, PathCons, LenProperties
<1>9. Len(path) \in Nat
  BY <1>8
<1> QED
  BY <1>2, <1>6, <1>7, <1>8, <1>9 DEF Into

LEMMA Reading ==
  ASSUME NEW t, Well(t), NEW path \in DOMAIN t.leaves
  PROVE  \E u : Reads(t, path, u)
<1> DEFINE Has(k) == \A s, q : Well(s) /\ q \in DOMAIN s.leaves /\ Len(q) = k => \E u : Reads(s, q, u)
           S == {k \in Nat : Has(k)}
<1>1. ASSUME NEW s, Well(s)
      PROVE  Reads(s, <<>>, s)
  <2>1. IsLeaves(s.leaves)
    BY <1>1, WellUnfold DEF IsTyped
  <2> QED
    BY <1>1, <2>1, BelowRoot, WalkHere DEF Reads
<1>2. Has(0)
  <2>1. ASSUME NEW s, NEW q, Well(s), q \in DOMAIN s.leaves, Len(q) = 0
        PROVE  \E u : Reads(s, q, u)
    <3>1. q \in Seq(Nat)
      BY <2>1, WellUnfold DEF IsTyped, IsLeaves
    <3>2. q = <<>>
      BY <2>1, <3>1, EmptySeq
    <3> QED
      BY <1>1, <2>1, <3>2
  <2> QED
    BY <2>1
<1>3. ASSUME NEW k \in Nat, Has(k)
      PROVE  Has(k + 1)
  <2>1. ASSUME NEW s, NEW q, Well(s), q \in DOMAIN s.leaves, Len(q) = k + 1
        PROVE  \E u : Reads(s, q, u)
    <3>1. q # <<>>
      BY <2>1, EmptySeq
    <3>0. PICK c, j, p : Into(s, q, c, j, p)
      BY <2>1, <3>1, PathIntoParts
    <3>2. /\ Made(s, c) /\ j \in 1 .. c.n /\ j \in Nat
          /\ p \in DOMAIN c.parts[j].leaves /\ p \in Seq(Nat)
          /\ q = <<j>> \o p
          /\ Len(p) \in Nat /\ Len(q) = Len(p) + 1
      BY <3>0 DEF Into
    <3>3. Len(p) = k
      BY <2>1, <3>2
    <3>4. Well(c.parts[j])
      BY <3>2 DEF Made
    <3>5. PICK u : Reads(c.parts[j], p, u)
      BY <1>3, <3>2, <3>3, <3>4
    <3>6. u.leaves = Below(s.leaves, q)
      BY <3>2, <3>5, BelowPart DEF Reads
    <3>7. ASSUME NEW place, At(place, s)
          PROVE  At(Walk(place, q), u)
      <4>1. At(Part(place, j), c.parts[j])
        BY <3>2, <3>7, MadeParts
      <4>2. Walk(place, q) = Walk(Part(place, j), p)
        BY <3>2, WalkOn
      <4> QED
        BY <3>5, <4>1, <4>2 DEF Reads
    <3> QED
      BY <3>5, <3>6, <3>7 DEF Reads
  <2> QED
    BY <2>1
<1>. HIDE DEF Has
<1>4. 0 \in S /\ \A k \in Nat : k \in S => k + 1 \in S
  BY <1>2, <1>3
<1>. HIDE DEF S
<1>5. \A k \in Nat : k \in S
  BY <1>4, NatSetInduction
<1>6. Len(path) \in Nat
  <2>1. path \in Seq(Nat)
    BY WellUnfold DEF IsTyped, IsLeaves
  <2> QED
    BY <2>1, LenProperties
<1>7. Has(Len(path))
  BY <1>5, <1>6 DEF S
<1> QED
  BY <1>7 DEF Has

---------------------------------------------------------------------------
(* The encoding is canonical.                                              *)

\* Values of one type, made of the same: the parts' types are the same.
LEMMA SameChildren ==
  ASSUME NEW t, NEW c, Made(t, c), NEW u, NEW d, Made(u, d), t.type = u.type, c.x = d.x
  PROVE  c.n = d.n /\ \A j \in 1 .. c.n : c.parts[j].type = d.parts[j].type
<1>1. Composed(t, c.x, c.parts, c.n) /\ Composed(u, d.x, d.parts, d.n)
  BY DEF Made
<1>2. c.n = d.n
  <2>1. CASE t.type.kind = "message"
    <3>1. /\ c.x = (t.cells = <<>>)
          /\ c.n = IF t.cells = <<>> THEN 0 ELSE Len(ReaderOf(t.type.of).fields)
      BY <1>1, <2>1 DEF Composed
    <3>2. /\ d.x = (u.cells = <<>>)
          /\ d.n = IF u.cells = <<>> THEN 0 ELSE Len(ReaderOf(t.type.of).fields)
      BY <1>1, <2>1 DEF Composed
    <3>3. CASE t.cells = <<>>
      BY <3>1, <3>2, <3>3
    <3>4. CASE t.cells # <<>>
      BY <3>1, <3>2, <3>4
    <3> QED
      BY <3>3, <3>4
  <2>2. CASE t.type.kind = "array"
    BY <1>1, <2>2, Zenon DEF Composed
  <2>3. CASE t.type.kind = "union"
    BY <1>1, <2>3, Zenon DEF Composed
  <2> QED
    BY <1>1, <2>1, <2>2, <2>3, Zenon DEF Composed
<1>3. ASSUME NEW j \in 1 .. c.n
      PROVE  c.parts[j].type = d.parts[j].type
  BY <1>1, <1>2, Zenon DEF Composed
<1> QED
  BY <1>2, <1>3

\* The cells of the parts make those of the value.
LEMMA SameCells ==
  ASSUME NEW t, NEW c, Made(t, c), NEW u, NEW d, Made(u, d), t.type = u.type, c.x = d.x,
         c.n = d.n, \A j \in 1 .. c.n : c.parts[j].type = d.parts[j].type,
         \A j \in 1 .. c.n : c.parts[j].cells = d.parts[j].cells
  PROVE  t.cells = u.cells
<1>1. Pieces(c.parts, c.n) = Pieces(d.parts, d.n)
  BY DEF Pieces
<1>2. /\ t.cells = Lead(t.type, c.x) \o FlattenSeq(Pieces(c.parts, c.n))
      /\ u.cells = Lead(u.type, d.x) \o FlattenSeq(Pieces(d.parts, d.n))
  BY DEF Made, Composed
<1> QED
  BY <1>1, <1>2, Zenon

LEMMA SameLeaves ==
  ASSUME NEW t, NEW c, Made(t, c), NEW u, NEW d, Made(u, d), c.x = d.x, c.n = d.n,
         \A j \in 1 .. c.n : c.parts[j].leaves = d.parts[j].leaves
  PROVE  t.leaves = u.leaves
<1>1. LeavesOf(c.parts, c.n) = LeavesOf(d.parts, d.n)
  BY DEF LeavesOf
<1>2. /\ t.leaves = Join(c.x, LeavesOf(c.parts, c.n))
      /\ u.leaves = Join(d.x, LeavesOf(d.parts, d.n))
  BY DEF Made, Composed
<1> QED
  BY <1>1, <1>2, Zenon

\* The leaves of a part are found in those of the value.
LEMMA PartLeaves ==
  ASSUME NEW t, NEW c, Made(t, c), NEW u, NEW d, Made(u, d), c.n = d.n,
         t.leaves = u.leaves, NEW j \in 1 .. c.n
  PROVE  c.parts[j].leaves = d.parts[j].leaves
<1>1. PICK l, a, b : l = t.leaves /\ a = c.parts[j].leaves /\ b = d.parts[j].leaves
  OBVIOUS
<1>2. IsLeaves(a) /\ IsLeaves(b) /\ j \in Nat
  BY <1>1, MadeLeaves
<1>3. (\A p \in DOMAIN a : <<j>> \o p \in DOMAIN l /\ l[<<j>> \o p] = a[p])
  BY <1>1, MadeLeaves DEF Branches
<1>4. (\A p \in DOMAIN b : <<j>> \o p \in DOMAIN l /\ l[<<j>> \o p] = b[p])
  BY <1>1, MadeLeaves DEF Branches
<1>5. ASSUME NEW q \in DOMAIN l, q # <<>>, Head(q) = j
      PROVE  Tail(q) \in DOMAIN a /\ Tail(q) \in DOMAIN b
  <2>1. \A r \in DOMAIN t.leaves : r # <<>> => Tail(r) \in DOMAIN c.parts[Head(r)].leaves
    BY MadeLeaves DEF Branches
  <2>2. \A r \in DOMAIN u.leaves : r # <<>> => Tail(r) \in DOMAIN d.parts[Head(r)].leaves
    BY MadeLeaves DEF Branches
  <2> QED
    BY <1>1, <1>5, <2>1, <2>2
<1>6. \A p \in Seq(Nat) : <<j>> \o p # <<>> /\ Head(<<j>> \o p) = j /\ Tail(<<j>> \o p) = p
  BY <1>2, PathCons
<1>7. \A p \in DOMAIN a : p \in DOMAIN b /\ a[p] = b[p]
  BY <1>2, <1>3, <1>4, <1>5, <1>6 DEF IsLeaves
<1>8. \A p \in DOMAIN b : p \in DOMAIN a
  BY <1>2, <1>4, <1>5, <1>6 DEF IsLeaves
<1>9. DOMAIN a = DOMAIN b
  BY <1>7, <1>8
<1>10. a = b
  BY <1>2, <1>7, <1>9 DEF IsLeaves
<1> QED
  BY <1>1, <1>10

\* One is read as the other.
SameEncoding(t, u) == t.cells = u.cells <=> t.leaves = u.leaves

LEMMA CanonicalParts ==
  ASSUME NEW t, NEW c, Made(t, c), NEW u, NEW d, Made(u, d), t.type = u.type,
         \A j \in 1 .. c.n : \A v : Well(v) /\ c.parts[j].type = v.type => SameEncoding(c.parts[j], v)
  PROVE  SameEncoding(t, u)
<1>1. \A j \in 1 .. d.n : Well(d.parts[j])
  BY DEF Made
<1>2. Composed(t, c.x, c.parts, c.n) /\ Composed(u, d.x, d.parts, d.n)
  BY DEF Made
<1>3. ASSUME t.leaves = u.leaves
      PROVE  t.cells = u.cells
  <2>1. c.x = d.x
    BY <1>3, MadeLeaves DEF Branches
  <2>2. c.n = d.n /\ \A j \in 1 .. c.n : c.parts[j].type = d.parts[j].type
    BY <2>1, SameChildren
  <2>3. ASSUME NEW j \in 1 .. c.n
        PROVE  c.parts[j].cells = d.parts[j].cells
    <3>1. c.parts[j].leaves = d.parts[j].leaves
      BY <1>3, <2>2, PartLeaves
    <3>2. Well(d.parts[j])
      BY <1>1, <2>2
    <3> QED
      BY <2>2, <3>1, <3>2 DEF SameEncoding
  <2> QED
    BY <2>1, <2>2, <2>3, SameCells
<1>4. ASSUME t.cells = u.cells
      PROVE  t.leaves = u.leaves
  <2>1. PICK place : place = [type |-> t.type, cells |-> t.cells, at |-> 0]
    OBVIOUS
  <2>2. At(place, t) /\ At(place, u)
    BY <1>4, <2>1 DEF At
  <2>3. c.x = d.x
    <3>1. (\A j \in 1 .. c.n : Well(c.parts[j])) /\ (\A j \in 1 .. d.n : Well(d.parts[j]))
      BY DEF Made
    <3>2. CASE t.type.kind = "message"
      <4>1. c.x = (t.cells = <<>>) /\ d.x = (u.cells = <<>>)
        BY <1>2, <3>2 DEF Composed
      <4> QED
        BY <1>4, <4>1
    <3>3. CASE t.type.kind = "array"
      <4>1. c.x = c.n /\ d.x = d.n
        BY <1>2, <3>3 DEF Composed
      <4>2. Count(place) = c.n
        BY <1>2, <2>2, <3>1, <3>3, CountIs
      <4>3. Count(place) = d.n
        BY <1>2, <2>2, <3>1, <3>3, CountIs
      <4> QED
        BY <4>1, <4>2, <4>3
    <3>4. CASE t.type.kind = "union"
      <4>1. First(place.cells, "index") = c.x
        BY <1>2, <2>2, <3>1, <3>4, LeadIs
      <4>2. First(place.cells, "index") = d.x
        BY <1>2, <2>2, <3>1, <3>4, LeadIs
      <4> QED
        BY <4>1, <4>2
    <3> QED
      BY <1>2, <3>2, <3>3, <3>4 DEF Composed
  <2>4. c.n = d.n /\ \A j \in 1 .. c.n : c.parts[j].type = d.parts[j].type
    BY <2>3, SameChildren
  <2>5. ASSUME NEW j \in 1 .. c.n
        PROVE  c.parts[j].leaves = d.parts[j].leaves
    <3>1. At(Part(place, j), c.parts[j])
      BY <2>2, MadeParts
    <3>2. At(Part(place, j), d.parts[j])
      BY <2>2, <2>4, MadeParts
    <3>3. c.parts[j].cells = d.parts[j].cells
      BY <3>1, <3>2 DEF At
    <3>4. Well(d.parts[j])
      BY <1>1, <2>4
    <3> QED
      BY <2>4, <3>3, <3>4 DEF SameEncoding
  <2> QED
    BY <2>3, <2>4, <2>5, SameLeaves
<1> QED
  BY <1>3, <1>4 DEF SameEncoding

\* Values of one type have the same cells exactly when they have the same leaves.
LEMMA CanonicalValues ==
  ASSUME NEW t, Well(t), NEW u, Well(u), t.type = u.type
  PROVE  SameEncoding(t, u)
<1> DEFINE Has(m) == \A s, v : Well(s) /\ Well(v) /\ s.type = v.type /\ s.rank < m => SameEncoding(s, v)
           S == {m \in Nat : Has(m)}
<1>1. \A s : Well(s) => s.rank \in Nat
  BY WellUnfold DEF IsTyped
<1>2. Has(0)
  BY <1>1
<1>3. ASSUME NEW m \in Nat, Has(m)
      PROVE  Has(m + 1)
  <2>1. ASSUME NEW s, NEW v, Well(s), Well(v), s.type = v.type, s.rank < m + 1
        PROVE  SameEncoding(s, v)
    <3>1. ASSUME NEW c, Made(s, c), NEW d, Made(v, d)
          PROVE  SameEncoding(s, v)
      <4>1. ASSUME NEW j \in 1 .. c.n
            PROVE  Well(c.parts[j]) /\ c.parts[j].rank < m
        <5>1. Well(c.parts[j]) /\ c.parts[j].rank < s.rank
          BY <3>1 DEF Made
        <5>2. PICK a \in Nat, b \in Nat : a = c.parts[j].rank /\ b = s.rank
          BY <1>1, <2>1, <5>1
        <5>3. a < m
          BY <2>1, <5>1, <5>2
        <5> QED
          BY <5>1, <5>2, <5>3
      <4>2. \A j \in 1 .. c.n : \A w : Well(w) /\ c.parts[j].type = w.type => SameEncoding(c.parts[j], w)
        BY <1>3, <4>1
      <4> QED
        BY <2>1, <3>1, <4>2, CanonicalParts
    <3>2. CASE s.type.kind = "scalar"
      <4>1. IsScalar(s)
        BY <2>1, <3>2, WellMade DEF IsContent, Made, Composed
      <4>2. IsScalar(v)
        BY <2>1, <3>2, WellMade DEF IsContent, Made, Composed
      <4>3. PICK a : s.cells = <<<<s.type.of, a>>>> /\ s.leaves = Single(a)
        BY <4>1 DEF IsScalar
      <4>4. PICK b : v.cells = <<<<v.type.of, b>>>> /\ v.leaves = Single(b)
        BY <4>2 DEF IsScalar
      <4>5. ASSUME s.cells = v.cells PROVE a = b
        <5>1. s.cells[1] = <<s.type.of, a>> /\ v.cells[1] = <<v.type.of, b>>
          BY <4>3, <4>4
        <5> QED
          BY <4>5, <5>1
      <4>6. ASSUME s.leaves = v.leaves PROVE a = b
        <5>1. Single(a) = Single(b)
          BY <4>3, <4>4, <4>6
        <5>2. Single(a)[<<>>] = a /\ Single(b)[<<>>] = b
          BY SingleIs
        <5> QED
          BY <5>1, <5>2
      <4> QED
        BY <2>1, <4>3, <4>4, <4>5, <4>6 DEF SameEncoding
    <3>3. CASE s.type.kind = "content"
      <4>1. IsContent(s)
        BY <2>1, <3>3, WellMade DEF IsScalar, Made, Composed
      <4>2. IsContent(v)
        BY <2>1, <3>3, WellMade DEF IsScalar, Made, Composed
      <4>3. s.leaves = Single(s.cells) /\ v.leaves = Single(v.cells)
        BY <4>1, <4>2 DEF IsContent
      <4>4. ASSUME s.leaves = v.leaves PROVE s.cells = v.cells
        BY <4>3, <4>4, SingleIs
      <4> QED
        BY <4>3, <4>4 DEF SameEncoding
    <3>4. CASE s.type.kind # "scalar" /\ s.type.kind # "content"
      <4>1. PICK c : Made(s, c)
        BY <2>1, <3>4, WellMade DEF IsScalar, IsContent
      <4>2. PICK d : Made(v, d)
        BY <2>1, <3>4, WellMade DEF IsScalar, IsContent
      <4> QED
        BY <3>1, <4>1, <4>2
    <3> QED
      BY <3>2, <3>3, <3>4
  <2> QED
    BY <2>1
<1>. HIDE DEF Has
<1>4. 0 \in S /\ \A m \in Nat : m \in S => m + 1 \in S
  BY <1>2, <1>3
<1>. HIDE DEF S
<1>5. \A m \in Nat : m \in S
  BY <1>4, NatSetInduction
<1>6. t.rank + 1 \in Nat /\ t.rank < t.rank + 1
  BY <1>1
<1>7. Has(t.rank + 1)
  BY <1>5, <1>6 DEF S
<1> QED
  BY <1>6, <1>7 DEF Has

---------------------------------------------------------------------------
(* Overwriting a leaf.                                                     *)

\* A value with a leaf overwritten.
Changed(t, off, new, path, v) ==
  [type |-> t.type, cells |-> Overwrite(t.cells, off, new),
   leaves |-> [t.leaves EXCEPT ![path] = v], rank |-> t.rank]

\* The parts with another one.
Instead(c, j, w) == [i \in 1 .. c.n |-> IF i = j THEN w ELSE c.parts[i]]

LEMMA OwnOverwrite ==
  ASSUME NEW type, NEW cells \in Seq(Cell), NEW new \in Seq(Cell), NEW o \in Nat,
         o + Len(new) <= Len(cells)
  PROVE  /\ Own(type, Overwrite(cells, o, new)) = Overwrite(Own(type, cells), Skip(type, o), new)
         /\ Skip(type, o) \in Nat
         /\ Skip(type, o) + Len(new) <= Len(Own(type, cells))
<1>1. /\ Overwrite(cells, o, new) \in Seq(Cell)
      /\ Len(Overwrite(cells, o, new)) = Len(cells)
      /\ Len(cells) \in Nat /\ Len(new) \in Nat
  BY OverwriteIs, LenProperties
<1>2. CASE type.kind \in {"content", "message", "array"}
  <2>1. PICK h \in Seq(Cell) : h = <<<<"size", Len(cells)>>>>
    BY HeaderCell, OneCell
  <2>2. Len(h) = 1
    BY <2>1
  <2>3. WithHeader(cells) = h \o cells
    BY <2>1 DEF WithHeader
  <2>4. WithHeader(Overwrite(cells, o, new)) = h \o Overwrite(cells, o, new)
    BY <1>1, <2>1 DEF WithHeader
  <2>5. Overwrite(h \o cells, Len(h) + o, new) = h \o Overwrite(cells, o, new)
    BY OverwriteRight
  <2>6. Len(h) + o = o + 1
    BY <2>2
  <2>7. Own(type, cells) = h \o cells /\ Own(type, Overwrite(cells, o, new)) = h \o Overwrite(cells, o, new)
        /\ Skip(type, o) = o + 1
    BY <1>2, <2>3, <2>4 DEF Own, Skip
  <2>8. Len(h \o cells) = 1 + Len(cells)
    BY <2>2, ConcatCells
  <2>9. (o + 1) + Len(new) <= 1 + Len(cells)
    BY <1>1
  <2> QED
    BY <2>5, <2>6, <2>7, <2>8, <2>9
<1>3. CASE type.kind \notin {"content", "message", "array"}
  BY <1>3 DEF Own, Skip
<1> QED
  BY <1>2, <1>3

LeafEdit(t, c, j, p, v, w, l) ==
  /\ Made(t, c)
  /\ j \in 1 .. c.n
  /\ p \in DOMAIN c.parts[j].leaves
  /\ w.leaves = [c.parts[j].leaves EXCEPT ![p] = v]
  /\ l = [t.leaves EXCEPT ![<<j>> \o p] = v]

LEMMA LeavesChanged ==
  ASSUME NEW t, NEW c, NEW j, NEW p, NEW v, NEW w, NEW l, LeafEdit(t, c, j, p, v, w, l)
  PROVE  l = Join(c.x, LeavesOf(Instead(c, j, w), c.n)) /\ IsLeaves(l)
<1>. /\ Made(t, c) /\ j \in 1 .. c.n /\ p \in DOMAIN c.parts[j].leaves
     /\ w.leaves = [c.parts[j].leaves EXCEPT ![p] = v]
  BY DEF LeafEdit
<1> DEFINE q == Instead(c, j, w)
<1>1. PICK k : /\ l = [t.leaves EXCEPT ![<<j>> \o p] = v]
               /\ k = Join(c.x, LeavesOf(q, c.n))
  BY DEF LeafEdit
<1>2. c.n \in Nat /\ j \in Nat /\ p \in Seq(Nat)
  <2>1. c.n \in Nat /\ IsLeaves(c.parts[j].leaves)
    BY MadeLeaves
  <2> QED
    BY <2>1 DEF IsLeaves
<1>3. /\ IsLeaves(t.leaves) /\ t.leaves[<<>>] = c.x
      /\ <<j>> \o p \in DOMAIN t.leaves
  BY MadeLeaves DEF Branches
<1>4. DOMAIN l = DOMAIN t.leaves /\ l[<<j>> \o p] = v
      /\ \A r \in DOMAIN t.leaves : r # <<j>> \o p => l[r] = t.leaves[r]
  BY <1>1, <1>3
<1>5. IsLeaves(l)
  <2>1. l = [r \in DOMAIN t.leaves |-> IF r = <<j>> \o p THEN v ELSE t.leaves[r]]
    BY <1>1
  <2>2. l = [r \in DOMAIN l |-> l[r]]
    BY <2>1
  <2> QED
    BY <1>3, <1>4, <2>2 DEF IsLeaves
<1>6. \A i \in 1 .. c.n : /\ i # j => q[i] = c.parts[i]
                          /\ i = j => q[i] = w
  BY DEF Instead
<1>. HIDE DEF q
<1>7. IsLeaves(w.leaves) /\ DOMAIN w.leaves = DOMAIN c.parts[j].leaves /\ w.leaves[p] = v
      /\ \A r \in DOMAIN w.leaves : r # p => w.leaves[r] = c.parts[j].leaves[r]
  <2>1. IsLeaves(c.parts[j].leaves)
    BY MadeLeaves
  <2>2. w.leaves = [r \in DOMAIN c.parts[j].leaves |-> IF r = p THEN v ELSE c.parts[j].leaves[r]]
    OBVIOUS
  <2>3. w.leaves = [r \in DOMAIN w.leaves |-> w.leaves[r]]
    BY <2>2
  <2> QED
    BY <2>1, <2>2, <2>3 DEF IsLeaves
<1>8. \A i \in 1 .. c.n : IsLeaves(q[i].leaves) /\ DOMAIN q[i].leaves = DOMAIN c.parts[i].leaves
  BY <1>6, <1>7, MadeLeaves
<1>9. Branches(k, c.x, q, c.n)
  BY <1>1, <1>2, <1>8, JoinIs
<1>10. IsLeaves(k) /\ k[<<>>] = c.x
  BY <1>9 DEF Branches
<1>11. ASSUME NEW r \in DOMAIN l
       PROVE  r \in DOMAIN k /\ k[r] = l[r]
  <2>1. CASE r = <<>>
    <3>1. <<j>> \o p # <<>>
      BY <1>2, PathCons
    <3> QED
      BY <1>3, <1>4, <1>10, <2>1, <3>1 DEF IsLeaves
  <2>2. CASE r # <<>>
    <3>1. PICK i, s : i = Head(r) /\ s = Tail(r)
      OBVIOUS
    <3>2. i \in 1 .. c.n /\ s \in DOMAIN c.parts[i].leaves /\ r = <<i>> \o s
      BY <1>4, <2>2, <3>1, MadeLeaves DEF Branches
    <3>3. r \in DOMAIN k /\ k[r] = q[i].leaves[s]
      BY <1>8, <1>9, <3>2 DEF Branches
    <3>4. t.leaves[r] = c.parts[i].leaves[s]
      BY <3>2, MadeLeaves DEF Branches
    <3>5. CASE r = <<j>> \o p
      <4>1. i = j /\ s = p
        BY <1>2, <3>1, <3>5, PathCons
      <4> QED
        BY <1>4, <1>6, <1>7, <3>2, <3>3, <3>5, <4>1
    <3>6. CASE r # <<j>> \o p
      <4>1. l[r] = c.parts[i].leaves[s]
        BY <1>4, <3>4, <3>6
      <4>2. CASE i = j
        <5>1. s # p
          BY <3>2, <3>6, <4>2
        <5> QED
          BY <1>6, <1>7, <3>2, <3>3, <4>1, <4>2, <5>1
      <4>3. CASE i # j
        BY <1>6, <3>2, <3>3, <4>1, <4>3
      <4> QED
        BY <4>2, <4>3
    <3> QED
      BY <3>5, <3>6
  <2> QED
    BY <2>1, <2>2
<1>12. ASSUME NEW r \in DOMAIN k
       PROVE  r \in DOMAIN l
  <2>1. CASE r = <<>>
    BY <1>3, <1>4, <2>1 DEF IsLeaves
  <2>2. CASE r # <<>>
    <3>1. PICK i, s : i = Head(r) /\ s = Tail(r)
      OBVIOUS
    <3>2. i \in 1 .. c.n /\ s \in DOMAIN q[i].leaves /\ r = <<i>> \o s
      BY <1>9, <2>2, <3>1 DEF Branches
    <3>3. s \in DOMAIN c.parts[i].leaves
      BY <1>8, <3>2
    <3> QED
      BY <1>4, <3>2, <3>3, MadeLeaves DEF Branches
  <2> QED
    BY <2>1, <2>2
<1>13. l = k
  <2>1. DOMAIN l = DOMAIN k
    BY <1>11, <1>12
  <2> QED
    BY <1>5, <1>10, <1>11, <2>1 DEF IsLeaves
<1> QED
  BY <1>1, <1>5, <1>13 DEF q

\* The cells of a part are overwritten, at o in them.
PartEdit(t, c, j, w, o, new, u) ==
  /\ Made(t, c)
  /\ t.cells \in Seq(Cell)
  /\ j \in 1 .. c.n
  /\ w.type = c.parts[j].type
  /\ o \in Nat /\ new \in Seq(Cell)
  /\ o + Len(new) <= Len(c.parts[j].cells)
  /\ w.cells = Overwrite(c.parts[j].cells, o, new)
  /\ u.type = t.type
  /\ u.cells = Overwrite(t.cells, Offset(t, c, j) + o, new)

LEMMA CellsChanged ==
  ASSUME NEW t, NEW c, NEW j, NEW w, NEW o, NEW new, NEW u, PartEdit(t, c, j, w, o, new, u)
  PROVE  /\ \E s, up : Parted(u, c.x, Instead(c, j, w), c.n, s, up)
         /\ Offset(t, c, j) + o \in Nat
         /\ (Offset(t, c, j) + o) + Len(new) <= Len(t.cells)
<1>0. /\ Made(t, c) /\ t.cells \in Seq(Cell) /\ j \in 1 .. c.n /\ w.type = c.parts[j].type
     /\ o \in Nat /\ new \in Seq(Cell)
     /\ o + Len(new) <= Len(c.parts[j].cells)
     /\ w.cells = Overwrite(c.parts[j].cells, o, new)
  BY DEF PartEdit
<1> DEFINE q == Instead(c, j, w)
<1>1. Parted(t, c.x, c.parts, c.n, c.s, c.up) /\ c.n \in Nat /\ Well(c.parts[j])
  BY <1>0 DEF Made, Composed
<1>2. /\ c.s \in Seq(Seq(Cell)) /\ Len(c.s) = c.n /\ Flat(c.s, c.up)
      /\ \A i \in 1 .. c.n : c.s[i] = Own(c.parts[i].type, c.parts[i].cells)
      /\ Lead(t.type, c.x) \in Seq(Cell)
      /\ t.cells = Lead(t.type, c.x) \o c.up[c.n]
  BY <1>1 DEF Parted
<1>3. PICK d \in Nat : d = Skip(c.parts[j].type, o)
  BY <1>0, <1>1, OwnCells, OwnOverwrite
<1>4. /\ Own(w.type, w.cells) = Overwrite(c.s[j], d, new)
      /\ d + Len(new) <= Len(c.s[j])
  <2>0. PICK type : type = c.parts[j].type
    OBVIOUS
  <2>1. PICK cells \in Seq(Cell) : type = c.parts[j].type /\ cells = c.parts[j].cells
    BY <1>1, <2>0, OwnCells
  <2>2. o \in Nat /\ new \in Seq(Cell) /\ o + Len(new) <= Len(cells)
    BY <1>0, <2>1
  <2>3. /\ Own(type, Overwrite(cells, o, new)) = Overwrite(Own(type, cells), Skip(type, o), new)
        /\ Skip(type, o) \in Nat
        /\ Skip(type, o) + Len(new) <= Len(Own(type, cells))
    BY <2>2, OwnOverwrite, Zenon
  <2>4. /\ w.type = type /\ w.cells = Overwrite(cells, o, new) /\ d = Skip(type, o)
        /\ c.s[j] = Own(type, cells)
    BY <1>0, <1>2, <1>3, <2>1
  <2> QED
    BY <2>3, <2>4, Zenon
<1>5. \A i \in 1 .. c.n : c.s[i] \in Seq(Cell)
  BY <1>2, ElementOfSeq
<1>6. Overwrite(c.s[j], d, new) \in Seq(Cell)
  BY <1>0, <1>3, <1>4, <1>5, OverwriteIs
<1>7. PICK s : s = [i \in 1 .. c.n |-> IF i = j THEN Overwrite(c.s[j], d, new) ELSE c.s[i]]
  OBVIOUS
<1>8. s \in Seq(Seq(Cell)) /\ Len(s) = c.n
  <2>1. s \in [1 .. c.n -> Seq(Cell)]
    BY <1>0, <1>5, <1>6, <1>7
  <2>2. PICK n \in Nat : n = c.n
    BY <1>1
  <2>3. s \in [1 .. n -> Seq(Cell)]
    BY <2>1, <2>2
  <2>4. s \in Seq(Seq(Cell)) /\ Len(s) = n
    BY <2>3
  <2> QED
    BY <2>2, <2>4
<1>9. s[j] = Overwrite(c.s[j], d, new) /\ \A i \in 1 .. c.n : i # j => s[i] = c.s[i]
  BY <1>0, <1>7
<1>10. \A i \in 1 .. c.n : s[i] = Own(q[i].type, q[i].cells)
  <2>1. ASSUME NEW i \in 1 .. c.n
        PROVE  s[i] = Own(q[i].type, q[i].cells)
    <3>1. CASE i = j
      BY <1>0, <1>4, <1>9, <3>1 DEF Instead
    <3>2. CASE i # j
      BY <1>2, <1>9, <3>2 DEF Instead
    <3> QED
      BY <3>1, <3>2
  <2> QED
    BY <2>1
<1>11. s = Pieces(q, c.n)
  <2>1. s = [i \in 1 .. c.n |-> s[i]]
    BY <1>7
  <2>. HIDE DEF q
  <2> QED
    BY <1>10, <2>1 DEF Pieces
<1>12. PICK vp : Flat(s, vp)
  BY <1>8, FlattenIs
<1>13. /\ vp[c.n] = Overwrite(c.up[c.n], Len(c.up[j - 1]) + d, new)
       /\ Len(c.up[j - 1]) + d + Len(new) <= Len(c.up[c.n])
  <2>0. PICK a \in Seq(Seq(Cell)) : a = c.s /\ Len(a) = c.n
    BY <1>2
  <2>1. PICK i \in 1 .. Len(a) : a = c.s /\ i = j /\ Len(a) = c.n
    BY <1>0, <2>0
  <2>2. PICK b \in Seq(Seq(Cell)) : b = s /\ Len(b) = Len(a)
    BY <1>8, <2>1
  <2>3. /\ Flat(a, c.up) /\ Flat(b, vp) /\ d + Len(new) <= Len(a[i])
        /\ b[i] = Overwrite(a[i], d, new)
        /\ \A k \in 1 .. Len(a) : k # i => b[k] = a[k]
    BY <1>2, <1>4, <1>9, <1>12, <2>1, <2>2
  <2>4. /\ vp[Len(a)] = Overwrite(c.up[Len(a)], Len(c.up[i - 1]) + d, new)
        /\ Len(c.up[i - 1]) + d + Len(new) <= Len(c.up[Len(a)])
    BY <1>0, <2>2, <2>3, FlatOverwrite, Zenon
  <2> QED
    BY <2>1, <2>4
<1>14. /\ c.up[c.n] \in Seq(Cell) /\ Len(c.up[j - 1]) \in Nat
  <2>0. PICK a \in Seq(Seq(Cell)) : a = c.s /\ Len(a) = c.n /\ Flat(a, c.up)
    BY <1>2
  <2>1. PICK i \in 1 .. Len(a), m \in 1 .. Len(a) : i = j /\ m = c.n
    BY <1>0, <1>1, <2>0
  <2>2. c.up[m] \in Seq(Cell) /\ Len(c.up[i - 1]) \in Nat
    BY <2>0, <2>1, FlatAt
  <2> QED
    BY <2>1, <2>2
<1>15. PICK lead \in Seq(Cell), rest \in Seq(Cell), b \in Nat, e \in Nat :
         /\ lead = Lead(t.type, c.x) /\ rest = c.up[c.n] /\ b = Len(c.up[j - 1])
         /\ e = b + d
  BY <1>2, <1>14
<1>16. PICK a \in Nat, m \in Nat, z \in Nat : a = Len(lead) /\ m = Len(new) /\ z = Len(rest)
  BY <1>0, LenProperties
<1>17. e + m <= z
  BY <1>13, <1>15, <1>16
<1>18. Offset(t, c, j) + o = a + e
  <2>1. Offset(t, c, j) = Skip(c.parts[j].type, a + b)
    BY <1>15, <1>16 DEF Offset
  <2>2. Skip(c.parts[j].type, a + b) + o = a + (b + Skip(c.parts[j].type, o))
    BY <1>0 DEF Skip
  <2> QED
    BY <1>3, <1>15, <2>1, <2>2, Zenon
<1>19. t.cells = lead \o rest /\ Len(t.cells) = a + z
  <2>1. t.cells = lead \o rest
    BY <1>2, <1>15
  <2> QED
    BY <1>16, <2>1, ConcatCells
<1>20. Overwrite(lead \o rest, Len(lead) + e, new) = lead \o Overwrite(rest, e, new)
  <2>1. new \in Seq(Cell) /\ e + Len(new) <= Len(rest)
    BY <1>0, <1>16, <1>17
  <2> QED
    BY <2>1, OverwriteRight
<1>21. u.cells = lead \o vp[c.n]
  <2>1. vp[c.n] = Overwrite(rest, e, new)
    BY <1>13, <1>15
  <2> QED
    BY <1>16, <1>18, <1>19, <1>20, <2>1, Zenon DEF PartEdit
<1>22. Parted(u, c.x, q, c.n, s, vp)
  <2>1. u.type = t.type
    BY DEF PartEdit
  <2> QED
    BY <1>8, <1>10, <1>11, <1>12, <1>15, <1>21, <2>1 DEF Parted
<1>23. a + e \in Nat /\ (a + e) + m <= a + z
  BY <1>17
<1> QED
  BY <1>16, <1>18, <1>19, <1>22, <1>23

\* new is written off cells into t: the leaf at path is v then, nothing else
\* changes, and paths lead to values of the same types as before.
Overwritten(t, path, v, new, off) ==
  /\ off \in Nat /\ off + Len(new) <= Len(t.cells)
  /\ Well(Changed(t, off, new, path, v))
  /\ \A place : At(place, t) /\ place.at \in Nat => Walk(place, path).at = place.at + off
  /\ \A place, other, q :
       At(place, t) /\ At(other, Changed(t, off, new, path, v)) /\ q \in DOMAIN t.leaves =>
         Walk(other, q).type = Walk(place, q).type

LEMMA OverwritePart ==
  ASSUME NEW t, Well(t), NEW path, NEW c, NEW j, NEW p, Into(t, path, c, j, p),
         NEW v, NEW new \in Seq(Cell), NEW o, Overwritten(c.parts[j], p, v, new, o)
  PROVE  Overwritten(t, path, v, new, Offset(t, c, j) + o)
<1>0. /\ Made(t, c) /\ j \in 1 .. c.n /\ j \in Nat
      /\ p \in DOMAIN c.parts[j].leaves /\ p \in Seq(Nat) /\ path = <<j>> \o p
  BY DEF Into
<1>1. PICK off, w, u : /\ off = Offset(t, c, j) + o
                       /\ w = Changed(c.parts[j], o, new, p, v)
                       /\ u = Changed(t, off, new, path, v)
  OBVIOUS
<1>2. /\ w.type = c.parts[j].type
      /\ w.cells = Overwrite(c.parts[j].cells, o, new)
      /\ w.leaves = [c.parts[j].leaves EXCEPT ![p] = v]
      /\ w.rank = c.parts[j].rank
  BY <1>1 DEF Changed
<1>3. /\ u.type = t.type
      /\ u.cells = Overwrite(t.cells, off, new)
      /\ u.leaves = [t.leaves EXCEPT ![path] = v]
      /\ u.rank = t.rank
  BY <1>1 DEF Changed
<1>4. IsTyped(t)
  BY WellUnfold
<1>5. /\ o \in Nat /\ o + Len(new) <= Len(c.parts[j].cells)
      /\ Well(w)
  BY <1>1 DEF Overwritten
<1>6. PartEdit(t, c, j, w, o, new, u)
  BY <1>0, <1>1, <1>2, <1>3, <1>4, <1>5 DEF PartEdit, IsTyped
<1>7. PICK s, up : Parted(u, c.x, Instead(c, j, w), c.n, s, up)
  BY <1>6, CellsChanged
<1>8. off \in Nat /\ off + Len(new) <= Len(t.cells)
  BY <1>1, <1>6, CellsChanged
<1>9. PICK d : d = [x |-> c.x, parts |-> Instead(c, j, w), n |-> c.n, s |-> s, up |-> up]
  OBVIOUS
<1>10. /\ d.x = c.x /\ d.parts = Instead(c, j, w) /\ d.n = c.n /\ d.s = s /\ d.up = up
  BY <1>9
<1>11. \A i \in 1 .. c.n : /\ i = j => d.parts[i] = w
                           /\ i # j => d.parts[i] = c.parts[i]
  BY <1>10 DEF Instead
<1>12. Composed(t, c.x, c.parts, c.n) /\ c.n \in Nat
       /\ \A i \in 1 .. c.n : Well(c.parts[i]) /\ c.parts[i].rank < t.rank
  BY <1>0 DEF Made, Composed
<1>13. /\ u.leaves = Join(c.x, LeavesOf(d.parts, c.n))
       /\ IsLeaves(u.leaves)
  <2>1. LeafEdit(t, c, j, p, v, w, u.leaves)
    BY <1>0, <1>2, <1>3 DEF LeafEdit
  <2> QED
    BY <1>10, <2>1, LeavesChanged
<1>14. u.cells \in Seq(Cell) /\ (u.cells = <<>> <=> t.cells = <<>>)
  <2>1. t.cells \in Seq(Cell)
    BY <1>4 DEF IsTyped
  <2>2. /\ Overwrite(t.cells, off, new) \in Seq(Cell)
        /\ Len(Overwrite(t.cells, off, new)) = Len(t.cells)
    BY <1>8, <2>1, OverwriteIs
  <2>3. u.cells \in Seq(Cell) /\ Len(u.cells) = Len(t.cells)
    BY <1>3, <2>2
  <2> QED
    BY <2>1, <2>3, EmptySeq
<1>15. u.cells = Lead(u.type, c.x) \o FlattenSeq(Pieces(d.parts, c.n))
  <2>1. /\ s \in Seq(Seq(Cell)) /\ Len(s) = c.n /\ Flat(s, up) /\ s = Pieces(d.parts, c.n)
        /\ u.cells = Lead(u.type, c.x) \o up[c.n]
    BY <1>7, <1>10 DEF Parted
  <2>2. PICK vp : Flat(s, vp) /\ FlattenSeq(s) = vp[Len(s)]
    BY <2>1, FlattenIs
  <2>3. vp[Len(s)] = up[Len(s)]
    BY <2>1, <2>2, FlatOnly
  <2> QED
    BY <2>1, <2>2, <2>3, Zenon
<1>16. \A i \in 1 .. c.n : d.parts[i].type = ChildType(u.type, c.x, i)
  <2>1. ASSUME NEW i \in 1 .. c.n
        PROVE  d.parts[i].type = ChildType(u.type, c.x, i)
    <3>1. c.parts[i].type = ChildType(t.type, c.x, i)
      BY <1>12 DEF Composed
    <3>2. d.parts[i].type = c.parts[i].type
      BY <1>2, <1>11
    <3> QED
      BY <1>3, <3>1, <3>2, Zenon
  <2> QED
    BY <2>1
<1>17. \/ /\ u.type.kind = "message" /\ u.type.of \in Name
          /\ c.x = (u.cells = <<>>)
          /\ c.n = IF u.cells = <<>> THEN 0 ELSE Len(ReaderOf(u.type.of).fields)
       \/ u.type.kind = "array" /\ c.x = c.n
       \/ u.type.kind = "union" /\ c.x \in Nat /\ c.n = 1 /\ d.parts[1].type.kind # "union"
  <2>1. CASE t.type.kind = "message"
    <3>1. /\ t.type.of \in Name
          /\ c.x = (t.cells = <<>>)
          /\ c.n = IF t.cells = <<>> THEN 0 ELSE Len(ReaderOf(t.type.of).fields)
      BY <1>12, <2>1 DEF Composed
    <3> QED
      BY <1>3, <1>14, <2>1, <3>1
  <2>2. CASE t.type.kind = "array"
    BY <1>3, <1>12, <2>2 DEF Composed
  <2>3. CASE t.type.kind = "union"
    <3>1. c.x \in Nat /\ c.n = 1 /\ c.parts[1].type.kind # "union"
      BY <1>12, <2>3 DEF Composed
    <3>2. d.parts[1].type = c.parts[1].type
      BY <1>2, <1>11, <3>1
    <3> QED
      BY <1>3, <2>3, <3>1, <3>2
  <2> QED
    BY <1>12, <2>1, <2>2, <2>3 DEF Composed
<1>18. Composed(u, d.x, d.parts, d.n)
  BY <1>10, <1>12, <1>13, <1>15, <1>16, <1>17 DEF Composed
<1>19. \A i \in 1 .. d.n : Well(d.parts[i]) /\ d.parts[i].rank < u.rank
  BY <1>2, <1>3, <1>5, <1>10, <1>11, <1>12
<1>20. Made(u, d)
  BY <1>7, <1>10, <1>18, <1>19 DEF Made
<1>21. Well(u)
  <2>1. IsTyped(u)
    BY <1>3, <1>4, <1>13, <1>14 DEF IsTyped
  <2> QED
    BY <1>18, <1>19, <2>1, WellFold
<1>22. ASSUME NEW place, At(place, t), place.at \in Nat
       PROVE  Walk(place, path).at = place.at + off
  <2>1. /\ At(Part(place, j), c.parts[j]) /\ Offset(t, c, j) \in Nat
        /\ Part(place, j).at = place.at + Offset(t, c, j)
    BY <1>0, <1>22, MadeParts
  <2>2. Walk(place, path) = Walk(Part(place, j), p)
    BY <1>0, WalkOn
  <2>3. Part(place, j).at \in Nat
    BY <1>22, <2>1
  <2>4. Walk(Part(place, j), p).at = Part(place, j).at + o
    BY <2>1, <2>3 DEF Overwritten
  <2>5. PICK a \in Nat, b \in Nat : a = place.at /\ b = Offset(t, c, j)
    BY <1>22, <2>1
  <2>6. (a + b) + o = a + (b + o)
    BY <1>5
  <2> QED
    BY <1>1, <2>1, <2>2, <2>4, <2>5, <2>6, Zenon
<1>23. ASSUME NEW place, NEW other, NEW q, At(place, t), At(other, u), q \in DOMAIN t.leaves
       PROVE  Walk(other, q).type = Walk(place, q).type
  <2>1. CASE q = <<>>
    BY <1>3, <1>23, <2>1, WalkHere DEF At
  <2>2. CASE q # <<>>
    <3>1. PICK i, r : i = Head(q) /\ r = Tail(q)
      OBVIOUS
    <3>2. i \in 1 .. c.n /\ r \in DOMAIN c.parts[i].leaves /\ q = <<i>> \o r
      BY <1>0, <1>23, <2>2, <3>1, MadeLeaves DEF Branches
    <3>3. i \in Nat /\ r \in Seq(Nat)
      <4>1. IsLeaves(c.parts[i].leaves)
        BY <1>0, <3>2, MadeLeaves
      <4> QED
        BY <1>12, <3>2, <4>1 DEF IsLeaves
    <3>4. Walk(other, q) = Walk(Part(other, i), r) /\ Walk(place, q) = Walk(Part(place, i), r)
      BY <3>2, <3>3, WalkOn
    <3>5. At(Part(place, i), c.parts[i])
      BY <1>0, <1>23, <3>2, MadeParts
    <3>6. At(Part(other, i), d.parts[i])
      BY <1>10, <1>20, <1>23, <3>2, MadeParts
    <3>7. CASE i = j
      <4>1. At(Part(other, i), Changed(c.parts[j], o, new, p, v))
        BY <1>1, <1>11, <3>2, <3>6, <3>7
      <4> QED
        BY <3>2, <3>4, <3>5, <3>7, <4>1 DEF Overwritten
    <3>8. CASE i # j
      <4>1. PICK e : Reads(c.parts[i], r, e)
        BY <1>12, <3>2, Reading
      <4>2. At(Part(other, i), c.parts[i])
        BY <1>11, <3>2, <3>6, <3>8
      <4>3. At(Walk(Part(other, i), r), e) /\ At(Walk(Part(place, i), r), e)
        BY <3>5, <4>1, <4>2 DEF Reads
      <4> QED
        BY <3>4, <4>3 DEF At
    <3> QED
      BY <3>7, <3>8
  <2> QED
    BY <2>1, <2>2
<1> QED
  BY <1>1, <1>8, <1>21, <1>22, <1>23 DEF Overwritten

\* What a leaf may be overwritten with: a number, or as many bytes.
Fitting(place, v, new) ==
  \/ /\ place.type.kind = "scalar"
     /\ <<place.type.of, v>> \in Cell
     /\ new = <<<<place.type.of, v>>>>
  \/ /\ place.type.kind = "content"
     /\ v \in Seq(Cell) /\ Len(v) = Len(place.cells)
     /\ new = v

LEMMA FittingCells ==
  ASSUME NEW place, NEW v, NEW new, Fitting(place, v, new)
  PROVE  new \in Seq(Cell)
<1>1. CASE <<place.type.of, v>> \in Cell /\ new = <<<<place.type.of, v>>>>
  BY <1>1, OneCell
<1> QED
  BY <1>1 DEF Fitting

LEMMA OverwriteAll ==
  ASSUME NEW c \in Seq(Cell), NEW new \in Seq(Cell), Len(new) = Len(c)
  PROVE  Overwrite(c, 0, new) = new
<1>1. Len(c) \in Nat /\ 0 \in Nat /\ 0 + Len(new) <= Len(c)
  BY LenProperties
<1>2. PICK o : o = Overwrite(c, 0, new)
  OBVIOUS
<1>3. /\ o \in Seq(Cell) /\ Len(o) = Len(c)
      /\ \A i \in 1 .. Len(c) : o[i] = IF 0 < i /\ i <= 0 + Len(new) THEN new[i - 0] ELSE c[i]
  BY <1>1, <1>2, OverwriteIs
<1>4. ASSUME NEW i \in 1 .. Len(c)
      PROVE  o[i] = new[i]
  <2>1. 0 < i /\ i <= 0 + Len(new) /\ i - 0 = i
    BY <1>1
  <2> QED
    BY <1>3, <2>1
<1>5. o = new
  BY <1>3, <1>4, SeqEqual
<1> QED
  BY <1>2, <1>5

LEMMA OverwriteLeaf ==
  ASSUME NEW t, Well(t), NEW place, At(place, t), NEW v, NEW new, Fitting(place, v, new)
  PROVE  Overwritten(t, <<>>, v, new, 0)
<1>1. place.type = t.type /\ place.cells = t.cells
  BY DEF At
<1>2. new \in Seq(Cell) /\ t.cells \in Seq(Cell) /\ t.rank \in Nat
  BY FittingCells, WellUnfold DEF IsTyped
<1>3. PICK u : u = Changed(t, 0, new, <<>>, v)
  OBVIOUS
<1>4. \/ t.type.kind = "scalar" /\ IsScalar(t)
      \/ t.type.kind = "content" /\ IsContent(t)
  BY <1>1, WellMade DEF Fitting, IsScalar, IsContent, Made, Composed
<1>5. Len(new) = Len(t.cells)
  <2>1. CASE t.type.kind = "scalar"
    <3>1. <<t.type.of, v>> \in Cell /\ new = <<<<t.type.of, v>>>>
      BY <1>1, <2>1 DEF Fitting
    <3>2. Len(new) = 1
      BY <3>1, OneCell
    <3>3. Len(t.cells) = 1
      BY <1>4, <2>1, OneCell DEF IsScalar
    <3> QED
      BY <3>2, <3>3
  <2>2. CASE t.type.kind = "content"
    BY <1>1, <2>2 DEF Fitting
  <2> QED
    BY <1>4, <2>1, <2>2
<1>6. Overwrite(t.cells, 0, new) = new
  BY <1>2, <1>5, OverwriteAll
<1>7. [t.leaves EXCEPT ![<<>>] = v] = Single(v)
  <2>1. PICK x : t.leaves = Single(x)
    BY <1>4 DEF IsScalar, IsContent
  <2>2. Single(x) = [q \in {<<>>} |-> x] /\ Single(v) = [q \in {<<>>} |-> v]
    BY DEF Single
  <2> QED
    BY <2>1, <2>2
<1>8. u.type = t.type /\ u.cells = new /\ u.leaves = Single(v) /\ u.rank = t.rank
  BY <1>3, <1>6, <1>7 DEF Changed
<1>9. IsTyped(u)
  BY <1>2, <1>8, SingleIs DEF IsTyped
<1>10. IsScalar(u) \/ IsContent(u)
  <2>1. CASE t.type.kind = "scalar"
    BY <1>1, <1>8, <2>1 DEF Fitting, IsScalar
  <2>2. CASE t.type.kind = "content"
    BY <1>1, <1>8, <2>2 DEF Fitting, IsContent
  <2> QED
    BY <1>4, <2>1, <2>2
<1>11. Well(u)
  BY <1>9, <1>10, WellFold
<1>12. 0 \in Nat /\ 0 + Len(new) <= Len(t.cells)
  BY <1>2, <1>5, LenProperties
<1>13. ASSUME NEW p, At(p, t), p.at \in Nat
       PROVE  Walk(p, <<>>).at = p.at + 0
  BY <1>13, WalkHere
<1>14. ASSUME NEW p, NEW other, NEW q, At(p, t), At(other, u), q \in DOMAIN t.leaves
       PROVE  Walk(other, q).type = Walk(p, q).type
  <2>0. PICK x : t.leaves = Single(x)
    BY <1>4 DEF IsScalar, IsContent
  <2>1. q = <<>>
    BY <1>14, <2>0, SingleIs
  <2> QED
    BY <1>8, <1>14, <2>1, WalkHere DEF At
<1> QED
  BY <1>3, <1>11, <1>12, <1>13, <1>14 DEF Overwritten

LEMMA Overwriting ==
  ASSUME NEW t, Well(t), NEW place, At(place, t), NEW path \in DOMAIN t.leaves,
         NEW v, NEW new, Fitting(Walk(place, path), v, new)
  PROVE  \E off : Overwritten(t, path, v, new, off)
<1> DEFINE Has(k) == \A s, q, p : Well(s) /\ At(p, s) /\ q \in DOMAIN s.leaves /\ Len(q) = k
                                    /\ Fitting(Walk(p, q), v, new)
                                    => \E off : Overwritten(s, q, v, new, off)
           S == {k \in Nat : Has(k)}
<1>1. new \in Seq(Cell)
  BY FittingCells
<1>2. Has(0)
  <2>1. ASSUME NEW s, NEW q, NEW p, Well(s), At(p, s), q \in DOMAIN s.leaves, Len(q) = 0,
               Fitting(Walk(p, q), v, new)
        PROVE  \E off : Overwritten(s, q, v, new, off)
    <3>1. q \in Seq(Nat)
      BY <2>1, WellUnfold DEF IsTyped, IsLeaves
    <3>2. q = <<>>
      BY <2>1, <3>1, EmptySeq
    <3>3. Fitting(p, v, new)
      BY <2>1, <3>2, WalkHere
    <3>4. Overwritten(s, <<>>, v, new, 0)
      BY <2>1, <3>3, OverwriteLeaf
    <3> QED
      BY <3>2, <3>4
  <2> QED
    BY <2>1
<1>3. ASSUME NEW k \in Nat, Has(k)
      PROVE  Has(k + 1)
  <2>1. ASSUME NEW s, NEW q, NEW p, Well(s), At(p, s), q \in DOMAIN s.leaves, Len(q) = k + 1,
               Fitting(Walk(p, q), v, new)
        PROVE  \E off : Overwritten(s, q, v, new, off)
    <3>1. q # <<>>
      BY <2>1, EmptySeq
    <3>2. PICK c, j, r : Into(s, q, c, j, r)
      BY <2>1, <3>1, PathIntoParts
    <3>3. /\ Made(s, c) /\ j \in 1 .. c.n /\ j \in Nat
          /\ r \in DOMAIN c.parts[j].leaves /\ r \in Seq(Nat)
          /\ q = <<j>> \o r
          /\ Len(r) \in Nat /\ Len(q) = Len(r) + 1
      BY <3>2 DEF Into
    <3>4. Len(r) = k
      BY <2>1, <3>3
    <3>5. Well(c.parts[j])
      BY <3>3 DEF Made
    <3>6. At(Part(p, j), c.parts[j])
      BY <2>1, <3>3, MadeParts
    <3>7. Fitting(Walk(Part(p, j), r), v, new)
      BY <2>1, <3>3, WalkOn
    <3>8. PICK o : Overwritten(c.parts[j], r, v, new, o)
      BY <1>3, <3>3, <3>4, <3>5, <3>6, <3>7
    <3>9. Overwritten(s, q, v, new, Offset(s, c, j) + o)
      BY <1>1, <2>1, <3>2, <3>8, OverwritePart
    <3> QED
      BY <3>9
  <2> QED
    BY <2>1
<1>. HIDE DEF Has
<1>4. 0 \in S /\ \A k \in Nat : k \in S => k + 1 \in S
  BY <1>2, <1>3
<1>. HIDE DEF S
<1>5. \A k \in Nat : k \in S
  BY <1>4, NatSetInduction
<1>6. Len(path) \in Nat
  <2>1. path \in Seq(Nat)
    BY WellUnfold DEF IsTyped, IsLeaves
  <2> QED
    BY <2>1, LenProperties
<1>7. Has(Len(path))
  BY <1>5, <1>6 DEF S
<1> QED
  BY <1>7 DEF Has
---------------------------------------------------------------------------
(* The schemes of the messages.                                            *)

\* The names a builder has for a field: of a union those of its alternatives too.
Names(field) ==
  {field[1]} \cup
    (IF field[2].kind = "union" THEN {field[2].of[a][1] : a \in DOMAIN field[2].of} ELSE {})

\* No two fields share a name, and no union has its own among its alternatives'.
Apart(fields) ==
  /\ \A i, j \in DOMAIN fields : i # j => Names(fields[i]) \cap Names(fields[j]) = {}
  /\ \A i \in DOMAIN fields : fields[i][2].kind = "union" =>
       \A a \in DOMAIN fields[i][2].of : fields[i][2].of[a][1] # fields[i][1]

Scheme(reader, builder) ==
  /\ reader.fields = builder.fields
  /\ Len(reader.fields) \in Nat /\ DOMAIN reader.fields = 1 .. Len(reader.fields)
  /\ reader.fields = <<>> <=> Len(reader.fields) = 0
  /\ Apart(reader.fields)
  /\ reader.name \in Carriers =>
       /\ \E i \in DOMAIN reader.fields :
            reader.fields[i][1] \in {"InputArgumentArray", "OutputArgumentArray"}
       /\ \A i \in DOMAIN reader.fields :
            reader.fields[i][1] \in {"InputArgumentArray", "OutputArgumentArray"} =>
              reader.fields[i][2] = TypeBytes
  /\ reader.name = "Argument" => reader = Argument /\ builder = ArgumentBuilder
  /\ reader.name = "ArgumentArray" => reader = ArgumentArray /\ builder = ArgumentArrayBuilder

LEMMA Kinds ==
  /\ \A type \in {TypeUint16, TypeUint32, TypeUint64, TypeUint256, TypeBool, TypeBytes20,
                  TypeBytes32, TypeBytes, TypeString} : type.kind # "union"
  /\ \A name : TypeMessage(name).kind = "message"
  /\ \A type : ArrayOf(type).kind = "array"
  /\ \A alternatives : /\ TypeUnion(alternatives).kind = "union"
                       /\ TypeUnion(alternatives).of = alternatives
BY DEF TypeUint16, TypeUint32, TypeUint64, TypeUint256, TypeBool, TypeBytes20, TypeBytes32,
   TypeBytes, TypeString, Scalar, Content, TypeMessage, ArrayOf, TypeUnion

LEMMA SchemesAre == \A t \in DOMAIN Messages : Scheme(Messages[t][1], Messages[t][2])
<1>1. Scheme(Transaction, TransactionBuilder)
  BY Kinds DEF Scheme, Names, Apart, Carriers, Transaction, TransactionBuilder
<1>2. Scheme(SignedTransaction, SignedTransactionBuilder)
  BY Kinds DEF Scheme, Names, Apart, Carriers, SignedTransaction, SignedTransactionBuilder
<1>3. Scheme(TransactionReceipt, TransactionReceiptBuilder)
  BY Kinds DEF Scheme, Names, Apart, Carriers, TransactionReceipt, TransactionReceiptBuilder
<1>4. Scheme(Signer, SignerBuilder)
  BY Kinds DEF Scheme, Names, Apart, Carriers, Signer, SignerBuilder
<1>5. Scheme(EdDSA01Signer, EdDSA01SignerBuilder)
  BY Kinds DEF Scheme, Names, Apart, Carriers, EdDSA01Signer, EdDSA01SignerBuilder
<1>6. Scheme(SmartContractCaller, SmartContractCallerBuilder)
  BY Kinds DEF Scheme, Names, Apart, Carriers, SmartContractCaller, SmartContractCallerBuilder
<1>7. Scheme(Query, QueryBuilder)
  BY Kinds DEF Scheme, Names, Apart, Carriers, Query, QueryBuilder
<1>8. Scheme(SignedQuery, SignedQueryBuilder)
  BY Kinds DEF Scheme, Names, Apart, Carriers, SignedQuery, SignedQueryBuilder
<1>9. Scheme(QueryResult, QueryResultBuilder)
  BY Kinds DEF Scheme, Names, Apart, Carriers, QueryResult, QueryResultBuilder
<1>10. Scheme(Argument, ArgumentBuilder)
  <2>1. Argument.fields = ArgumentBuilder.fields /\ Argument.name = "Argument"
    BY DEF Argument, ArgumentBuilder
  <2>2. PICK fields : fields = Argument.fields
    OBVIOUS
  <2>3. Len(fields) = 1 /\ DOMAIN fields = 1 .. 1 /\ fields # <<>> /\ 1 \in Nat
    BY <2>2 DEF Argument
  <2>4. \A i \in 1 .. 1 : i = 1
    OBVIOUS
  <2>5. fields[1][1] = "Type"
    BY <2>2 DEF Argument
  <2>6. \A a \in DOMAIN fields[1][2].of : fields[1][2].of[a][1] # "Type"
    BY <2>2, Kinds DEF Argument
  <2>7. Apart(fields)
    BY <2>3, <2>4, <2>5, <2>6 DEF Apart
  <2>8. "Argument" \notin Carriers /\ "Argument" # "ArgumentArray"
    BY DEF Carriers
  <2> QED
    BY <2>1, <2>2, <2>3, <2>7, <2>8 DEF Scheme
<1>11. Scheme(ArgumentArray, ArgumentArrayBuilder)
  BY Kinds DEF Scheme, Names, Apart, Carriers, ArgumentArray, ArgumentArrayBuilder
<1>12. Scheme(StateRecord, StateRecordBuilder)
  BY Kinds DEF Scheme, Names, Apart, Carriers, StateRecord, StateRecordBuilder
<1>13. Scheme(ContractStateDiff, ContractStateDiffBuilder)
  BY Kinds DEF Scheme, Names, Apart, Carriers, ContractStateDiff, ContractStateDiffBuilder
<1>14. Scheme(Event, EventBuilder)
  BY Kinds DEF Scheme, Names, Apart, Carriers, Event, EventBuilder
<1>15. Scheme(EventsArray, EventsArrayBuilder)
  BY Kinds DEF Scheme, Names, Apart, Carriers, EventsArray, EventsArrayBuilder
<1>16. Scheme(TransactionsBlockHeader, TransactionsBlockHeaderBuilder)
  BY Kinds, SMTT(30) DEF Scheme, Names, Apart, Carriers, TransactionsBlockHeader, TransactionsBlockHeaderBuilder
<1>17. Scheme(ResultsBlockHeader, ResultsBlockHeaderBuilder)
  BY Kinds, SMTT(30) DEF Scheme, Names, Apart, Carriers, ResultsBlockHeader, ResultsBlockHeaderBuilder
<1>18. Scheme(TransactionsBlockMetadata, TransactionsBlockMetadataBuilder)
  BY Kinds DEF Scheme, Names, Apart, Carriers, TransactionsBlockMetadata, TransactionsBlockMetadataBuilder
<1>19. Scheme(TransactionsBlockProof, TransactionsBlockProofBuilder)
  BY Kinds DEF Scheme, Names, Apart, Carriers, TransactionsBlockProof, TransactionsBlockProofBuilder
<1>20. Scheme(ResultsBlockProof, ResultsBlockProofBuilder)
  BY Kinds DEF Scheme, Names, Apart, Carriers, ResultsBlockProof, ResultsBlockProofBuilder
<1>21. Scheme(BenchmarkConsensusBlockProof, BenchmarkConsensusBlockProofBuilder)
  BY Kinds DEF Scheme, Names, Apart, Carriers, BenchmarkConsensusBlockProof, BenchmarkConsensusBlockProofBuilder
<1>22. Scheme(BenchmarkConsensusSenderSignature, BenchmarkConsensusSenderSignatureBuilder)
  BY Kinds DEF Scheme, Names, Apart, Carriers, BenchmarkConsensusSenderSignature, BenchmarkConsensusSenderSignatureBuilder
<1>23. Scheme(BenchmarkConsensusBlockRef, BenchmarkConsensusBlockRefBuilder)
  BY Kinds DEF Scheme, Names, Apart, Carriers, BenchmarkConsensusBlockRef, BenchmarkConsensusBlockRefBuilder
<1>24. Scheme(ReceiptProof, ReceiptProofBuilder)
  BY Kinds DEF Scheme, Names, Apart, Carriers, ReceiptProof, ReceiptProofBuilder
<1>25. Scheme(RequestResult, RequestResultBuilder)
  BY Kinds DEF Scheme, Names, Apart, Carriers, RequestResult, RequestResultBuilder
<1>26. Scheme(TransactionRef, TransactionRefBuilder)
  BY Kinds DEF Scheme, Names, Apart, Carriers, TransactionRef, TransactionRefBuilder
<1>27. Scheme(SendTransactionRequest, SendTransactionRequestBuilder)
  BY Kinds DEF Scheme, Names, Apart, Carriers, SendTransactionRequest, SendTransactionRequestBuilder
<1>28. Scheme(SendTransactionResponse, SendTransactionResponseBuilder)
  BY Kinds DEF Scheme, Names, Apart, Carriers, SendTransactionResponse, SendTransactionResponseBuilder
<1>29. Scheme(RunQueryRequest, RunQueryRequestBuilder)
  BY Kinds DEF Scheme, Names, Apart, Carriers, RunQueryRequest, RunQueryRequestBuilder
<1>30. Scheme(RunQueryResponse, RunQueryResponseBuilder)
  BY Kinds DEF Scheme, Names, Apart, Carriers, RunQueryResponse, RunQueryResponseBuilder
<1>31. Scheme(GetTransactionStatusRequest, GetTransactionStatusRequestBuilder)
  BY Kinds DEF Scheme, Names, Apart, Carriers, GetTransactionStatusRequest, GetTransactionStatusRequestBuilder
<1>32. Scheme(GetTransactionStatusResponse, GetTransactionStatusResponseBuilder)
  BY Kinds DEF Scheme, Names, Apart, Carriers, GetTransactionStatusResponse, GetTransactionStatusResponseBuilder
<1>33. Scheme(GetTransactionReceiptProofRequest, GetTransactionReceiptProofRequestBuilder)
  BY Kinds DEF Scheme, Names, Apart, Carriers, GetTransactionReceiptProofRequest, GetTransactionReceiptProofRequestBuilder
<1>34. Scheme(GetTransactionReceiptProofResponse, GetTransactionReceiptProofResponseBuilder)
  BY Kinds DEF Scheme, Names, Apart, Carriers, GetTransactionReceiptProofResponse, GetTransactionReceiptProofResponseBuilder
<1>35. Scheme(GetBlockRequest, GetBlockRequestBuilder)
  BY Kinds DEF Scheme, Names, Apart, Carriers, GetBlockRequest, GetBlockRequestBuilder
<1>36. Scheme(GetBlockResponse, GetBlockResponseBuilder)
  BY Kinds DEF Scheme, Names, Apart, Carriers, GetBlockResponse, GetBlockResponseBuilder
<1>37. Scheme(Header, HeaderBuilder)
  <2>1. Header.fields = HeaderBuilder.fields
    BY DEF Header, HeaderBuilder
  <2>2. Len(Header.fields) \in Nat /\ DOMAIN Header.fields = 1 .. Len(Header.fields)
    BY DEF Header
  <2>5. Header.fields # <<>> /\ Len(Header.fields) # 0
    BY DEF Header
  <2>3. Apart(Header.fields)
    <3>1. DOMAIN Header.fields = {1, 2, 3, 4, 5}
      BY DEF Header
    <3>2. /\ Names(Header.fields[1]) = {"ProtocolVersion"}
          /\ Names(Header.fields[2]) = {"VirtualChainId"}
          /\ Names(Header.fields[3]) = {"RecipientNodeAddresses"}
          /\ Names(Header.fields[4]) = {"RecipientMode"}
      BY Kinds DEF Names, Header
    <3>3. /\ Names(Header.fields[5])
               = {"Topic", "TransactionRelay", "BlockSync", "LeanHelix", "BenchmarkConsensus"}
          /\ \A a \in DOMAIN Header.fields[5][2].of : Header.fields[5][2].of[a][1] # "Topic"
          /\ Header.fields[5][1] = "Topic"
      BY Kinds DEF Names, Header
    <3>4. \A i \in {1, 2, 3, 4} : Header.fields[i][2].kind # "union"
      BY Kinds DEF Header
    <3>5. \A i, j \in DOMAIN Header.fields :
            i # j => Names(Header.fields[i]) \cap Names(Header.fields[j]) = {}
      BY <3>1, <3>2, <3>3
    <3> QED
      BY <3>1, <3>3, <3>4, <3>5 DEF Apart
  <2>4. Header.name = "Header"
    BY DEF Header
  <2> QED
    BY <2>1, <2>2, <2>3, <2>4, <2>5 DEF Scheme, Carriers
<1>38. Scheme(SenderSignature, SenderSignatureBuilder)
  BY Kinds DEF Scheme, Names, Apart, Carriers, SenderSignature, SenderSignatureBuilder
<1>39. Scheme(BenchmarkConsensusStatus, BenchmarkConsensusStatusBuilder)
  BY Kinds DEF Scheme, Names, Apart, Carriers, BenchmarkConsensusStatus, BenchmarkConsensusStatusBuilder
<1>40. Scheme(BlockSyncRange, BlockSyncRangeBuilder)
  BY Kinds DEF Scheme, Names, Apart, Carriers, BlockSyncRange, BlockSyncRangeBuilder
<1>41. Scheme(TempKillMeTransactionRelay, TempKillMeTransactionRelayBuilder)
  BY Kinds DEF Scheme, Names, Apart, Carriers, TempKillMeTransactionRelay, TempKillMeTransactionRelayBuilder
<1>42. Scheme(TempKillMeBenchmarkConsensus, TempKillMeBenchmarkConsensusBuilder)
  BY Kinds DEF Scheme, Names, Apart, Carriers, TempKillMeBenchmarkConsensus, TempKillMeBenchmarkConsensusBuilder
<1>43. Scheme(NodeSignInput, NodeSignInputBuilder)
  BY Kinds DEF Scheme, Names, Apart, Carriers, NodeSignInput, NodeSignInputBuilder
<1>44. Scheme(NodeSignOutput, NodeSignOutputBuilder)
  BY Kinds DEF Scheme, Names, Apart, Carriers, NodeSignOutput, NodeSignOutputBuilder
<1>45. ASSUME NEW t \in {1, 2, 3, 4, 5, 6, 7, 8, 9, 10, 11}
       PROVE  Scheme(Messages[t][1], Messages[t][2])
  BY <1>1, <1>2, <1>3, <1>4, <1>5, <1>6, <1>7, <1>8, <1>9, <1>10, <1>11 DEF Messages
<1>46. ASSUME NEW t \in {12, 13, 14, 15, 16, 17, 18, 19, 20, 21, 22}
       PROVE  Scheme(Messages[t][1], Messages[t][2])
  BY <1>12, <1>13, <1>14, <1>15, <1>16, <1>17, <1>18, <1>19, <1>20, <1>21, <1>22 DEF Messages
<1>47. ASSUME NEW t \in {23, 24, 25, 26, 27, 28, 29, 30, 31, 32, 33}
       PROVE  Scheme(Messages[t][1], Messages[t][2])
  BY <1>23, <1>24, <1>25, <1>26, <1>27, <1>28, <1>29, <1>30, <1>31, <1>32, <1>33 DEF Messages
<1>48. ASSUME NEW t \in {34, 35, 36, 37, 38, 39, 40, 41, 42, 43, 44}
       PROVE  Scheme(Messages[t][1], Messages[t][2])
  BY <1>34, <1>35, <1>36, <1>37, <1>38, <1>39, <1>40, <1>41, <1>42, <1>43, <1>44 DEF Messages
<1>49. DOMAIN Messages = 1 .. 44
  BY DEF Messages
<1>50. \A t \in 1 .. 44 :
         \/ t \in {1, 2, 3, 4, 5, 6, 7, 8, 9, 10, 11}
         \/ t \in {12, 13, 14, 15, 16, 17, 18, 19, 20, 21, 22}
         \/ t \in {23, 24, 25, 26, 27, 28, 29, 30, 31, 32, 33}
         \/ t \in {34, 35, 36, 37, 38, 39, 40, 41, 42, 43, 44}
  OBVIOUS
<1>. QED
  BY <1>45, <1>46, <1>47, <1>48, <1>49, <1>50

\* What a name stands for.
LEMMA MessagesNamed ==
  /\ \A t \in DOMAIN Messages : Messages[t][1].name \in Name
  /\ \A n \in Name : \E t \in DOMAIN Messages :
       Message[n] = Messages[t] /\ Messages[t][1].name = n
<1>1. PICK S, f : S = Range(Messages) /\ f = [m \in S |-> m[1].name]
  OBVIOUS
<1>2. S = {Messages[t] : t \in DOMAIN Messages}
  BY <1>1 DEF Range
<1>3. DOMAIN f = S /\ Range(f) = {f[m] : m \in S} /\ \A m \in S : f[m] = m[1].name
  BY <1>1 DEF Range
<1>4. Message = [n \in Range(f) |-> CHOOSE m \in S : n \in Range(f) => f[m] = n]
  BY <1>1, <1>3 DEF Message, AntiFunction, Inverse
<1>5. Name = Range(f)
  BY <1>4 DEF Name
<1>6. ASSUME NEW t \in DOMAIN Messages
      PROVE  Messages[t][1].name \in Name
  BY <1>2, <1>3, <1>5
<1>7. ASSUME NEW n \in Name
      PROVE  \E t \in DOMAIN Messages : Message[n] = Messages[t] /\ Messages[t][1].name = n
  <2>1. \E m \in S : f[m] = n
    BY <1>3, <1>5
  <2>2. Message[n] = CHOOSE m \in S : n \in Range(f) => f[m] = n
    BY <1>4, <1>5
  <2>3. Message[n] \in S /\ f[Message[n]] = n
    BY <1>5, <2>1, <2>2
  <2> QED
    BY <1>2, <1>3, <2>3
<1> QED
  BY <1>6, <1>7

LEMMA SchemeOf ==
  ASSUME NEW name \in Name
  PROVE  ReaderOf(name).name = name /\ Scheme(ReaderOf(name), BuilderOf(name))
<1>1. PICK t \in DOMAIN Messages : Message[name] = Messages[t] /\ Messages[t][1].name = name
  BY MessagesNamed
<1>2. ReaderOf(name) = Messages[t][1] /\ BuilderOf(name) = Messages[t][2]
  BY <1>1 DEF ReaderOf, BuilderOf
<1> QED
  BY <1>1, <1>2, SchemesAre

LEMMA FieldsOf ==
  ASSUME NEW name \in Name
  PROVE  /\ BuilderOf(name).fields = ReaderOf(name).fields
         /\ Len(ReaderOf(name).fields) \in Nat
         /\ DOMAIN ReaderOf(name).fields = 1 .. Len(ReaderOf(name).fields)
         /\ ReaderOf(name).fields = <<>> <=> Len(ReaderOf(name).fields) = 0
         /\ Apart(ReaderOf(name).fields)
BY SchemeOf DEF Scheme

LEMMA NamesAre ==
  /\ Carriers \subseteq Name
  /\ "Argument" \in Name /\ "ArgumentArray" \in Name
<1>1. 1 \in DOMAIN Messages /\ Messages[1][1].name = "Transaction"
  BY DEF Messages, Transaction
<1>2. 7 \in DOMAIN Messages /\ Messages[7][1].name = "Query"
  BY DEF Messages, Query
<1>3. 3 \in DOMAIN Messages /\ Messages[3][1].name = "TransactionReceipt"
  BY DEF Messages, TransactionReceipt
<1>4. 9 \in DOMAIN Messages /\ Messages[9][1].name = "QueryResult"
  BY DEF Messages, QueryResult
<1>5. 14 \in DOMAIN Messages /\ Messages[14][1].name = "Event"
  BY DEF Messages, Event
<1>6. 10 \in DOMAIN Messages /\ Messages[10][1].name = "Argument"
  BY DEF Messages, Argument
<1>7. 11 \in DOMAIN Messages /\ Messages[11][1].name = "ArgumentArray"
  BY DEF Messages, ArgumentArray
<1>8. \A t \in DOMAIN Messages : Messages[t][1].name \in Name
  BY MessagesNamed
<1>9. "Transaction" \in Name
  BY <1>1, <1>8
<1>10. "Query" \in Name
  BY <1>2, <1>8
<1>11. "TransactionReceipt" \in Name
  BY <1>3, <1>8
<1>12. "QueryResult" \in Name
  BY <1>4, <1>8
<1>13. "Event" \in Name
  BY <1>5, <1>8
<1>14. "Argument" \in Name
  BY <1>6, <1>8
<1>15. "ArgumentArray" \in Name
  BY <1>7, <1>8
<1> QED
  BY <1>9, <1>10, <1>11, <1>12, <1>13, <1>14, <1>15 DEF Carriers

LEMMA CarrierIs ==
  ASSUME NEW name \in Carriers
  PROVE  /\ CarrierField(ReaderOf(name)) \in DOMAIN ReaderOf(name).fields
         /\ ReaderOf(name).fields[CarrierField(ReaderOf(name))][2] = TypeBytes
<1>1. name \in Name
  BY NamesAre
<1>2. Scheme(ReaderOf(name), BuilderOf(name)) /\ ReaderOf(name).name \in Carriers
  BY <1>1, SchemeOf
<1> DEFINE r == ReaderOf(name)
           HasArguments(i) == r.fields[i][1] \in {"InputArgumentArray", "OutputArgumentArray"}
<1>3. (\E i \in DOMAIN r.fields : HasArguments(i)) /\ \A i \in DOMAIN r.fields :
       HasArguments(i) => r.fields[i][2] = TypeBytes
  BY <1>2 DEF Scheme
<1>4. CarrierField(r) = CHOOSE i \in DOMAIN r.fields : HasArguments(i)
  BY DEF CarrierField
<1>. HIDE DEF r, HasArguments
<1>5. CarrierField(r) \in DOMAIN r.fields /\ HasArguments(CarrierField(r))
  BY <1>3, <1>4
<1>6. r.fields[CarrierField(r)][2] = TypeBytes
  BY <1>3, <1>5
<1> QED
  BY <1>5, <1>6 DEF r
---------------------------------------------------------------------------
(* What a builder puts is well-made.                                       *)

As(type, cells, leaves, m) == [type |-> type, cells |-> cells, leaves |-> leaves, rank |-> m]

LEMMA AsIs ==
  ASSUME NEW type, NEW cells, NEW leaves, NEW m
  PROVE  /\ As(type, cells, leaves, m).type = type
         /\ As(type, cells, leaves, m).cells = cells
         /\ As(type, cells, leaves, m).leaves = leaves
         /\ As(type, cells, leaves, m).rank = m
BY DEF As

\* Only the kind of a type and what it is of are looked at.
LEMMA WellAlike ==
  ASSUME NEW t, Well(t), NEW s, s.type.kind = t.type.kind, s.type.of = t.type.of,
         s.cells = t.cells, s.leaves = t.leaves, s.rank = t.rank
  PROVE  Well(s)
<1>1. IsTyped(t) /\ IsTyped(s)
  BY WellUnfold DEF IsTyped
<1>2. CASE IsScalar(t) \/ IsContent(t)
  <2>1. IsScalar(s) \/ IsContent(s)
    BY <1>2 DEF IsScalar, IsContent
  <2> QED
    BY <1>1, <2>1, WellFold
<1>3. ASSUME NEW x, NEW parts, NEW n, Composed(t, x, parts, n),
             \A j \in 1 .. n : Well(parts[j]) /\ parts[j].rank < t.rank
      PROVE  Well(s)
  <2>1. Lead(s.type, x) = Lead(t.type, x)
    BY DEF Lead
  <2>2. \A j : t.type.kind \in {"message", "array", "union"} =>
          ChildType(s.type, x, j) = ChildType(t.type, x, j)
    BY DEF ChildType
  <2>3. t.type.kind \in {"message", "array", "union"}
    BY <1>3 DEF Composed
  <2>4. \A j \in 1 .. n : parts[j].type = ChildType(s.type, x, j)
    BY <1>3, <2>2, <2>3 DEF Composed
  <2>5. Composed(s, x, parts, n)
    BY <1>3, <2>1, <2>4, Zenon DEF Composed
  <2>6. \A j \in 1 .. n : parts[j].rank < s.rank
    BY <1>3
  <2> QED
    BY <1>1, <1>3, <2>5, <2>6, WellFold
<1> QED
  BY <1>2, <1>3, WellUnfold

\* A value made of well-made parts is well-made.
Whole(t, x, parts, n) ==
  /\ Composed(t, x, parts, n)
  /\ t.rank \in Nat
  /\ \A j \in 1 .. n : Well(parts[j]) /\ parts[j].rank < t.rank

LEMMA WholeIs ==
  ASSUME NEW t, NEW x, NEW parts, NEW n, Whole(t, x, parts, n)
  PROVE  /\ Well(t)
         /\ \E c : Made(t, c) /\ c.x = x /\ c.parts = parts /\ c.n = n
<1>1. PICK s, up : Parted(t, x, parts, n, s, up)
  BY PiecesFlat DEF Whole
<1>2. PICK c : c = [x |-> x, parts |-> parts, n |-> n, s |-> s, up |-> up]
  OBVIOUS
<1>3. c.x = x /\ c.parts = parts /\ c.n = n /\ c.s = s /\ c.up = up
  BY <1>2
<1>4. Made(t, c)
  BY <1>1, <1>3 DEF Made, Whole
<1>5. t.cells \in Seq(Cell)
  <2>1. n \in Nat /\ up \in [0 .. n -> Seq(Cell)] /\ Lead(t.type, x) \in Seq(Cell)
    BY <1>1 DEF Parted, Flat, Whole, Composed
  <2>2. up[n] \in Seq(Cell)
    BY <2>1
  <2> QED
    BY <1>1, <2>1, <2>2, ConcatCells DEF Parted
<1>6. IsLeaves(t.leaves)
  <2>1. Branches(t.leaves, c.x, c.parts, c.n)
    BY <1>4, MadeLeaves
  <2> QED
    BY <2>1 DEF Branches
<1>7. IsTyped(t)
  BY <1>5, <1>6 DEF IsTyped, Whole
<1>8. Well(t)
  BY <1>7, WellFold DEF Whole
<1> QED
  BY <1>3, <1>4, <1>8

\* The parts' cells, one after the other.
LEMMA PiecesCells ==
  ASSUME NEW parts, NEW n \in Nat, \A j \in 1 .. n : Well(parts[j])
  PROVE  /\ FlattenSeq(Pieces(parts, n)) \in Seq(Cell)
         /\ n = 0 => FlattenSeq(Pieces(parts, n)) = <<>>
         /\ n = 1 => FlattenSeq(Pieces(parts, n)) = Own(parts[1].type, parts[1].cells)
         /\ n # 0 => FlattenSeq(Pieces(parts, n)) # <<>>
<1>1. \A j \in 1 .. n : Own(parts[j].type, parts[j].cells) \in Seq(Cell)
  BY OwnCells
<1>2. PICK s : s = Pieces(parts, n)
  OBVIOUS
<1>3. s = [j \in 1 .. n |-> Own(parts[j].type, parts[j].cells)]
  BY <1>2 DEF Pieces
<1>4. s \in Seq(Seq(Cell)) /\ Len(s) = n
  <2>1. s \in [1 .. n -> Seq(Cell)]
    BY <1>1, <1>3
  <2> QED
    BY <2>1
<1>5. PICK up : Flat(s, up) /\ FlattenSeq(s) = up[n]
  BY <1>4, FlattenIs
<1>6. up[0] = <<>> /\ up[n] \in Seq(Cell) /\ \A i \in 1 .. n : up[i] = up[i - 1] \o s[i]
  <2>1. up \in [0 .. n -> Seq(Cell)] /\ up[0] = <<>> /\ \A i \in 1 .. n : up[i] = up[i - 1] \o s[i]
    BY <1>4, <1>5, Zenon DEF Flat
  <2>2. n \in 0 .. n
    OBVIOUS
  <2> QED
    BY <2>1, <2>2
<1>7. n = 1 => up[n] = Own(parts[1].type, parts[1].cells)
  <2>1. SUFFICES ASSUME n = 1 PROVE up[1] = Own(parts[1].type, parts[1].cells)
    OBVIOUS
  <2>2. 1 \in 1 .. n /\ 1 - 1 = 0
    BY <2>1
  <2>3. up[1] = <<>> \o s[1] /\ s[1] = Own(parts[1].type, parts[1].cells) /\ s[1] \in Seq(Cell)
    BY <1>1, <1>3, <1>6, <2>2
  <2> QED
    BY <2>3, ConcatEmptySeq
<1>8. n # 0 => up[n] # <<>>
  <2>1. SUFFICES ASSUME n # 0 PROVE up[n] # <<>>
    OBVIOUS
  <2>2. n \in 1 .. n
    BY <2>1
  <2>3. /\ s[n] \in Seq(Cell) /\ up[n - 1] \in Seq(Cell)
        /\ Len(up[n - 1]) \in Nat /\ Len(s[n]) \in Nat
        /\ Len(up[n]) = Len(up[n - 1]) + Len(s[n])
    BY <1>4, <1>5, <2>2, FlatAt
  <2>4. Len(s[n]) >= 1
    BY <1>3, <2>2, OwnNotEmpty
  <2>5. Len(up[n]) # 0
    <3>1. PICK a \in Nat : a = Len(up[n - 1])
      BY <2>3
    <3>2. PICK b \in Nat : b = Len(s[n])
      BY <2>3
    <3>3. Len(up[n]) = a + b /\ b >= 1
      BY <2>3, <2>4, <3>1, <3>2
    <3>4. b >= 1 => a + b # 0
      OBVIOUS
    <3> QED
      BY <3>3, <3>4
  <2>6. Len(<<>>) = 0
    OBVIOUS
  <2> QED
    BY <2>5, <2>6
<1> QED
  BY <1>2, <1>5, <1>6, <1>7, <1>8

\* The cells of a value of a type, without its header.
OneOf(type, v) ==
  CASE type.kind = "scalar" -> <<<<type.of, v>>>>
    [] type.kind = "content" -> v
    [] type.kind = "message" -> v.cells

AllOf(type, v) ==
  IF type.kind = "array" THEN FlattenSeq([k \in DOMAIN v |-> PutOne(type.of, v[k])])
  ELSE OneOf(type, v)

ElementOf(type, v, m) == As(type, OneOf(type, v), MeaningOfOne(type, v), m)

ValueOf(type, v, m) == As(type, AllOf(type, v), MeaningOf(type, v), m)

WellNested(nested, m) ==
  /\ m \in Nat
  /\ \A n \in Name : \A v \in nested[n] \cup {Nil} : Well(As(TypeMessage(n), v.cells, v.leaves, m))

MadeOf(t, n, parts) == \E c : Made(t, c) /\ c.n = n /\ c.parts = parts

LEMMA OneWell ==
  ASSUME NEW nested, NEW m, WellNested(nested, m), NEW type, NEW v, FitsOne(type, v, nested)
  PROVE  /\ Well(ElementOf(type, v, m))
         /\ PutOne(type, v) = Own(type, OneOf(type, v))
         /\ type.kind \in {"scalar", "content", "message"}
<1> DEFINE t == ElementOf(type, v, m)
<1>1. t.type = type /\ t.cells = OneOf(type, v) /\ t.leaves = MeaningOfOne(type, v) /\ t.rank = m
  BY AsIs DEF ElementOf
<1>2. m \in Nat
  BY DEF WellNested
<1>. HIDE DEF t
<1>3. CASE type.kind = "scalar"
  <2>1. <<type.of, v>> \in Cell
    BY <1>3 DEF FitsOne
  <2>2. t.cells = <<<<type.of, v>>>> /\ t.leaves = Single(v)
    BY <1>1, <1>3 DEF OneOf, MeaningOfOne
  <2>3. t.cells \in Seq(Cell)
    BY <2>1, <2>2, OneCell
  <2>4. IsTyped(t)
    BY <1>1, <1>2, <2>2, <2>3, SingleIs DEF IsTyped
  <2>5. IsScalar(t)
    BY <1>1, <1>3, <2>1, <2>2 DEF IsScalar
  <2>6. Well(t)
    BY <2>4, <2>5, WellFold
  <2> QED
    BY <1>3, <2>6 DEF t, PutOne, Own, OneOf
<1>4. CASE type.kind = "content"
  <2>1. v \in Seq(Cell)
    BY <1>4 DEF FitsOne
  <2>2. t.cells = v /\ t.leaves = Single(v)
    BY <1>1, <1>4 DEF OneOf, MeaningOfOne
  <2>3. IsTyped(t)
    BY <1>1, <1>2, <2>1, <2>2, SingleIs DEF IsTyped
  <2>4. IsContent(t)
    BY <1>1, <1>4, <2>2 DEF IsContent
  <2>5. Well(t)
    BY <2>3, <2>4, WellFold
  <2> QED
    BY <1>4, <2>5 DEF t, PutOne, Own, OneOf
<1>5. CASE type.kind = "message"
  <2>1. type.of \in Name /\ v \in nested[type.of] \cup {Nil}
    BY <1>5 DEF FitsOne
  <2>2. Well(As(TypeMessage(type.of), v.cells, v.leaves, m))
    BY <2>1 DEF WellNested
  <2>3. TypeMessage(type.of).kind = "message" /\ TypeMessage(type.of).of = type.of
    BY DEF TypeMessage
  <2>4. t.cells = v.cells /\ t.leaves = v.leaves
    BY <1>1, <1>5 DEF OneOf, MeaningOfOne
  <2>5. PICK s : s = As(TypeMessage(type.of), v.cells, v.leaves, m)
    OBVIOUS
  <2>6. s.type = TypeMessage(type.of) /\ s.cells = v.cells /\ s.leaves = v.leaves /\ s.rank = m
    BY <2>5, AsIs
  <2>7. Well(s)
    BY <2>2, <2>5
  <2>8. /\ t.type.kind = s.type.kind /\ t.type.of = s.type.of
        /\ t.cells = s.cells /\ t.leaves = s.leaves /\ t.rank = s.rank
    BY <1>1, <1>5, <2>3, <2>4, <2>6
  <2>9. Well(t)
    BY <2>7, <2>8, WellAlike
  <2> QED
    BY <1>5, <2>9 DEF t, PutOne, Own, OneOf
<1> QED
  BY <1>3, <1>4, <1>5 DEF FitsOne

LEMMA ArrayWell ==
  ASSUME NEW nested, NEW m, WellNested(nested, m), NEW type, type.kind = "array",
         NEW v, Fits(type, v, nested)
  PROVE  /\ Well(ValueOf(type, v, m + 1))
         /\ MadeOf(ValueOf(type, v, m + 1), Len(v),
                   [k \in 1 .. Len(v) |-> ElementOf(type.of, v[k], m)])
<1> DEFINE n == Len(v)
           t == ValueOf(type, v, m + 1)
           parts == [k \in 1 .. n |-> ElementOf(type.of, v[k], m)]
<1>1. n \in Nat /\ v = [k \in 1 .. n |-> v[k]] /\ \A k \in DOMAIN v : FitsOne(type.of, v[k], nested)
  BY DEF Fits, IsSequence
<1>2. DOMAIN v = 1 .. n
  BY <1>1
<1>3. /\ t.type = type /\ t.rank = m + 1 /\ m \in Nat
      /\ t.cells = FlattenSeq([k \in DOMAIN v |-> PutOne(type.of, v[k])])
      /\ t.leaves = Join(n, [k \in DOMAIN v |-> MeaningOfOne(type.of, v[k])])
  BY AsIs DEF ValueOf, AllOf, MeaningOf, WellNested
<1>4. ASSUME NEW k \in 1 .. n
      PROVE  /\ parts[k] = ElementOf(type.of, v[k], m)
             /\ Well(parts[k])
             /\ PutOne(type.of, v[k]) = Own(type.of, OneOf(type.of, v[k]))
  BY <1>1, <1>2, OneWell
<1>5. \A k \in 1 .. n :
        /\ parts[k].type = type.of /\ parts[k].rank = m
        /\ parts[k].cells = OneOf(type.of, v[k])
        /\ parts[k].leaves = MeaningOfOne(type.of, v[k])
  BY <1>4, AsIs DEF ElementOf
<1>. HIDE DEF t, parts
<1>6. [k \in DOMAIN v |-> PutOne(type.of, v[k])] = Pieces(parts, n)
  <2>1. \A k \in 1 .. n : PutOne(type.of, v[k]) = Own(parts[k].type, parts[k].cells)
    BY <1>4, <1>5
  <2> QED
    BY <1>2, <2>1 DEF Pieces
<1>7. [k \in DOMAIN v |-> MeaningOfOne(type.of, v[k])] = LeavesOf(parts, n)
  BY <1>2, <1>5 DEF LeavesOf
<1>8. FlattenSeq(Pieces(parts, n)) \in Seq(Cell)
  BY <1>1, <1>4, PiecesCells
<1>9. t.cells = Lead(t.type, n) \o FlattenSeq(Pieces(parts, n))
  <2>1. Lead(t.type, n) = <<>>
    BY <1>3 DEF Lead
  <2> QED
    BY <1>3, <1>6, <1>8, <2>1, ConcatEmptySeq
<1>10. \A k \in 1 .. n : parts[k].type = ChildType(t.type, n, k)
  BY <1>3, <1>5 DEF ChildType
<1>11. Composed(t, n, parts, n)
  BY <1>1, <1>3, <1>7, <1>9, <1>10, Zenon DEF Composed
<1>12. m + 1 \in Nat /\ \A k \in 1 .. n : parts[k].rank < t.rank
  BY <1>3, <1>5
<1>13. Whole(t, n, parts, n)
  BY <1>3, <1>4, <1>11, <1>12 DEF Whole
<1>14. Well(t) /\ MadeOf(t, n, parts)
  BY <1>13, WholeIs DEF MadeOf
<1> QED
  BY <1>14 DEF t, parts

LEMMA ValueWell ==
  ASSUME NEW nested, NEW m, WellNested(nested, m), NEW type, NEW v, Fits(type, v, nested)
  PROVE  /\ Well(ValueOf(type, v, m + 1))
         /\ Put(type, v) = Own(type, AllOf(type, v))
         /\ type.kind \in {"scalar", "content", "message", "array"}
<1>1. CASE type.kind = "array"
  BY <1>1, ArrayWell DEF Put, Own, AllOf
<1>2. CASE type.kind # "array"
  <2>1. FitsOne(type, v, nested)
    BY <1>2 DEF Fits
  <2>2. /\ Well(ElementOf(type, v, m))
        /\ PutOne(type, v) = Own(type, OneOf(type, v))
        /\ type.kind \in {"scalar", "content", "message"}
    BY <2>1, OneWell
  <2>3. AllOf(type, v) = OneOf(type, v) /\ MeaningOf(type, v) = MeaningOfOne(type, v)
        /\ Put(type, v) = PutOne(type, v)
    BY <1>2 DEF AllOf, MeaningOf, Put
  <2>4. PICK t, s : t = ElementOf(type, v, m) /\ s = ValueOf(type, v, m + 1)
    OBVIOUS
  <2>5. /\ t.type = type /\ t.cells = OneOf(type, v) /\ t.leaves = MeaningOfOne(type, v) /\ t.rank = m
        /\ s.type = type /\ s.cells = OneOf(type, v) /\ s.leaves = MeaningOfOne(type, v)
        /\ s.rank = m + 1
    BY <2>3, <2>4, AsIs DEF ElementOf, ValueOf
  <2>6. m + 1 \in Nat /\ m <= m + 1
    BY DEF WellNested
  <2>7. Well(t)
    BY <2>2, <2>4
  <2>8. Well(s)
    BY <2>5, <2>6, <2>7, WellRank
  <2> QED
    BY <2>2, <2>3, <2>4, <2>8
<1> QED
  BY <1>1, <1>2

\* The fields of a builder.
FieldCells(field, w) ==
  LET v == w[field[1]]
      chosen == field[2].of[v + 1]
  IN  IF field[2].kind = "union" THEN <<<<"index", v>>>> \o Put(chosen[2], w[chosen[1]])
      ELSE AllOf(field[2], v)

FieldOf(field, w, m) == As(field[2], FieldCells(field, w), MeaningOfField(field, w), m)

Chosen(field, w) == field[2].of[w[field[1]] + 1]

ChosenOf(field, w, m) == ValueOf(Chosen(field, w)[2], w[Chosen(field, w)[1]], m)

LEMMA UnionWell ==
  ASSUME NEW nested, NEW m, WellNested(nested, m), NEW field, field[2].kind = "union",
         NEW w, FitsField(field, w, nested)
  PROVE  /\ Well(FieldOf(field, w, m + 2))
         /\ MadeOf(FieldOf(field, w, m + 2), 1, <<ChosenOf(field, w, m + 1)>>)
<1> DEFINE type == field[2]
           x == w[field[1]]
           alternative == Chosen(field, w)[2]
           v == w[Chosen(field, w)[1]]
           t == FieldOf(field, w, m + 2)
           part == ChosenOf(field, w, m + 1)
           parts == <<part>>
<1>1. x \in Nat /\ Fits(alternative, v, nested)
  BY DEF FitsField, Chosen
<1>2. /\ t.type = type /\ t.rank = m + 2 /\ m \in Nat
      /\ t.cells = <<<<"index", x>>>> \o Put(alternative, v)
      /\ t.leaves = Join(x, <<MeaningOf(alternative, v)>>)
  <2>1. /\ t.type = type /\ t.rank = m + 2
        /\ t.cells = FieldCells(field, w) /\ t.leaves = MeaningOfField(field, w)
    BY AsIs DEF FieldOf
  <2>2. FieldCells(field, w) = <<<<"index", x>>>> \o Put(alternative, v)
    BY DEF FieldCells, Chosen
  <2>3. MeaningOfField(field, w) = Join(x, <<MeaningOf(alternative, v)>>)
    BY DEF MeaningOfField, Chosen
  <2>4. m \in Nat
    BY DEF WellNested
  <2>. HIDE DEF t, x, type, alternative, v
  <2> QED
    BY <2>1, <2>2, <2>3, <2>4
<1>3. /\ Well(part)
      /\ Put(alternative, v) = Own(alternative, AllOf(alternative, v))
      /\ alternative.kind \in {"scalar", "content", "message", "array"}
  BY <1>1, ValueWell DEF ChosenOf
<1>4. /\ part.type = alternative /\ part.rank = m + 1
      /\ part.cells = AllOf(alternative, v) /\ part.leaves = MeaningOf(alternative, v)
  BY AsIs DEF ChosenOf, ValueOf
<1>5. type.kind = "union" /\ alternative = type.of[x + 1][2]
  BY DEF Chosen
<1>. HIDE DEF t, part, v, alternative, x, type
<1>6. parts[1] = part /\ 1 \in Nat /\ \A j \in 1 .. 1 : parts[j] = part
  OBVIOUS
<1>7. <<MeaningOf(alternative, v)>> = LeavesOf(parts, 1)
  BY <1>4, <1>6 DEF LeavesOf
<1>. HIDE DEF parts
<1>8. FlattenSeq(Pieces(parts, 1)) = Put(alternative, v)
  <2>1. \A j \in 1 .. 1 : Well(parts[j])
    BY <1>3, <1>6
  <2>2. FlattenSeq(Pieces(parts, 1)) = Own(parts[1].type, parts[1].cells)
    BY <2>1, PiecesCells
  <2> QED
    BY <1>3, <1>4, <1>6, <2>2
<1>9. t.cells = Lead(t.type, x) \o FlattenSeq(Pieces(parts, 1))
  <2>1. Lead(t.type, x) = <<<<"index", x>>>>
    BY <1>2, <1>5 DEF Lead
  <2> QED
    BY <1>2, <1>8, <2>1
<1>10. \A k \in 1 .. 1 : parts[k].type = ChildType(t.type, x, k)
  <2>1. \A k : ChildType(t.type, x, k) = alternative
    BY <1>2, <1>5 DEF ChildType
  <2> QED
    BY <1>4, <1>6, <2>1
<1>11. parts[1].type.kind # "union"
  BY <1>3, <1>4, <1>6
<1>12. Composed(t, x, parts, 1)
  BY <1>1, <1>2, <1>5, <1>6, <1>7, <1>9, <1>10, <1>11, Zenon DEF Composed
<1>13. m + 2 \in Nat /\ m + 1 < m + 2
  BY <1>2
<1>14. Whole(t, x, parts, 1)
  BY <1>2, <1>3, <1>4, <1>6, <1>12, <1>13 DEF Whole
<1>15. Well(t) /\ MadeOf(t, 1, parts)
  BY <1>14, WholeIs DEF MadeOf
<1> QED
  BY <1>15 DEF t, parts, part

LEMMA FieldWell ==
  ASSUME NEW nested, NEW m, WellNested(nested, m), NEW field, NEW w, FitsField(field, w, nested)
  PROVE  /\ Well(FieldOf(field, w, m + 2))
         /\ PutField(field, w) = Own(field[2], FieldCells(field, w))
<1>1. CASE field[2].kind = "union"
  <2>1. PutField(field, w) = Own(field[2], FieldCells(field, w))
    BY <1>1 DEF PutField, Own, FieldCells
  <2> QED
    BY <1>1, <2>1, UnionWell
<1>2. CASE field[2].kind # "union"
  <2> DEFINE v == w[field[1]]
  <2>1. Fits(field[2], v, nested)
    BY <1>2 DEF FitsField
  <2>2. Well(ValueOf(field[2], v, m + 1)) /\ Put(field[2], v) = Own(field[2], AllOf(field[2], v))
    BY <2>1, ValueWell
  <2>3. /\ FieldCells(field, w) = AllOf(field[2], v)
        /\ MeaningOfField(field, w) = MeaningOf(field[2], v)
        /\ PutField(field, w) = Put(field[2], v)
    BY <1>2 DEF FieldCells, MeaningOfField, PutField
  <2>. HIDE DEF v
  <2>4. PICK t, s : t = ValueOf(field[2], v, m + 1) /\ s = FieldOf(field, w, m + 2)
    OBVIOUS
  <2>5. /\ t.type = field[2] /\ t.cells = AllOf(field[2], v)
        /\ t.leaves = MeaningOf(field[2], v) /\ t.rank = m + 1
        /\ s.type = field[2] /\ s.cells = AllOf(field[2], v)
        /\ s.leaves = MeaningOf(field[2], v) /\ s.rank = m + 2
    BY <2>3, <2>4, AsIs DEF FieldOf, ValueOf
  <2>6. m + 2 \in Nat /\ m + 1 <= m + 2
    BY DEF WellNested
  <2>7. Well(t)
    BY <2>2, <2>4
  <2>8. Well(s)
    BY <2>5, <2>6, <2>7, WellRank
  <2> QED
    BY <2>2, <2>3, <2>4, <2>8
<1> QED
  BY <1>1, <1>2

MessageOf(name, w, m) ==
  As(TypeMessage(name), Write(BuilderOf(name), w), Meaning(ReaderOf(name), w), m)

LEMMA MessageWell ==
  ASSUME NEW nested, NEW m, WellNested(nested, m), NEW name \in Name,
         NEW w, IsBuilder(ReaderOf(name), w, nested)
  PROVE  /\ Well(MessageOf(name, w, m + 3))
         /\ MadeOf(MessageOf(name, w, m + 3), Len(ReaderOf(name).fields),
                   [i \in 1 .. Len(ReaderOf(name).fields) |->
                      FieldOf(ReaderOf(name).fields[i], w, m + 2)])
<1> DEFINE fields == ReaderOf(name).fields
           n == Len(fields)
           parts == [i \in 1 .. n |-> FieldOf(fields[i], w, m + 2)]
           t == MessageOf(name, w, m + 3)
           x == fields = <<>>
<1>1. BuilderOf(name).fields = fields /\ n \in Nat /\ DOMAIN fields = 1 .. n
  BY FieldsOf
<1>2. \A i \in 1 .. n : FitsField(fields[i], w, nested)
  BY <1>1 DEF IsBuilder
<1>3. ASSUME NEW i \in 1 .. n
      PROVE  /\ parts[i] = FieldOf(fields[i], w, m + 2)
             /\ Well(parts[i])
             /\ PutField(fields[i], w) = Own(fields[i][2], FieldCells(fields[i], w))
  BY <1>2, FieldWell
<1>4. \A i \in 1 .. n :
        /\ parts[i].type = fields[i][2] /\ parts[i].rank = m + 2
        /\ parts[i].cells = FieldCells(fields[i], w)
        /\ parts[i].leaves = MeaningOfField(fields[i], w)
  BY <1>3, AsIs DEF FieldOf
<1>5. /\ t.type = TypeMessage(name) /\ t.rank = m + 3 /\ m \in Nat
      /\ t.cells = FlattenSeq([i \in DOMAIN fields |-> PutField(fields[i], w)])
      /\ t.leaves = Join(x, [i \in DOMAIN fields |-> MeaningOfField(fields[i], w)])
  BY <1>1, AsIs DEF MessageOf, Write, Meaning, WellNested
<1>6. n = 0 <=> fields = <<>>
  BY FieldsOf
<1>. HIDE DEF t, parts, x
<1>7. [i \in DOMAIN fields |-> PutField(fields[i], w)] = Pieces(parts, n)
  <2>1. \A i \in 1 .. n : PutField(fields[i], w) = Own(parts[i].type, parts[i].cells)
    BY <1>3, <1>4
  <2> QED
    BY <1>1, <2>1 DEF Pieces
<1>8. [i \in DOMAIN fields |-> MeaningOfField(fields[i], w)] = LeavesOf(parts, n)
  BY <1>1, <1>4 DEF LeavesOf
<1>9. /\ FlattenSeq(Pieces(parts, n)) \in Seq(Cell)
      /\ n = 0 => FlattenSeq(Pieces(parts, n)) = <<>>
      /\ n # 0 => FlattenSeq(Pieces(parts, n)) # <<>>
  BY <1>1, <1>3, PiecesCells
<1>10. TypeMessage(name).kind = "message" /\ TypeMessage(name).of = name
  BY DEF TypeMessage
<1>11. t.cells = Lead(t.type, x) \o FlattenSeq(Pieces(parts, n))
  <2>1. Lead(t.type, x) = <<>>
    BY <1>5, <1>10 DEF Lead
  <2> QED
    BY <1>5, <1>7, <1>9, <2>1, ConcatEmptySeq
<1>12. x = (t.cells = <<>>) /\ n = IF t.cells = <<>> THEN 0 ELSE n
  <2>1. t.cells = <<>> <=> n = 0
    BY <1>5, <1>7, <1>9
  <2>2. x <=> t.cells = <<>>
    BY <1>6, <2>1 DEF x
  <2>3. x = (t.cells = <<>>)
    BY <2>2 DEF x
  <2> QED
    BY <2>1, <2>3
<1>13. \A i \in 1 .. n : parts[i].type = ChildType(t.type, x, i)
  BY <1>4, <1>5, <1>10 DEF ChildType
<1>14. t.type.kind = "message" /\ t.type.of = name /\ ReaderOf(t.type.of).fields = fields
  BY <1>5, <1>10
<1>15. t.leaves = Join(x, LeavesOf(parts, n))
  BY <1>5, <1>8
<1>. HIDE DEF n, fields
<1>16. n = IF t.cells = <<>> THEN 0 ELSE Len(ReaderOf(t.type.of).fields)
  BY <1>12, <1>14 DEF n
<1>17. Composed(t, x, parts, n)
  BY <1>1, <1>11, <1>12, <1>13, <1>14, <1>15, <1>16, Zenon DEF Composed
<1>18. m + 3 \in Nat /\ m + 2 < m + 3
  BY <1>5
<1>19. Whole(t, x, parts, n)
  BY <1>3, <1>4, <1>5, <1>17, <1>18 DEF Whole
<1>20. Well(t) /\ MadeOf(t, n, parts)
  BY <1>19, WholeIs DEF MadeOf
<1> QED
  BY <1>20 DEF t, parts, n, fields

\* The nil pointer's message is an empty one.
LEMMA NilWell ==
  ASSUME NEW name \in Name, NEW m \in Nat
  PROVE  Well(As(TypeMessage(name), Nil.cells, Nil.leaves, m))
<1> DEFINE t == As(TypeMessage(name), Nil.cells, Nil.leaves, m)
           parts == <<>>
<1>1. t.type = TypeMessage(name) /\ t.rank = m /\ t.cells = <<>> /\ t.leaves = Single(TRUE)
  <2>1. Nil.cells = <<>> /\ Nil.leaves = Single(TRUE)
    BY DEF Nil
  <2>2. t.type = TypeMessage(name) /\ t.rank = m /\ t.cells = Nil.cells /\ t.leaves = Nil.leaves
    BY AsIs
  <2>. HIDE DEF t
  <2> QED
    BY <2>1, <2>2
<1>2. TypeMessage(name).kind = "message" /\ TypeMessage(name).of = name
  BY DEF TypeMessage
<1>. HIDE DEF t, parts
<1>3. 0 \in Nat /\ \A j \in 1 .. 0 : FALSE
  OBVIOUS
<1>4. Join(TRUE, LeavesOf(parts, 0)) = Single(TRUE)
  <2> DEFINE ls == LeavesOf(parts, 0)
  <2>1. DOMAIN ls = {}
    BY <1>3 DEF LeavesOf
  <2>. HIDE DEF ls
  <2>2. UNION {{<<j>> \o p : p \in DOMAIN ls[j]} : j \in DOMAIN ls} = {}
    BY <2>1
  <2> DEFINE D == {<<>>} \cup UNION {{<<j>> \o p : p \in DOMAIN ls[j]} : j \in DOMAIN ls}
  <2>3. D = {<<>>}
    BY <2>2
  <2>4. Join(TRUE, ls) = [path \in D |-> IF path = <<>> THEN TRUE ELSE ls[Head(path)][Tail(path)]]
    BY DEF Join
  <2>. HIDE DEF D
  <2>5. Join(TRUE, ls) = [path \in {<<>>} |-> TRUE]
    BY <2>3, <2>4
  <2> QED
    BY <2>5 DEF ls, Single
<1>5. t.cells = Lead(t.type, TRUE) \o FlattenSeq(Pieces(parts, 0))
  <2>1. FlattenSeq(Pieces(parts, 0)) = <<>>
    BY <1>3, PiecesCells
  <2>2. Lead(t.type, TRUE) = <<>>
    BY <1>1, <1>2 DEF Lead
  <2>3. <<>> \o <<>> = <<>>
    BY EmptySeq, ConcatEmptySeq
  <2> QED
    BY <1>1, <2>1, <2>2, <2>3
<1>6. TRUE = (t.cells = <<>>)
  BY <1>1
<1>7. Composed(t, TRUE, parts, 0)
  BY <1>1, <1>2, <1>3, <1>4, <1>5, <1>6 DEF Composed
<1>8. Whole(t, TRUE, parts, 0)
  BY <1>1, <1>3, <1>7 DEF Whole
<1> QED
  BY <1>8, WholeIs DEF t

\* Builders one in another, level by level.
Level(inner) == [n \in Name |-> {Built(n, w) : w \in ProgramBuilders(n, inner)}]

NestedUpTo(g, depth) ==
  g = [d \in 0 .. depth |-> IF d = 0 THEN NoBuilders ELSE Level(g[d - 1])]

LEMMA NestedUpToExists ==
  \A depth \in Nat : \E g : NestedUpTo(g, depth)
<1> DEFINE Is(g, n) == NestedUpTo(g, n)
           S == {n \in Nat : \E g : Is(g, n)}
<1>1. 0 \in S
  <2>1. PICK g : g = [d \in 0 .. 0 |-> NoBuilders]
    OBVIOUS
  <2>2. \A d \in 0 .. 0 : d = 0
    OBVIOUS
  <2>3. g = [d \in 0 .. 0 |-> IF d = 0 THEN NoBuilders ELSE Level(g[d - 1])]
    BY <2>1, <2>2
  <2>4. Is(g, 0)
    BY <2>3 DEF NestedUpTo
  <2> QED
    BY <2>4
<1>2. ASSUME NEW n \in Nat, n \in S
      PROVE  n + 1 \in S
  <2>1. PICK g : Is(g, n)
    BY <1>2
  <2>2. PICK last : last = Level(g[n])
    OBVIOUS
  <2>3. PICK h : h = [k \in 0 .. n + 1 |-> IF k <= n THEN g[k] ELSE last]
    OBVIOUS
  <2>4. (\A k \in 0 .. n : h[k] = g[k]) /\ h[n + 1] = last
    BY <2>3
  <2>5. g = [d \in 0 .. n |-> IF d = 0 THEN NoBuilders ELSE Level(g[d - 1])]
    BY <2>1 DEF NestedUpTo
  <2>6. ASSUME NEW k \in 0 .. n + 1
        PROVE  h[k] = IF k = 0 THEN NoBuilders ELSE Level(h[k - 1])
    <3>1. CASE k \in 0 .. n
      <4>1. g[k] = IF k = 0 THEN NoBuilders ELSE Level(g[k - 1])
        BY <2>5, <3>1
      <4>2. k # 0 => h[k - 1] = g[k - 1]
        BY <2>4, <3>1
      <4> QED
        BY <2>4, <3>1, <4>1, <4>2
    <3>2. CASE k = n + 1
      <4>1. h[k - 1] = g[n] /\ k # 0
        BY <2>4, <3>2
      <4> QED
        BY <2>2, <2>4, <3>2, <4>1
    <3> QED
      BY <3>1, <3>2
  <2>7. h = [k \in 0 .. n + 1 |-> IF k = 0 THEN NoBuilders ELSE Level(h[k - 1])]
    BY <2>3, <2>6
  <2>8. Is(h, n + 1)
    BY <2>7 DEF NestedUpTo
  <2> QED
    BY <2>8
<1>. HIDE DEF S, Is
<1>3. \A n \in Nat : n \in S
  BY <1>1, <1>2, NatSetInduction
<1> QED
  BY <1>3 DEF S, Is

LEMMA LevelWell ==
  ASSUME NEW inner, NEW m, WellNested(inner, m)
  PROVE  WellNested(Level(inner), m + 3)
<1>1. m \in Nat /\ m + 3 \in Nat
  BY DEF WellNested
<1>2. ASSUME NEW n \in Name, NEW v \in Level(inner)[n]
      PROVE  Well(As(TypeMessage(n), v.cells, v.leaves, m + 3))
  <2>1. PICK w \in ProgramBuilders(n, inner) : v = Built(n, w)
    BY DEF Level
  <2>2. IsBuilder(ReaderOf(n), w, inner)
    BY DEF Builders, ProgramBuilders, WrappingBuilders
  <2>3. v.cells = Write(BuilderOf(n), w) /\ v.leaves = Meaning(ReaderOf(n), w)
    BY <2>1 DEF Built
  <2>4. Well(MessageOf(n, w, m + 3))
    BY <2>2, MessageWell
  <2> QED
    BY <2>3, <2>4 DEF MessageOf
<1>3. \A n \in Name : Well(As(TypeMessage(n), Nil.cells, Nil.leaves, m + 3))
  BY <1>1, NilWell
<1> QED
  BY <1>1, <1>2, <1>3 DEF WellNested

LEMMA NestedWell ==
  ASSUME NEW depth \in Nat
  PROVE  \E m : WellNested(Nested(depth), m)
<1> DEFINE g == CHOOSE h : NestedUpTo(h, depth)
<1>1. NestedUpTo(g, depth)
  BY NestedUpToExists
<1>2. Nested(depth) = g[depth]
  BY Zenon DEF Nested, NestedUpTo, Level
<1>. HIDE DEF g
<1> DEFINE Has(k) == k <= depth => \E m : WellNested(g[k], m)
           S == {k \in Nat : Has(k)}
<1>3. \A d \in 0 .. depth : g[d] = IF d = 0 THEN NoBuilders ELSE Level(g[d - 1])
  BY <1>1 DEF NestedUpTo
<1>4. Has(0)
  <2>1. 0 \in 0 .. depth
    OBVIOUS
  <2>2. g[0] = NoBuilders
    BY <1>3, <2>1
  <2>3. 0 \in Nat /\ \A n \in Name : NoBuilders[n] = {}
    BY DEF NoBuilders
  <2>4. WellNested(NoBuilders, 0)
    BY <2>3, NilWell DEF WellNested
  <2> QED
    BY <2>2, <2>4
<1>5. ASSUME NEW k \in Nat, Has(k)
      PROVE  Has(k + 1)
  <2>1. SUFFICES ASSUME k + 1 <= depth PROVE \E m : WellNested(g[k + 1], m)
    OBVIOUS
  <2>2. k <= depth /\ k + 1 \in 0 .. depth /\ k + 1 # 0 /\ (k + 1) - 1 = k
    BY <2>1
  <2>3. PICK m : WellNested(g[k], m)
    BY <1>5, <2>2
  <2>4. g[k + 1] = Level(g[k])
    BY <1>3, <2>2
  <2>5. WellNested(Level(g[k]), m + 3)
    BY <2>3, LevelWell
  <2> QED
    BY <2>4, <2>5
<1>. HIDE DEF Has
<1>6. 0 \in S /\ \A k \in Nat : k \in S => k + 1 \in S
  BY <1>4, <1>5
<1>. HIDE DEF S
<1>7. \A k \in Nat : k \in S
  BY <1>6, NatSetInduction
<1>8. Has(depth)
  BY <1>7 DEF S
<1> QED
  BY <1>2, <1>8 DEF Has
---------------------------------------------------------------------------
(* Builders whose fields are replaced.                                     *)

Wider(nested, other) == \A n \in Name : nested[n] \subseteq other[n]

LEMMA FitsWider ==
  ASSUME NEW nested, NEW other, Wider(nested, other), NEW type, NEW v, Fits(type, v, nested)
  PROVE  Fits(type, v, other)
<1>1. ASSUME NEW t, NEW x, FitsOne(t, x, nested)
      PROVE  FitsOne(t, x, other)
  BY <1>1 DEF FitsOne, Wider
<1>2. CASE type.kind = "array"
  BY <1>1, <1>2 DEF Fits
<1>3. CASE type.kind # "array"
  BY <1>1, <1>3 DEF Fits
<1> QED
  BY <1>2, <1>3

LEMMA BuilderWider ==
  ASSUME NEW nested, NEW other, Wider(nested, other), NEW reader, NEW w,
         IsBuilder(reader, w, nested)
  PROVE  IsBuilder(reader, w, other)
<1>1. ASSUME NEW field, FitsField(field, w, nested)
      PROVE  FitsField(field, w, other)
  <2>1. CASE field[2].kind = "union"
    BY <1>1, <2>1, FitsWider DEF FitsField
  <2>2. CASE field[2].kind # "union"
    BY <1>1, <2>2, FitsWider DEF FitsField
  <2> QED
    BY <2>1, <2>2
<1> QED
  BY <1>1 DEF IsBuilder

\* The builders u and w differ in the field x, if at all.
Differs(u, w, x) ==
  /\ DOMAIN u = DOMAIN w
  /\ \A y \in DOMAIN w : y # x => u[y] = w[y]

LEMMA OthersFit ==
  ASSUME NEW fields, Apart(fields), NEW i \in DOMAIN fields, NEW x \in Names(fields[i]),
         NEW k \in DOMAIN fields, k # i, NEW u, NEW w, Differs(u, w, x),
         NEW nested, FitsField(fields[k], w, nested)
  PROVE  FitsField(fields[k], u, nested)
<1> DEFINE field == fields[k]
<1>1. x \notin Names(field)
  BY DEF Apart
<1>2. field[1] \in Names(field) /\ field[1] \in DOMAIN w
  BY DEF Names, FitsField
<1>3. field[1] \in DOMAIN u /\ u[field[1]] = w[field[1]]
  BY <1>1, <1>2 DEF Differs
<1>. HIDE DEF field
<1>4. FitsField(field, w, nested)
  BY DEF field
<1>5. ASSUME field[2].kind = "union"
      PROVE  FitsField(field, u, nested)
  <2> DEFINE chosen == field[2].of[w[field[1]] + 1]
  <2>1. /\ w[field[1]] \in Nat /\ w[field[1]] + 1 \in DOMAIN field[2].of
        /\ chosen[1] \in DOMAIN w /\ Fits(chosen[2], w[chosen[1]], nested)
    BY <1>4, <1>5 DEF FitsField
  <2>2. chosen[1] \in Names(field)
    BY <1>5, <2>1 DEF Names
  <2>3. chosen[1] \in DOMAIN u /\ u[chosen[1]] = w[chosen[1]]
    BY <1>1, <2>1, <2>2 DEF Differs
  <2> QED
    BY <1>3, <1>5, <2>1, <2>3 DEF FitsField
<1>6. ASSUME field[2].kind # "union"
      PROVE  FitsField(field, u, nested)
  BY <1>3, <1>4, <1>6 DEF FitsField
<1> QED
  BY <1>5, <1>6 DEF field

LEMMA StillBuilder ==
  ASSUME NEW name \in Name, NEW nested, NEW w, IsBuilder(ReaderOf(name), w, nested),
         NEW i \in DOMAIN ReaderOf(name).fields, NEW x \in Names(ReaderOf(name).fields[i]),
         NEW u, Differs(u, w, x), FitsField(ReaderOf(name).fields[i], u, nested)
  PROVE  IsBuilder(ReaderOf(name), u, nested)
<1> DEFINE fields == ReaderOf(name).fields
<1>1. Apart(fields)
  BY FieldsOf
<1>2. \A k \in DOMAIN fields : FitsField(fields[k], w, nested)
  BY DEF IsBuilder
<1>3. i \in DOMAIN fields /\ x \in Names(fields[i]) /\ FitsField(fields[i], u, nested)
  OBVIOUS
<1>. HIDE DEF fields
<1>4. \A k \in DOMAIN fields : FitsField(fields[k], u, nested)
  BY <1>1, <1>2, <1>3, OthersFit
<1> QED
  BY <1>4 DEF fields, IsBuilder

\* Where the raw message comes, and what is there then.
Filled(field, slot, i, w, u, inner, name) ==
  \/ /\ Takes(field[2], name)
     /\ slot = <<i>>
     /\ u = [w EXCEPT ![field[1]] = inner]
  \/ /\ field[2].kind = "array" /\ Takes(field[2].of, name)
     /\ \E k \in DOMAIN w[field[1]] :
          /\ slot = <<i, k>>
          /\ u = [w EXCEPT ![field[1]] = [@ EXCEPT ![k] = inner]]
  \/ /\ field[2].kind = "union" /\ Takes(Chosen(field, w)[2], name)
     /\ slot = <<i, 1>>
     /\ u = [w EXCEPT ![Chosen(field, w)[1]] = inner]

LEMMA FillIs ==
  ASSUME NEW reader, NEW w, NEW name, NEW slot \in Slots(reader, w, name), NEW inner
  PROVE  \E i \in DOMAIN reader.fields :
           Filled(reader.fields[i], slot, i, w, Fill(reader, w, slot, inner), inner, name)
<1> DEFINE At1(i) ==
             LET field == reader.fields[i]
                 v == w[field[1]]
             IN  CASE Takes(field[2], name) -> {<<i>>}
                   [] field[2].kind = "array" /\ Takes(field[2].of, name) ->
                        {<<i, k>> : k \in DOMAIN v}
                   [] field[2].kind = "union" /\ Takes(field[2].of[v + 1][2], name) -> {<<i, 1>>}
                   [] OTHER -> {}
<1>1. Slots(reader, w, name) = UNION {At1(i) : i \in DOMAIN reader.fields}
  BY DEF Slots
<1>2. PICK i \in DOMAIN reader.fields : slot \in At1(i)
  BY <1>1
<1> DEFINE field == reader.fields[i]
<1>3. CASE Takes(field[2], name)
  <2>1. slot \in {<<i>>}
    BY <1>2, <1>3 DEF Takes
  <2>2. slot = <<i>> /\ slot[1] = i
    BY <2>1
  <2>3. field[2].kind = "message"
    BY <1>3 DEF Takes
  <2>4. Fill(reader, w, slot, inner) = [w EXCEPT ![field[1]] = inner]
    BY <2>2, <2>3 DEF Fill
  <2> QED
    BY <1>3, <2>2, <2>4 DEF Filled
<1>4. CASE ~ Takes(field[2], name) /\ field[2].kind = "array" /\ Takes(field[2].of, name)
  <2>1. slot \in {<<i, k>> : k \in DOMAIN w[field[1]]}
    BY <1>2, <1>4
  <2>2. PICK k \in DOMAIN w[field[1]] : slot = <<i, k>>
    BY <2>1
  <2>3. slot[1] = i /\ slot[2] = k
    BY <2>2
  <2>4. Fill(reader, w, slot, inner) = [w EXCEPT ![field[1]] = [@ EXCEPT ![k] = inner]]
    BY <1>4, <2>3 DEF Fill
  <2> QED
    BY <1>4, <2>2, <2>4 DEF Filled
<1>5. CASE /\ ~ Takes(field[2], name)
           /\ field[2].kind = "union" /\ Takes(Chosen(field, w)[2], name)
  <2>1. slot \in {<<i, 1>>}
    BY <1>2, <1>5 DEF Chosen
  <2>2. slot = <<i, 1>> /\ slot[1] = i
    BY <2>1
  <2>3. Fill(reader, w, slot, inner) = [w EXCEPT ![Chosen(field, w)[1]] = inner]
    BY <1>5, <2>2 DEF Fill, Chosen
  <2> QED
    BY <1>5, <2>2, <2>3 DEF Filled
<1>6. \/ Takes(field[2], name)
      \/ field[2].kind = "array" /\ Takes(field[2].of, name)
      \/ field[2].kind = "union" /\ Takes(Chosen(field, w)[2], name)
  BY <1>2 DEF Chosen
<1> QED
  BY <1>3, <1>4, <1>5, <1>6

LEMMA SeqOfFunction ==
  ASSUME NEW S, NEW n \in Nat, NEW f \in [1 .. n -> S]
  PROVE  f \in Seq(S) /\ Len(f) = n
OBVIOUS

LEMMA ArrayFilled ==
  ASSUME NEW v, IsSequence(v), NEW k \in DOMAIN v, NEW inner, NEW type, NEW nested,
         \A j \in DOMAIN v : FitsOne(type, v[j], nested), FitsOne(type, inner, nested),
         NEW y, y = [v EXCEPT ![k] = inner]
  PROVE  /\ IsSequence(y)
         /\ \A j \in DOMAIN y : FitsOne(type, y[j], nested)
         /\ k \in 1 .. Len(y) /\ k \in Nat
         /\ y[k] = inner
<1> DEFINE n == Len(v)
           S == {v[j] : j \in DOMAIN v} \cup {inner}
<1>1. n \in Nat /\ v = [j \in 1 .. n |-> v[j]]
  BY DEF IsSequence
<1>2. DOMAIN v = 1 .. n
  BY <1>1
<1>3. y = [j \in 1 .. n |-> IF j = k THEN inner ELSE v[j]]
  BY <1>1, <1>2
<1>. HIDE DEF n
<1>4. DOMAIN y = 1 .. n /\ y[k] = inner /\ \A j \in 1 .. n : j # k => y[j] = v[j]
  BY <1>2, <1>3
<1>5. y \in [1 .. n -> S]
  BY <1>2, <1>3
<1>. HIDE DEF S
<1>6. y \in Seq(S) /\ Len(y) = n
  <2>1. n \in Nat
    BY <1>1
  <2> QED
    BY <1>5, <2>1, SeqOfFunction
<1>7. IsSequence(y)
  <2>1. y = [j \in 1 .. n |-> y[j]]
    BY <1>5
  <2> QED
    BY <1>1, <1>6, <2>1 DEF IsSequence
<1>8. \A j \in DOMAIN y : FitsOne(type, y[j], nested)
  BY <1>2, <1>4
<1> QED
  BY <1>1, <1>2, <1>4, <1>6, <1>7, <1>8

LEMMA FillFits ==
  ASSUME NEW name \in Name, NEW nested, NEW w, IsBuilder(ReaderOf(name), w, nested),
         NEW i \in DOMAIN ReaderOf(name).fields, NEW slot, NEW u, NEW inner, NEW of \in Name,
         inner \in nested[of], Filled(ReaderOf(name).fields[i], slot, i, w, u, inner, of)
  PROVE  IsBuilder(ReaderOf(name), u, nested)
<1>1. PICK fields : fields = ReaderOf(name).fields
  OBVIOUS
<1>2. PICK field : field = fields[i]
  OBVIOUS
<1>3. Apart(fields) /\ FitsField(field, w, nested) /\ i \in DOMAIN fields
  BY <1>1, <1>2, FieldsOf DEF IsBuilder
<1>4. field[1] \in Names(field) /\ field[1] \in DOMAIN w
  BY <1>3 DEF Names, FitsField
<1>5. ASSUME NEW type, Takes(type, of)
      PROVE  FitsOne(type, inner, nested) /\ Fits(type, inner, nested) /\ type.kind = "message"
  BY <1>5 DEF Takes, FitsOne, Fits
<1>6. SUFFICES \E x \in Names(field) : Differs(u, w, x) /\ FitsField(field, u, nested)
  BY <1>1, <1>2, StillBuilder
<1>7. CASE /\ Takes(field[2], of)
           /\ u = [w EXCEPT ![field[1]] = inner]
  <2>1. Differs(u, w, field[1]) /\ u[field[1]] = inner /\ field[1] \in DOMAIN u
    BY <1>4, <1>7 DEF Differs
  <2>2. Fits(field[2], inner, nested) /\ field[2].kind # "union"
    BY <1>5, <1>7
  <2>3. FitsField(field, u, nested)
    BY <2>1, <2>2 DEF FitsField
  <2> QED
    BY <1>4, <2>1, <2>3
<1>8. ASSUME field[2].kind = "array", Takes(field[2].of, of), NEW k \in DOMAIN w[field[1]],
             u = [w EXCEPT ![field[1]] = [@ EXCEPT ![k] = inner]]
      PROVE  \E x \in Names(field) : Differs(u, w, x) /\ FitsField(field, u, nested)
  <2>1. PICK v : v = w[field[1]]
    OBVIOUS
  <2>2. /\ Differs(u, w, field[1]) /\ u[field[1]] = [v EXCEPT ![k] = inner]
        /\ field[1] \in DOMAIN u
    BY <1>4, <1>8, <2>1 DEF Differs
  <2>3. IsSequence(v) /\ \A j \in DOMAIN v : FitsOne(field[2].of, v[j], nested)
    BY <1>3, <1>8, <2>1 DEF FitsField, Fits
  <2>4. FitsOne(field[2].of, inner, nested)
    BY <1>5, <1>8
  <2>5. k \in DOMAIN v
    BY <1>8, <2>1
  <2>6. PICK y : y = [v EXCEPT ![k] = inner]
    OBVIOUS
  <2>7. IsSequence(y) /\ \A j \in DOMAIN y : FitsOne(field[2].of, y[j], nested)
    BY <2>3, <2>4, <2>5, <2>6, ArrayFilled
  <2>8. Fits(field[2], y, nested)
    BY <1>8, <2>7 DEF Fits
  <2>9. FitsField(field, u, nested)
    BY <1>8, <2>2, <2>6, <2>8 DEF FitsField
  <2> QED
    BY <1>4, <2>2, <2>9
<1>9. CASE /\ field[2].kind = "union" /\ Takes(Chosen(field, w)[2], of)
           /\ u = [w EXCEPT ![Chosen(field, w)[1]] = inner]
  <2>1. PICK x : x = w[field[1]]
    OBVIOUS
  <2>2. PICK chosen : chosen = field[2].of[x + 1]
    OBVIOUS
  <2>3. /\ x \in Nat /\ x + 1 \in DOMAIN field[2].of /\ chosen[1] \in DOMAIN w
        /\ chosen = Chosen(field, w)
    BY <1>3, <1>9, <2>1, <2>2 DEF FitsField, Chosen
  <2>4. chosen[1] \in Names(field)
    BY <1>9, <2>2, <2>3 DEF Names
  <2>5. chosen[1] # field[1]
    BY <1>2, <1>3, <1>9, <2>2, <2>3 DEF Apart
  <2>6. Differs(u, w, chosen[1]) /\ u[chosen[1]] = inner /\ u[field[1]] = x
        /\ DOMAIN u = DOMAIN w
    BY <1>4, <1>9, <2>1, <2>3, <2>5 DEF Differs
  <2>7. Fits(chosen[2], inner, nested)
    BY <1>5, <1>9, <2>3
  <2>8. FitsField(field, u, nested)
    BY <1>4, <1>9, <2>2, <2>3, <2>6, <2>7 DEF FitsField
  <2> QED
    BY <2>4, <2>6, <2>8
<1> QED
  BY <1>1, <1>2, <1>7, <1>8, <1>9 DEF Filled

LEMMA WalkOne ==
  ASSUME NEW place, NEW i \in Nat
  PROVE  Walk(place, <<i>>) = Part(place, i)
<1>1. <<>> \in Seq(Nat) /\ <<i>> \in Seq(Nat)
  OBVIOUS
<1>2. <<i>> \o <<>> = <<i>>
  BY <1>1, ConcatEmptySeq
<1>3. Walk(place, <<i>> \o <<>>) = Walk(Part(place, i), <<>>)
  BY <1>1, WalkOn
<1> QED
  BY <1>2, <1>3, WalkHere

LEMMA WalkTwo ==
  ASSUME NEW place, NEW i \in Nat, NEW k \in Nat
  PROVE  Walk(place, <<i, k>>) = Part(Part(place, i), k)
<1>1. <<k>> \in Seq(Nat)
  OBVIOUS
<1>2. <<i>> \o <<k>> = <<i, k>>
  <2>1. <<i>> \in Seq(Nat) /\ Len(<<i>>) = 1 /\ <<i>>[1] = i
    OBVIOUS
  <2>2. <<k>> \in Seq(Nat) /\ Len(<<k>>) = 1 /\ <<k>>[1] = k
    OBVIOUS
  <2>3. PICK a \in Seq(Nat) : a = <<i>>
    BY <2>1
  <2>4. PICK b \in Seq(Nat) : b = <<k>>
    BY <2>2
  <2>5. /\ a \o b \in Seq(Nat) /\ Len(a \o b) = Len(a) + Len(b)
        /\ \A j \in 1 .. Len(a) + Len(b) :
             (a \o b)[j] = IF j <= Len(a) THEN a[j] ELSE b[j - Len(a)]
    BY ConcatProperties
  <2>6. Len(a) = 1 /\ Len(b) = 1 /\ a[1] = i /\ b[1] = k
    BY <2>1, <2>2, <2>3, <2>4
  <2>7. Len(a \o b) = 2 /\ (a \o b)[1] = i /\ (a \o b)[2] = k
    BY <2>5, <2>6
  <2>8. PICK q \in Seq(Nat) : q = a \o b
    BY <2>5
  <2>9. <<i, k>> \in Seq(Nat) /\ Len(<<i, k>>) = 2 /\ <<i, k>>[1] = i /\ <<i, k>>[2] = k
    OBVIOUS
  <2>10. PICK r \in Seq(Nat) : r = <<i, k>>
    BY <2>9
  <2>11. Len(q) = 2 /\ Len(r) = 2 /\ q[1] = r[1] /\ q[2] = r[2]
    BY <2>7, <2>8, <2>9, <2>10
  <2>12. \A j \in 1 .. 2 : j = 1 \/ j = 2
    OBVIOUS
  <2>13. \A j \in 1 .. Len(q) : q[j] = r[j]
    BY <2>11, <2>12
  <2>14. q = r
    BY <2>11, <2>13, SeqEqual
  <2> QED
    BY <2>3, <2>4, <2>8, <2>10, <2>14
<1>3. Walk(place, <<i>> \o <<k>>) = Walk(Part(place, i), <<k>>)
  BY <1>1, WalkOn
<1> QED
  BY <1>2, <1>3, WalkOne

\* The parts of what is made are where the getters look.
LEMMA PartOf ==
  ASSUME NEW place, NEW t, At(place, t), NEW n, NEW parts, MadeOf(t, n, parts), NEW j \in 1 .. n
  PROVE  /\ At(Part(place, j), parts[j])
         /\ PartWithHeader(place, j) = Own(parts[j].type, parts[j].cells)
         /\ Well(parts[j])
         /\ n \in Nat
<1>1. PICK c : Made(t, c) /\ c.n = n /\ c.parts = parts
  BY DEF MadeOf
<1>2. c.n \in Nat
  BY <1>1, MadeLeaves
<1> QED
  BY <1>1, <1>2, MadeParts

LEMMA FillPlaced ==
  ASSUME NEW name \in Name, NEW nested, NEW m, WellNested(nested, m),
         NEW i \in DOMAIN ReaderOf(name).fields, NEW slot, NEW u, NEW w, NEW inner, NEW of \in Name,
         inner \in nested[of], IsBuilder(ReaderOf(name), w, nested),
         Filled(ReaderOf(name).fields[i], slot, i, w, u, inner, of),
         IsBuilder(ReaderOf(name), u, nested),
         NEW place, At(place, MessageOf(name, u, m + 3))
  PROVE  Walk(place, slot).cells = inner.cells
<1>1. PICK fields : fields = ReaderOf(name).fields
  OBVIOUS
<1>2. PICK field : field = fields[i]
  OBVIOUS
<1>3. /\ Apart(fields) /\ FitsField(field, w, nested) /\ FitsField(field, u, nested)
      /\ i \in 1 .. Len(fields) /\ i \in Nat
  BY <1>1, <1>2, FieldsOf DEF IsBuilder
<1>4. PICK parts : parts = [j \in 1 .. Len(fields) |-> FieldOf(fields[j], u, m + 2)]
  OBVIOUS
<1>5. MadeOf(MessageOf(name, u, m + 3), Len(fields), parts)
  BY <1>1, <1>4, MessageWell
<1>6. parts[i] = FieldOf(field, u, m + 2)
  BY <1>2, <1>3, <1>4
<1>7. At(Part(place, i), FieldOf(field, u, m + 2))
  BY <1>3, <1>5, <1>6, PartOf
<1>8. Part(place, i).type = field[2] /\ Part(place, i).cells = FieldCells(field, u)
  BY <1>7, AsIs DEF At, FieldOf
<1>9. field[1] \in DOMAIN w
  BY <1>3 DEF FitsField
<1>10. CASE /\ Takes(field[2], of)
            /\ slot = <<i>>
            /\ u = [w EXCEPT ![field[1]] = inner]
  <2>1. u[field[1]] = inner /\ field[2].kind = "message"
    BY <1>9, <1>10 DEF Takes
  <2>2. FieldCells(field, u) = inner.cells
    BY <2>1 DEF FieldCells, AllOf, OneOf
  <2> QED
    BY <1>3, <1>8, <1>10, <2>2, WalkOne
<1>11. ASSUME field[2].kind = "array", Takes(field[2].of, of), NEW k \in DOMAIN w[field[1]],
              slot = <<i, k>>,
              u = [w EXCEPT ![field[1]] = [@ EXCEPT ![k] = inner]]
       PROVE  Walk(place, slot).cells = inner.cells
  <2>1. PICK v : v = w[field[1]]
    OBVIOUS
  <2>2. PICK y : y = [v EXCEPT ![k] = inner]
    OBVIOUS
  <2>3. u[field[1]] = y
    BY <1>9, <1>11, <2>1, <2>2
  <2>4. IsSequence(v) /\ \A j \in DOMAIN v : FitsOne(field[2].of, v[j], nested)
    BY <1>3, <1>11, <2>1 DEF FitsField, Fits
  <2>5. FitsOne(field[2].of, inner, nested) /\ field[2].of.kind = "message"
    BY <1>11 DEF Takes, FitsOne
  <2>6. k \in DOMAIN v
    BY <1>11, <2>1
  <2>7. k \in 1 .. Len(y) /\ k \in Nat /\ y[k] = inner
    BY <2>2, <2>4, <2>5, <2>6, ArrayFilled
  <2>8. Fits(field[2], y, nested)
    BY <1>3, <1>11, <2>3 DEF FitsField
  <2>9. PICK elements : elements = [j \in 1 .. Len(y) |-> ElementOf(field[2].of, y[j], m)]
    OBVIOUS
  <2>10. MadeOf(ValueOf(field[2], y, m + 1), Len(y), elements)
    BY <1>11, <2>8, <2>9, ArrayWell
  <2>11. FieldCells(field, u) = AllOf(field[2], y)
    BY <1>11, <2>3 DEF FieldCells
  <2>12. At(Part(place, i), ValueOf(field[2], y, m + 1))
    BY <1>8, <2>11, AsIs DEF At, ValueOf
  <2>13. At(Part(Part(place, i), k), elements[k])
    BY <2>7, <2>10, <2>12, PartOf
  <2>14. elements[k] = ElementOf(field[2].of, inner, m)
    BY <2>7, <2>9
  <2>15. elements[k].cells = inner.cells
    BY <2>5, <2>14, AsIs DEF ElementOf, OneOf
  <2> QED
    BY <1>3, <1>11, <2>7, <2>13, <2>15, WalkTwo DEF At
<1>12. CASE /\ field[2].kind = "union" /\ Takes(Chosen(field, w)[2], of)
            /\ slot = <<i, 1>>
            /\ u = [w EXCEPT ![Chosen(field, w)[1]] = inner]
  <2>1. PICK x : x = w[field[1]]
    OBVIOUS
  <2>2. PICK chosen : chosen = field[2].of[x + 1]
    OBVIOUS
  <2>3. /\ x \in Nat /\ x + 1 \in DOMAIN field[2].of /\ chosen[1] \in DOMAIN w
        /\ chosen = Chosen(field, w)
    BY <1>3, <1>12, <2>1, <2>2 DEF FitsField, Chosen
  <2>4. chosen[1] # field[1]
    BY <1>2, <1>3, <1>12, <1>1, <2>2, <2>3 DEF Apart
  <2>5. u[chosen[1]] = inner /\ u[field[1]] = x
    BY <1>9, <1>12, <2>1, <2>3, <2>4
  <2>6. Chosen(field, u) = chosen /\ chosen[2].kind = "message"
    BY <1>12, <2>2, <2>3, <2>5 DEF Chosen, Takes
  <2>7. PICK one : one = <<ChosenOf(field, u, m + 1)>>
    OBVIOUS
  <2>8. MadeOf(FieldOf(field, u, m + 2), 1, one)
    BY <1>3, <1>12, <2>7, UnionWell
  <2>9. 1 \in 1 .. 1 /\ 1 \in Nat /\ one[1] = ChosenOf(field, u, m + 1)
    BY <2>7
  <2>10. At(Part(Part(place, i), 1), one[1])
    BY <1>7, <2>8, <2>9, PartOf
  <2>11. one[1].cells = AllOf(chosen[2], inner)
    BY <2>5, <2>6, <2>9, AsIs DEF ChosenOf, ValueOf
  <2>12. one[1].cells = inner.cells
    BY <2>6, <2>11 DEF AllOf, OneOf
  <2> QED
    BY <1>3, <1>12, <2>9, <2>10, <2>12, WalkTwo DEF At
<1> QED
  BY <1>1, <1>2, <1>10, <1>11, <1>12 DEF Filled
---------------------------------------------------------------------------
(* Native arguments.                                                       *)

LEMMA ArgumentSchemes ==
  /\ ReaderOf("Argument") = Argument /\ BuilderOf("Argument") = ArgumentBuilder
  /\ ReaderOf("ArgumentArray") = ArgumentArray /\ BuilderOf("ArgumentArray") = ArgumentArrayBuilder
BY NamesAre, SchemeOf DEF Scheme

IsPlain(type) == type.kind \in {"scalar", "content"}

LEMMA PlainTypes ==
  /\ \A type \in {TypeUint16, TypeUint32, TypeUint64, TypeUint256, TypeBool, TypeBytes20,
                  TypeBytes32, TypeBytes, TypeString} : IsPlain(type)
  /\ \A type : ArrayOf(type).kind = "array" /\ ArrayOf(type).of = type
BY DEF IsPlain, TypeUint16, TypeUint32, TypeUint64, TypeUint256, TypeBool, TypeBytes20, TypeBytes32,
   TypeBytes, TypeString, Scalar, Content, ArrayOf

ArgumentField == Argument.fields[1]

IsNativeType(type) == IsPlain(type) \/ (type.kind = "array" /\ IsPlain(type.of))

LEMMA ArgumentFields ==
  /\ Len(Argument.fields) = 1 /\ DOMAIN Argument.fields = 1 .. 1
  /\ ArgumentBuilder.fields = Argument.fields
  /\ ArgumentField[1] = "Type" /\ ArgumentField[2].kind = "union"
  /\ DOMAIN ArgumentField[2].of = 1 .. 16
  /\ DOMAIN ArgumentType = 1 .. 16
  /\ \A a \in 1 .. 16 : ArgumentField[2].of[a][1] # "Type" /\ IsNativeType(ArgumentField[2].of[a][2])
<1>1. Len(Argument.fields) = 1 /\ DOMAIN Argument.fields = 1 .. 1
  BY DEF Argument
<1>2. ArgumentBuilder.fields = Argument.fields
  BY DEF ArgumentBuilder, Argument
<1>3. ArgumentField[1] = "Type" /\ ArgumentField[2].kind = "union"
  BY Kinds DEF ArgumentField, Argument
<1>4. DOMAIN ArgumentField[2].of = 1 .. 16
  BY Kinds DEF ArgumentField, Argument
<1>5. DOMAIN ArgumentType = 1 .. 16
  BY DEF ArgumentType
<1>6. ASSUME NEW a \in 1 .. 16
      PROVE  ArgumentField[2].of[a][1] # "Type" /\ IsNativeType(ArgumentField[2].of[a][2])
  <2>1. a \in {1, 2, 3, 4, 5, 6, 7, 8, 9, 10, 11, 12, 13, 14, 15, 16}
    OBVIOUS
  <2>2. ArgumentField[2].of[a][1] # "Type"
    BY Kinds, <2>1 DEF ArgumentField, Argument
  <2>3. IsNativeType(ArgumentField[2].of[a][2])
    BY Kinds, PlainTypes, <2>1 DEF ArgumentField, Argument, IsNativeType
  <2> QED
    BY <2>2, <2>3
<1> QED
  BY <1>1, <1>2, <1>3, <1>4, <1>5, <1>6

\* An argument of its Go type.
IsNative(arg) ==
  /\ arg = <<arg[1], arg[2]>>
  /\ arg[1] \in Range(ArgumentType)
  /\ Fits(AlternativeFor(arg[1])[2], arg[2], NoBuilders)

LEMMA NoBuildersWell == WellNested(NoBuilders, 0)
<1>1. 0 \in Nat /\ \A n \in Name : NoBuilders[n] = {}
  BY DEF NoBuilders
<1> QED
  BY <1>1, NilWell DEF WellNested

\* The builder of an argument: its index, its alternative and its value.
NativeIs(arg, w, k, chosen) ==
  /\ k \in 1 .. 16 /\ k \in Nat
  /\ chosen = ArgumentField[2].of[k]
  /\ ArgumentType[k] = arg[1]
  /\ w["Type"] = k - 1 /\ w[chosen[1]] = arg[2]
  /\ chosen = Chosen(ArgumentField, w)
  /\ Fits(chosen[2], arg[2], NoBuilders)
  /\ FitsField(ArgumentField, w, NoBuilders)

LEMMA NativeBuilder ==
  ASSUME NEW arg, IsNative(arg)
  PROVE  \E k, chosen : NativeIs(arg, ArgumentBuilderFromNative(arg), k, chosen)
<1> DEFINE k == IndexOf(arg[1])
           chosen == AlternativeFor(arg[1])
           w == ArgumentBuilderFromNative(arg)
<1>1. \E i \in DOMAIN ArgumentType : ArgumentType[i] = arg[1]
  BY DEF IsNative, Range
<1>2. k \in DOMAIN ArgumentType /\ ArgumentType[k] = arg[1]
  BY <1>1 DEF IndexOf
<1>3. k \in 1 .. 16
  BY <1>2, ArgumentFields
<1>4. chosen = ArgumentField[2].of[k]
  BY ArgumentFields DEF AlternativeFor, ArgumentField
<1>. HIDE DEF k
<1>5. chosen[1] # "Type"
  BY <1>3, <1>4, ArgumentFields
<1>6. w = [x \in {"Type", chosen[1]} |-> IF x = "Type" THEN k - 1 ELSE arg[2]]
  BY DEF ArgumentBuilderFromNative, k
<1>7. Fits(chosen[2], arg[2], NoBuilders)
  BY DEF IsNative
<1>. HIDE DEF chosen, w
<1>8. w["Type"] = k - 1 /\ w[chosen[1]] = arg[2] /\ DOMAIN w = {"Type", chosen[1]}
  BY <1>5, <1>6
<1>9. k \in Nat /\ k - 1 \in Nat /\ (k - 1) + 1 = k
  BY <1>3
<1>10. chosen = Chosen(ArgumentField, w)
  BY <1>4, <1>8, <1>9, ArgumentFields DEF Chosen
<1>11. FitsField(ArgumentField, w, NoBuilders)
  BY <1>3, <1>4, <1>7, <1>8, <1>9, ArgumentFields DEF FitsField
<1> QED
  BY <1>2, <1>3, <1>4, <1>7, <1>8, <1>9, <1>10, <1>11 DEF NativeIs, w

LEMMA ArrayObserved ==
  ASSUME NEW place, NEW t, At(place, t), NEW n, NEW parts, MadeOf(t, n, parts),
         t.type.kind = "array"
  PROVE  Observe(place) = n
<1>1. PICK c : Made(t, c) /\ c.n = n /\ c.parts = parts
  BY DEF MadeOf
<1>2. Composed(t, c.x, c.parts, c.n) /\ \A j \in 1 .. c.n : Well(c.parts[j])
  BY <1>1 DEF Made
<1>3. Count(place) = c.n
  BY <1>2, CountIs
<1>4. place.type.kind = "array"
  BY DEF At
<1> QED
  BY <1>1, <1>3, <1>4 DEF Observe

\* A scalar or bytes read as they were put.
LEMMA PlainObserved ==
  ASSUME NEW type, IsPlain(type), NEW v, NEW t, Well(t), t.leaves = MeaningOfOne(type, v),
         NEW place, At(place, t)
  PROVE  Observe(place) = v
<1>1. t.leaves = Single(v)
  BY DEF MeaningOfOne, IsPlain
<1>2. Single(v)[<<>>] = v
  BY SingleIs
<1>3. Observe(place) = t.leaves[<<>>]
  BY ObserveIs
<1> QED
  BY <1>1, <1>2, <1>3

LEMMA NativeValueReads ==
  ASSUME NEW type, IsNativeType(type), NEW v, Fits(type, v, NoBuilders),
         NEW place, At(place, ValueOf(type, v, 1))
  PROVE  NativeValue(place) = v
<1>1. PICK t : t = ValueOf(type, v, 1)
  OBVIOUS
<1>2. t.type = type /\ t.leaves = MeaningOf(type, v) /\ place.type = type /\ At(place, t)
  BY <1>1, AsIs DEF ValueOf, At
<1>3. CASE IsPlain(type)
  <2>1. type.kind # "array"
    BY <1>3 DEF IsPlain
  <2>2. t.leaves = MeaningOfOne(type, v)
    BY <1>2, <2>1 DEF MeaningOf
  <2>3. 0 + 1 = 1
    OBVIOUS
  <2>4. Well(t)
    BY <1>1, <2>3, NoBuildersWell, ValueWell
  <2>5. Observe(place) = v
    BY <1>2, <1>3, <2>2, <2>4, PlainObserved
  <2> QED
    BY <1>2, <2>1, <2>5 DEF NativeValue
<1>4. CASE type.kind = "array" /\ IsPlain(type.of)
  <2>1. PICK elements : elements = [k \in 1 .. Len(v) |-> ElementOf(type.of, v[k], 0)]
    OBVIOUS
  <2>2. 0 + 1 = 1
    OBVIOUS
  <2>3. MadeOf(t, Len(v), elements)
    BY <1>1, <1>4, <2>1, <2>2, NoBuildersWell, ArrayWell
  <2>4. Observe(place) = Len(v)
    BY <1>2, <1>4, <2>3, ArrayObserved
  <2>5. ASSUME NEW k \in 1 .. Len(v)
        PROVE  Observe(Part(place, k)) = v[k]
    <3>1. At(Part(place, k), elements[k]) /\ Well(elements[k])
      BY <1>2, <2>3, PartOf
    <3>2. elements[k] = ElementOf(type.of, v[k], 0)
      BY <2>1
    <3>3. elements[k].leaves = MeaningOfOne(type.of, v[k])
      BY <3>2, AsIs DEF ElementOf
    <3> QED
      BY <1>4, <3>1, <3>3, PlainObserved
  <2>6. v = [k \in 1 .. Len(v) |-> v[k]]
    BY <1>4 DEF Fits, IsSequence
  <2>7. [k \in 1 .. Observe(place) |-> Observe(Part(place, k))] = [k \in 1 .. Len(v) |-> v[k]]
    BY <2>4, <2>5
  <2> QED
    BY <1>2, <1>4, <2>6, <2>7 DEF NativeValue
<1> QED
  BY <1>3, <1>4 DEF IsNativeType

\* An argument reads as the native it was built from.
LEMMA NativeReads ==
  ASSUME NEW arg, IsNative(arg),
         NEW place, At(place, MessageOf("Argument", ArgumentBuilderFromNative(arg), 3))
  PROVE  /\ IsBuilder(ReaderOf("Argument"), ArgumentBuilderFromNative(arg), NoBuilders)
         /\ ToNative(place) = arg
<1>1. PICK w : w = ArgumentBuilderFromNative(arg)
  OBVIOUS
<1>2. PICK k, chosen : NativeIs(arg, w, k, chosen)
  BY <1>1, NativeBuilder
<1>3. PICK name : name = "Argument"
  OBVIOUS
<1>4. name \in Name /\ ReaderOf(name) = Argument
  BY <1>3, NamesAre, ArgumentSchemes
<1>5. IsBuilder(ReaderOf(name), w, NoBuilders)
  <2>1. \A i \in 1 .. 1 : i = 1
    OBVIOUS
  <2> QED
    BY <1>2, <1>4, <2>1, ArgumentFields DEF NativeIs, IsBuilder, ArgumentField
<1>6. At(place, MessageOf(name, w, 3))
  BY <1>1, <1>3
<1>7. PICK parts : parts = [i \in 1 .. Len(ReaderOf(name).fields) |-> FieldOf(ReaderOf(name).fields[i], w, 2)]
  OBVIOUS
<1>8. 0 + 3 = 3 /\ 0 + 2 = 2 /\ 1 + 1 = 2 /\ 0 + 1 = 1
  OBVIOUS
<1>9. MadeOf(MessageOf(name, w, 3), Len(ReaderOf(name).fields), parts)
  BY <1>4, <1>5, <1>7, <1>8, NoBuildersWell, MessageWell
<1>10. Len(ReaderOf(name).fields) = 1 /\ parts[1] = FieldOf(ArgumentField, w, 2)
  <2>1. PICK fields : fields = ReaderOf(name).fields
    OBVIOUS
  <2>2. Len(fields) = 1 /\ fields[1] = ArgumentField
    BY <1>4, <2>1, ArgumentFields DEF ArgumentField
  <2>3. parts = [i \in 1 .. 1 |-> FieldOf(fields[i], w, 2)]
    BY <1>7, <2>1, <2>2
  <2>4. parts[1] = FieldOf(fields[1], w, 2)
    BY <2>3
  <2> QED
    BY <2>1, <2>2, <2>4
<1>11. 1 \in 1 .. 1
  OBVIOUS
<1> DEFINE union == Part(place, 1)
<1>12. At(union, FieldOf(ArgumentField, w, 2)) /\ Well(FieldOf(ArgumentField, w, 2))
  BY <1>6, <1>9, <1>10, <1>11, PartOf
<1>13. PICK t : t = FieldOf(ArgumentField, w, 2)
  OBVIOUS
<1>14. t.type = ArgumentField[2] /\ t.cells = FieldCells(ArgumentField, w)
       /\ t.leaves = MeaningOfField(ArgumentField, w)
  BY <1>13, AsIs DEF FieldOf
<1>15. t.type.kind = "union" /\ ArgumentField[1] = "Type"
  BY <1>14, ArgumentFields
<1>16. Observe(union) = k - 1
  <2>1. t.leaves = Join(k - 1, <<MeaningOf(chosen[2], arg[2])>>)
    BY <1>2, <1>14, <1>15 DEF MeaningOfField, NativeIs, Chosen
  <2>2. Join(k - 1, <<MeaningOf(chosen[2], arg[2])>>)[<<>>] = k - 1
    BY DEF Join
  <2>3. Observe(union) = t.leaves[<<>>]
    BY <1>12, <1>13, ObserveIs
  <2> QED
    BY <2>1, <2>2, <2>3
<1>17. union.cells # <<>>
  <2>1. Len(Own(t.type, t.cells)) \in Nat /\ Len(Own(t.type, t.cells)) >= 1
    BY <1>12, <1>13, OwnNotEmpty
  <2>2. Own(t.type, t.cells) = t.cells
    BY <1>15 DEF Own
  <2>3. Len(<<>>) = 0
    OBVIOUS
  <2>4. t.cells # <<>>
    BY <2>1, <2>2, <2>3
  <2> QED
    BY <1>12, <1>13, <2>4 DEF At
<1>18. NativeValue(Part(union, 1)) = arg[2]
  <2>1. PICK one : one = <<ChosenOf(ArgumentField, w, 1)>>
    OBVIOUS
  <2>2. MadeOf(t, 1, one)
    BY <1>2, <1>8, <1>13, <2>1, ArgumentFields, NoBuildersWell, UnionWell DEF NativeIs
  <2>3. one[1] = ChosenOf(ArgumentField, w, 1)
    BY <2>1
  <2>4. At(Part(union, 1), one[1])
    BY <1>11, <1>12, <1>13, <2>2, PartOf
  <2>5. ChosenOf(ArgumentField, w, 1) = ValueOf(chosen[2], arg[2], 1)
    BY <1>2 DEF ChosenOf, NativeIs
  <2>6. IsNativeType(chosen[2])
    BY <1>2, ArgumentFields DEF NativeIs
  <2> QED
    BY <1>2, <2>3, <2>4, <2>5, <2>6, NativeValueReads DEF NativeIs
<1>. HIDE DEF union
<1>19. ToNative(place) = <<ArgumentType[(k - 1) + 1], arg[2]>>
  BY <1>16, <1>17, <1>18 DEF ToNative, union
<1>20. ArgumentType[(k - 1) + 1] = arg[1]
  <2>1. (k - 1) + 1 = k /\ ArgumentType[k] = arg[1]
    BY <1>2 DEF NativeIs
  <2> QED
    BY <2>1
<1>21. ToNative(place) = arg
  BY <1>19, <1>20 DEF IsNative
<1> QED
  BY <1>1, <1>3, <1>5, <1>21

BuilderOfNatives(args) == [Arguments |-> ArgumentBuildersFromNatives(args)]

\* The messages of its arguments, as builders of the array.
ArgumentMessages(args) ==
  [n \in Name |-> IF n = "Argument"
                  THEN {Built("Argument", ArgumentBuilderFromNative(args[i])) : i \in DOMAIN args}
                  ELSE {}]

LEMMA ArgumentMessagesWell ==
  ASSUME NEW args, \A i \in DOMAIN args : IsNative(args[i])
  PROVE  WellNested(ArgumentMessages(args), 3)
<1>1. PICK name : name = "Argument"
  OBVIOUS
<1>2. name \in Name
  BY <1>1, NamesAre
<1>3. ASSUME NEW i \in DOMAIN args
      PROVE  LET v == Built(name, ArgumentBuilderFromNative(args[i]))
             IN  Well(As(TypeMessage(name), v.cells, v.leaves, 3))
  <2>1. PICK w : w = ArgumentBuilderFromNative(args[i])
    OBVIOUS
  <2>2. PICK place : place = MessageOf(name, w, 3)
    OBVIOUS
  <2>3. At(place, MessageOf(name, w, 3))
    BY <2>2 DEF At
  <2>4. IsBuilder(ReaderOf(name), w, NoBuilders)
    BY <1>1, <2>1, <2>3, NativeReads
  <2>5. 0 + 3 = 3
    OBVIOUS
  <2>6. Well(MessageOf(name, w, 3))
    BY <1>2, <2>4, <2>5, NoBuildersWell, MessageWell
  <2> QED
    BY <2>1, <2>6 DEF MessageOf, Built
<1>4. ASSUME NEW n \in Name, NEW v \in ArgumentMessages(args)[n]
      PROVE  Well(As(TypeMessage(n), v.cells, v.leaves, 3))
  <2>1. n = name /\ \E i \in DOMAIN args : v = Built(name, ArgumentBuilderFromNative(args[i]))
    BY <1>1 DEF ArgumentMessages
  <2> QED
    BY <1>3, <2>1
<1>5. 3 \in Nat /\ \A n \in Name : Well(As(TypeMessage(n), Nil.cells, Nil.leaves, 3))
  BY NilWell
<1> QED
  BY <1>4, <1>5 DEF WellNested

LEMMA ArgumentArrayFields ==
  /\ Len(ArgumentArray.fields) = 1 /\ DOMAIN ArgumentArray.fields = 1 .. 1
  /\ ArgumentArray.fields[1] = <<"Arguments", ArrayOf(TypeMessage("Argument"))>>
BY DEF ArgumentArray

\* The builder of an array of arguments, and its field.
LEMMA ArgumentsFit ==
  ASSUME NEW args, IsSequence(args), \A i \in DOMAIN args : IsNative(args[i])
  PROVE  /\ IsBuilder(ArgumentArray, BuilderOfNatives(args), ArgumentMessages(args))
         /\ Fits(ArrayOf(TypeMessage("Argument")), ArgumentBuildersFromNatives(args),
                 ArgumentMessages(args))
         /\ Len(ArgumentBuildersFromNatives(args)) = Len(args)
         /\ Len(args) \in Nat /\ DOMAIN args = 1 .. Len(args)
<1> DEFINE n == Len(args)
           b == ArgumentBuildersFromNatives(args)
           S == ArgumentMessages(args)["Argument"]
<1>1. n \in Nat /\ args = [i \in 1 .. n |-> args[i]]
  BY DEF IsSequence
<1>2. DOMAIN args = 1 .. n
  BY <1>1
<1>3. b = [i \in DOMAIN args |-> Built("Argument", ArgumentBuilderFromNative(args[i]))]
  BY DEF ArgumentBuildersFromNatives
<1>4. S = {Built("Argument", ArgumentBuilderFromNative(args[i])) : i \in DOMAIN args}
  BY NamesAre DEF ArgumentMessages
<1>. HIDE DEF n, b, S
<1>5. b \in [1 .. n -> S] /\ b = [i \in 1 .. n |-> b[i]]
  BY <1>2, <1>3, <1>4
<1>6. n \in Nat
  BY <1>1
<1>7. Len(b) = n /\ b \in Seq(S)
  BY <1>5, <1>6, SeqOfFunction
<1>8. IsSequence(b)
  BY <1>5, <1>6, <1>7 DEF IsSequence
<1>9. DOMAIN b = 1 .. n /\ \A i \in 1 .. n : b[i] \in S
  BY <1>5
<1>10. PICK type : type = TypeMessage("Argument")
  OBVIOUS
<1>11. type.kind = "message" /\ type.of = "Argument" /\ "Argument" \in Name
  BY <1>10, NamesAre DEF TypeMessage
<1>12. \A i \in DOMAIN b : FitsOne(type, b[i], ArgumentMessages(args))
  BY <1>9, <1>11 DEF FitsOne, S
<1>13. ArrayOf(type).kind = "array" /\ ArrayOf(type).of = type
  BY PlainTypes
<1>14. Fits(ArrayOf(type), b, ArgumentMessages(args))
  BY <1>8, <1>12, <1>13 DEF Fits
<1>15. IsBuilder(ArgumentArray, BuilderOfNatives(args), ArgumentMessages(args))
  <2>1. PICK w : w = BuilderOfNatives(args)
    OBVIOUS
  <2>2. w["Arguments"] = b /\ "Arguments" \in DOMAIN w
    BY <2>1 DEF BuilderOfNatives, b
  <2>3. PICK field : field = ArgumentArray.fields[1]
    OBVIOUS
  <2>4. field[1] = "Arguments" /\ field[2] = ArrayOf(type)
    BY <1>10, <2>3, ArgumentArrayFields
  <2>5. FitsField(field, w, ArgumentMessages(args))
    BY <1>13, <1>14, <2>2, <2>4 DEF FitsField
  <2>6. \A i \in 1 .. 1 : i = 1
    OBVIOUS
  <2> QED
    BY <2>1, <2>3, <2>5, <2>6, ArgumentArrayFields DEF IsBuilder
<1> QED
  BY <1>2, <1>6, <1>7, <1>10, <1>14, <1>15 DEF n, b

\* Packed arguments with their header are the array they came from, and read as
\* the natives they were packed from.
LEMMA ArgumentsRead ==
  ASSUME NEW args, IsSequence(args), \A i \in DOMAIN args : IsNative(args[i])
  PROVE  /\ PackedInputArgumentsFromNatives(args) \in Seq(Cell)
         /\ ArgumentArrayFromNatives(args) = WithHeader(PackedInputArgumentsFromNatives(args))
         /\ ToNatives(ArgumentArrayFromNatives(args)) = args
<1>1. PICK name : name = "ArgumentArray"
  OBVIOUS
<1>2. /\ name \in Name /\ ReaderOf(name) = ArgumentArray /\ BuilderOf(name) = ArgumentArrayBuilder
  BY <1>1, NamesAre, ArgumentSchemes
<1>3. PICK w : w = BuilderOfNatives(args)
  OBVIOUS
<1>4. PICK type : type = ArrayOf(TypeMessage("Argument"))
  OBVIOUS
<1>5. PICK b : b = ArgumentBuildersFromNatives(args)
  OBVIOUS
<1>6. PICK nested : nested = ArgumentMessages(args)
  OBVIOUS
<1>7. /\ IsBuilder(ReaderOf(name), w, nested) /\ Fits(type, b, nested)
      /\ Len(b) = Len(args) /\ Len(args) \in Nat /\ DOMAIN args = 1 .. Len(args)
      /\ WellNested(nested, 3)
  BY <1>2, <1>3, <1>4, <1>5, <1>6, ArgumentsFit, ArgumentMessagesWell
<1>8. PICK field : field = ArgumentArray.fields[1]
  OBVIOUS
<1>9. field[1] = "Arguments" /\ field[2] = type /\ w["Arguments"] = b
  BY <1>3, <1>4, <1>5, <1>8, ArgumentArrayFields DEF BuilderOfNatives
<1>10. type.kind = "array" /\ type.of = TypeMessage("Argument")
  BY <1>4, PlainTypes
<1>11. 3 + 3 = 6 /\ 3 + 2 = 5 /\ 3 + 1 = 4
  OBVIOUS
<1>12. PICK parts : parts = [i \in 1 .. Len(ReaderOf(name).fields) |-> FieldOf(ReaderOf(name).fields[i], w, 5)]
  OBVIOUS
<1>13. PICK t : t = MessageOf(name, w, 6)
  OBVIOUS
<1>14. Well(t) /\ MadeOf(t, Len(ReaderOf(name).fields), parts)
  BY <1>2, <1>7, <1>11, <1>12, <1>13, MessageWell
<1>15. Len(ReaderOf(name).fields) = 1 /\ parts[1] = FieldOf(field, w, 5)
  <2>1. PICK fields : fields = ReaderOf(name).fields
    OBVIOUS
  <2>2. Len(fields) = 1 /\ fields[1] = field
    BY <1>2, <1>8, <2>1, ArgumentArrayFields
  <2>3. parts = [i \in 1 .. 1 |-> FieldOf(fields[i], w, 5)]
    BY <1>12, <2>1, <2>2
  <2>4. parts[1] = FieldOf(fields[1], w, 5)
    BY <2>3
  <2> QED
    BY <2>1, <2>2, <2>4
<1>16. PICK packed : packed = AllOf(type, b)
  OBVIOUS
<1>17. parts[1].type = type /\ parts[1].cells = packed
  <2>1. FieldCells(field, w) = AllOf(type, b)
    BY <1>9, <1>10 DEF FieldCells
  <2> QED
    BY <1>9, <1>15, <1>16, <2>1, AsIs DEF FieldOf
<1>18. PICK cells : cells = ArgumentArrayFromNatives(args)
  OBVIOUS
<1>19. t.type = TypeMessage(name) /\ t.cells = cells
  BY <1>2, <1>3, <1>13, <1>18, AsIs DEF MessageOf, ArgumentArrayFromNatives, BuilderOfNatives
<1>20. PICK root : root = Root(name, cells)
  OBVIOUS
<1>21. At(root, t)
  BY <1>19, <1>20 DEF At, Root
<1>22. 1 \in 1 .. 1 /\ 1 \in Nat
  OBVIOUS
<1>23. At(Part(root, 1), parts[1]) /\ Well(parts[1])
  BY <1>14, <1>15, <1>21, <1>22, PartOf
<1>24. PackedInputArgumentsFromNatives(args) = packed
  BY <1>1, <1>17, <1>18, <1>20, <1>23 DEF PackedInputArgumentsFromNatives, Raw, At
<1>25. packed \in Seq(Cell)
  BY <1>17, <1>23, OwnCells
<1>26. cells = WithHeader(packed)
  <2>1. PICK c : Made(t, c) /\ c.n = 1 /\ c.parts = parts
    BY <1>14, <1>15 DEF MadeOf
  <2>2. t.cells = Lead(t.type, c.x) \o FlattenSeq(Pieces(parts, 1))
    BY <2>1 DEF Made, Composed
  <2>3. Lead(t.type, c.x) = <<>>
    BY <1>19 DEF Lead, TypeMessage
  <2>4. \A j \in 1 .. 1 : Well(parts[j])
    BY <1>23
  <2>5. FlattenSeq(Pieces(parts, 1)) = Own(type, packed) /\ FlattenSeq(Pieces(parts, 1)) \in Seq(Cell)
    BY <1>17, <1>22, <2>4, PiecesCells
  <2>6. Own(type, packed) = WithHeader(packed)
    BY <1>10 DEF Own
  <2> QED
    BY <1>19, <2>2, <2>3, <2>5, <2>6, ConcatEmptySeq
<1>27. PICK elements : elements = [k \in 1 .. Len(b) |-> ElementOf(type.of, b[k], 3)]
  OBVIOUS
<1>28. MadeOf(ValueOf(type, b, 4), Len(b), elements)
  BY <1>7, <1>10, <1>11, <1>27, ArrayWell
<1> DEFINE arguments == Part(root, 1)
<1>29. At(arguments, ValueOf(type, b, 4))
  BY <1>16, <1>17, <1>23, AsIs DEF At, ValueOf
<1>30. Observe(arguments) = Len(args)
  <2>1. ValueOf(type, b, 4).type.kind = "array"
    BY <1>10, AsIs DEF ValueOf
  <2> QED
    BY <1>7, <1>28, <1>29, <2>1, ArrayObserved
<1>31. ASSUME NEW i \in 1 .. Len(args)
       PROVE  ToNative(Part(arguments, i)) = args[i]
  <2>1. At(Part(arguments, i), elements[i])
    BY <1>7, <1>28, <1>29, PartOf
  <2>2. PICK v : v = Built("Argument", ArgumentBuilderFromNative(args[i]))
    OBVIOUS
  <2>3. i \in DOMAIN args /\ b[i] = v
    BY <1>5, <1>7, <2>2 DEF ArgumentBuildersFromNatives
  <2>4. elements[i] = ElementOf(TypeMessage("Argument"), v, 3)
    BY <1>7, <1>10, <1>27, <2>3
  <2>5. elements[i].type = TypeMessage("Argument") /\ elements[i].cells = OneOf(TypeMessage("Argument"), v)
    BY <2>4, AsIs DEF ElementOf
  <2>6. OneOf(TypeMessage("Argument"), v) = v.cells
    BY DEF OneOf, TypeMessage
  <2>7. v.cells = Write(BuilderOf("Argument"), ArgumentBuilderFromNative(args[i]))
    BY <2>2 DEF Built
  <2>8. At(Part(arguments, i), MessageOf("Argument", ArgumentBuilderFromNative(args[i]), 3))
    BY <2>1, <2>5, <2>6, <2>7, AsIs DEF At, MessageOf
  <2>9. IsNative(args[i])
    BY <2>3
  <2> QED
    BY <2>8, <2>9, NativeReads
<1>32. ToNatives(cells) = args
  <2>1. ToNatives(cells) = [i \in 1 .. Observe(arguments) |-> ToNative(Part(arguments, i))]
    BY <1>1, <1>20 DEF ToNatives
  <2>2. args = [i \in 1 .. Len(args) |-> args[i]]
    BY DEF IsSequence
  <2>. HIDE DEF arguments
  <2>3. ToNatives(cells) = [i \in 1 .. Len(args) |-> args[i]]
    BY <1>30, <1>31, <2>1
  <2> QED
    BY <2>2, <2>3
<1> QED
  BY <1>18, <1>24, <1>25, <1>26, <1>32
---------------------------------------------------------------------------
(* The buffers of a program.                                               *)

\* A buffer is well-made, and means what it should read as.
BufferWell(buffer, leaves) ==
  /\ buffer = [name |-> buffer.name, cells |-> buffer.cells]
  /\ buffer.name \in Name
  /\ \E m : Well(As(TypeMessage(buffer.name), buffer.cells, leaves, m))

Listed(s) == \E S : s \in Seq(S)

HeapWell(h, l) ==
  /\ Listed(h) /\ Listed(l) /\ Len(h) \in Nat /\ Len(l) = Len(h)
  /\ \A b \in 1 .. Len(h) : BufferWell(h[b], l[b])

\* What a builder under construction is given is a message it has a place for.
WrappingWell(wr, h, l) ==
  wr # None =>
    /\ wr.name \in Name
    /\ IsBuilder(ReaderOf(wr.name), wr.builder, Inner)
    /\ wr.buffer \in 1 .. Len(h)
    /\ wr.path \in DOMAIN l[wr.buffer]
    /\ Reader(h[wr.buffer], wr.path).type.kind = "message"
    /\ wr.slot \in Slots(ReaderOf(wr.name), wr.builder, Reader(h[wr.buffer], wr.path).type.of)

BuffersInv == HeapWell(heap, holds) /\ WrappingWell(wrapping, heap, holds)

LEMMA ListedIs ==
  ASSUME NEW s, Listed(s)
  PROVE  Len(s) \in Nat /\ DOMAIN s = 1 .. Len(s)
<1>1. PICK S : s \in Seq(S)
  BY DEF Listed
<1> QED
  BY <1>1, LenProperties

LEMMA ListedAppend ==
  ASSUME NEW s, Listed(s), NEW x
  PROVE  /\ Listed(Append(s, x))
         /\ Len(Append(s, x)) = Len(s) + 1
         /\ Append(s, x)[Len(s) + 1] = x
         /\ \A b \in 1 .. Len(s) : Append(s, x)[b] = s[b]
<1>1. PICK S : s \in Seq(S)
  BY DEF Listed
<1>2. PICK T : T = S \cup {x}
  OBVIOUS
<1>3. s \in Seq(T) /\ x \in T
  <2>1. S \subseteq T
    BY <1>2
  <2>2. Len(s) \in Nat /\ s \in [1 .. Len(s) -> S]
    BY <1>1, LenProperties
  <2>3. s \in [1 .. Len(s) -> T]
    BY <2>1, <2>2
  <2>4. PICK n \in Nat : n = Len(s)
    BY <2>2
  <2>5. s \in [1 .. n -> T]
    BY <2>3, <2>4
  <2>6. s \in Seq(T)
    BY <2>5, SeqOfFunction
  <2> QED
    BY <1>2, <2>6
<1>4. /\ Append(s, x) \in Seq(T)
      /\ Len(Append(s, x)) = Len(s) + 1
      /\ \A i \in 1 .. Len(s) : Append(s, x)[i] = s[i]
      /\ Append(s, x)[Len(s) + 1] = x
  BY <1>3, AppendProperties
<1> QED
  BY <1>4 DEF Listed

Replaces(y, s, b, x) == y = [s EXCEPT ![b] = x]

LEMMA ListedExcept ==
  ASSUME NEW s, Listed(s), NEW b \in 1 .. Len(s), NEW x, NEW y, Replaces(y, s, b, x)
  PROVE  /\ Listed(y)
         /\ Len(y) = Len(s)
         /\ y[b] = x
         /\ \A k \in 1 .. Len(s) : k # b => y[k] = s[k]
<1>1. PICK S : s \in Seq(S)
  BY DEF Listed
<1>2. Len(s) \in Nat /\ s \in [1 .. Len(s) -> S]
  BY <1>1, LenProperties
<1>3. PICK n \in Nat : n = Len(s)
  BY <1>2
<1>4. PICK T : T = S \cup {x}
  OBVIOUS
<1>5. s \in [1 .. n -> S] /\ b \in 1 .. n
  BY <1>2, <1>3
<1>6. y \in [1 .. n -> T] /\ y[b] = x /\ \A k \in 1 .. n : k # b => y[k] = s[k]
  BY <1>4, <1>5 DEF Replaces
<1>7. y \in Seq(T) /\ Len(y) = n
  BY <1>6, SeqOfFunction
<1> QED
  BY <1>3, <1>6, <1>7 DEF Listed

LEMMA HeapAppend ==
  ASSUME NEW h, NEW l, HeapWell(h, l), NEW x, NEW y, BufferWell(x, y)
  PROVE  /\ HeapWell(Append(h, x), Append(l, y))
         /\ Len(Append(h, x)) = Len(h) + 1 /\ Len(h) \in Nat
         /\ Append(h, x)[Len(h) + 1] = x
         /\ \A b \in 1 .. Len(h) : Append(h, x)[b] = h[b] /\ Append(l, y)[b] = l[b]
<1>1. Listed(h) /\ Listed(l) /\ Len(h) \in Nat /\ Len(l) = Len(h)
      /\ \A b \in 1 .. Len(h) : BufferWell(h[b], l[b])
  BY DEF HeapWell
<1>2. PICK n \in Nat : n = Len(h)
  BY <1>1
<1>3. PICK g : g = Append(h, x)
  OBVIOUS
<1>4. PICK k : k = Append(l, y)
  OBVIOUS
<1>5. Listed(g) /\ Len(g) = n + 1 /\ g[n + 1] = x /\ \A b \in 1 .. n : g[b] = h[b]
  BY <1>1, <1>2, <1>3, ListedAppend
<1>6. Listed(k) /\ Len(k) = n + 1 /\ k[n + 1] = y /\ \A b \in 1 .. n : k[b] = l[b]
  BY <1>1, <1>2, <1>4, ListedAppend
<1>7. \A b \in 1 .. n + 1 : b \in 1 .. n \/ b = n + 1
  OBVIOUS
<1>8. \A b \in 1 .. n + 1 : BufferWell(g[b], k[b])
  BY <1>1, <1>2, <1>5, <1>6, <1>7
<1>9. n + 1 \in Nat
  OBVIOUS
<1>10. HeapWell(g, k)
  BY <1>5, <1>6, <1>8, <1>9 DEF HeapWell
<1> QED
  BY <1>2, <1>3, <1>4, <1>5, <1>6, <1>10

LEMMA HeapExcept ==
  ASSUME NEW h, NEW l, HeapWell(h, l), NEW b \in 1 .. Len(h), NEW x, NEW y, BufferWell(x, y),
         NEW g, Replaces(g, h, b, x), NEW k, Replaces(k, l, b, y)
  PROVE  /\ HeapWell(g, k)
         /\ Len(g) = Len(h)
         /\ g[b] = x /\ k[b] = y
         /\ \A c \in 1 .. Len(h) : c # b => g[c] = h[c] /\ k[c] = l[c]
<1>1. Listed(h) /\ Listed(l) /\ Len(h) \in Nat /\ Len(l) = Len(h)
      /\ \A c \in 1 .. Len(h) : BufferWell(h[c], l[c])
  BY DEF HeapWell
<1>2. PICK n \in Nat : n = Len(h)
  BY <1>1
<1>3. Listed(g) /\ Len(g) = n /\ g[b] = x /\ \A c \in 1 .. n : c # b => g[c] = h[c]
  BY <1>1, <1>2, ListedExcept
<1>4. Listed(k) /\ Len(k) = n /\ k[b] = y /\ \A c \in 1 .. n : c # b => k[c] = l[c]
  BY <1>1, <1>2, ListedExcept
<1>5. \A c \in 1 .. n : BufferWell(g[c], k[c])
  BY <1>1, <1>2, <1>3, <1>4
<1>6. HeapWell(g, k)
  BY <1>3, <1>4, <1>5 DEF HeapWell
<1> QED
  BY <1>2, <1>3, <1>4, <1>6

\* What a builder's Build allocates.
LEMMA BuiltBuffer ==
  ASSUME NEW nested, NEW m, WellNested(nested, m), NEW name \in Name,
         NEW w, IsBuilder(ReaderOf(name), w, nested)
  PROVE  BufferWell([name |-> name, cells |-> Write(BuilderOf(name), w)], Meaning(ReaderOf(name), w))
<1>1. PICK x : x = [name |-> name, cells |-> Write(BuilderOf(name), w)]
  OBVIOUS
<1>2. x.name = name /\ x.cells = Write(BuilderOf(name), w) /\ x = [name |-> x.name, cells |-> x.cells]
  BY <1>1
<1>3. Well(MessageOf(name, w, m + 3))
  BY MessageWell
<1>4. Well(As(TypeMessage(x.name), x.cells, Meaning(ReaderOf(name), w), m + 3))
  BY <1>2, <1>3 DEF MessageOf
<1>5. BufferWell(x, Meaning(ReaderOf(name), w))
  BY <1>2, <1>4 DEF BufferWell
<1> QED
  BY <1>1, <1>5

\* A buffer's reader, and what its value is.
LEMMA BufferReads ==
  ASSUME NEW buffer, NEW leaves, BufferWell(buffer, leaves), NEW path \in DOMAIN leaves
  PROVE  \E u : /\ Well(u) /\ At(Reader(buffer, path), u) /\ u.leaves = Below(leaves, path)
                /\ u.leaves[<<>>] = leaves[path]
<1>1. PICK m : Well(As(TypeMessage(buffer.name), buffer.cells, leaves, m))
  BY DEF BufferWell
<1>2. PICK t : t = As(TypeMessage(buffer.name), buffer.cells, leaves, m)
  OBVIOUS
<1>3. t.type = TypeMessage(buffer.name) /\ t.cells = buffer.cells /\ t.leaves = leaves
  BY <1>2, AsIs
<1>4. Well(t) /\ path \in DOMAIN t.leaves
  BY <1>1, <1>2, <1>3
<1>5. PICK u : Reads(t, path, u)
  BY <1>4, Reading
<1>6. At(Root(buffer.name, buffer.cells), t)
  BY <1>3 DEF At, Root
<1>7. At(Reader(buffer, path), u)
  BY <1>5, <1>6 DEF Reads, Reader
<1>8. u.leaves[<<>>] = leaves[path]
  <2>1. IsLeaves(leaves)
    BY <1>3, <1>4, WellUnfold DEF IsTyped
  <2>2. path \in Seq(Nat) /\ <<>> \in Seq(Nat)
    BY <2>1 DEF IsLeaves
  <2>3. path \o <<>> = path
    BY <2>2, ConcatEmptySeq
  <2>4. Below(leaves, path) = [s \in {r \in Seq(Nat) : path \o r \in DOMAIN leaves} |-> leaves[path \o s]]
    BY <2>1, <2>2, BelowIs
  <2>5. <<>> \in {r \in Seq(Nat) : path \o r \in DOMAIN leaves}
    BY <2>2, <2>3
  <2>6. Below(leaves, path)[<<>>] = leaves[path]
    BY <2>3, <2>4, <2>5
  <2> QED
    BY <1>3, <1>5, <2>6 DEF Reads
<1> QED
  BY <1>3, <1>5, <1>7, <1>8 DEF Reads

\* A message in a buffer has a name.
LEMMA MessageNamed ==
  ASSUME NEW u, Well(u), u.type.kind = "message"
  PROVE  u.type.of \in Name
<1>1. ~ IsScalar(u) /\ ~ IsContent(u)
  BY DEF IsScalar, IsContent
<1>2. PICK x, parts, n : Composed(u, x, parts, n)
  BY <1>1, WellUnfold
<1> QED
  BY <1>2 DEF Composed

LEMMA InnerWell == \E m : WellNested(Inner, m)
BY NestedWell, BuffersAssumption DEF Inner

\* A well-made message is one builders may have nested, besides others.
With(nested, name, inner) ==
  [n \in Name |-> nested[n] \cup (IF n = name THEN {inner} ELSE {})]

LEMMA WithWell ==
  ASSUME NEW nested, NEW m, WellNested(nested, m), NEW name \in Name, NEW inner, NEW u, Well(u),
         u.type.kind = "message", u.type.of = name, inner.cells = u.cells, inner.leaves = u.leaves
  PROVE  /\ \E k : WellNested(With(nested, name, inner), k)
         /\ Wider(nested, With(nested, name, inner))
         /\ inner \in With(nested, name, inner)[name]
<1>1. m \in Nat /\ u.rank \in Nat
  BY WellUnfold DEF WellNested, IsTyped
<1>2. PICK r \in Nat : r = u.rank
  BY <1>1
<1>3. PICK k \in Nat : k = m + r
  BY <1>1
<1>4. m <= k /\ r <= k
  BY <1>1, <1>3
<1>5. ASSUME NEW n \in Name, NEW v \in nested[n] \cup {Nil}
      PROVE  Well(As(TypeMessage(n), v.cells, v.leaves, k))
  <2>1. PICK s : s = As(TypeMessage(n), v.cells, v.leaves, m)
    OBVIOUS
  <2>2. PICK t : t = As(TypeMessage(n), v.cells, v.leaves, k)
    OBVIOUS
  <2>3. Well(s)
    BY <2>1 DEF WellNested
  <2>4. s.rank = m /\ t.rank = k /\ t.type = s.type /\ t.cells = s.cells /\ t.leaves = s.leaves
    BY <2>1, <2>2, AsIs
  <2>5. Well(t)
    BY <1>4, <2>3, <2>4, WellRank
  <2> QED
    BY <2>2, <2>5
<1>6. Well(As(TypeMessage(name), inner.cells, inner.leaves, k))
  <2>1. PICK s : s = As(u.type, u.cells, u.leaves, k)
    OBVIOUS
  <2>2. PICK t : t = As(TypeMessage(name), inner.cells, inner.leaves, k)
    OBVIOUS
  <2>3. s.type = u.type /\ s.cells = u.cells /\ s.leaves = u.leaves /\ s.rank = k
    BY <2>1, AsIs
  <2>4. Well(s)
    BY <1>2, <1>4, <2>3, WellRank
  <2>5. t.type.kind = "message" /\ t.type.of = name /\ t.cells = u.cells /\ t.leaves = u.leaves
        /\ t.rank = k
    BY <2>2, AsIs DEF TypeMessage
  <2>6. Well(t)
    BY <2>3, <2>4, <2>5, WellAlike
  <2> QED
    BY <2>2, <2>6
<1>7. ASSUME NEW n \in Name, NEW v \in With(nested, name, inner)[n] \cup {Nil}
      PROVE  Well(As(TypeMessage(n), v.cells, v.leaves, k))
  <2>1. v \in nested[n] \cup {Nil} \/ (n = name /\ v = inner)
    BY DEF With
  <2> QED
    BY <1>5, <1>6, <2>1
<1>8. WellNested(With(nested, name, inner), k)
  BY <1>7 DEF WellNested
<1> QED
  BY <1>8 DEF With, Wider

\* The wrapper its Build returns.
LEMMA WrapperBuilt ==
  ASSUME NEW h, NEW l, HeapWell(h, l), NEW wr, WrappingWell(wr, h, l), wr # None,
         NEW source, source = Reader(h[wr.buffer], wr.path),
         NEW inner, inner = [cells |-> Raw(source), leaves |-> Below(l[wr.buffer], wr.path)],
         NEW u, u = Fill(ReaderOf(wr.name), wr.builder, wr.slot, inner)
  PROVE  \E nested, m :
           /\ WellNested(nested, m) /\ wr.name \in Name
           /\ IsBuilder(ReaderOf(wr.name), u, nested)
           /\ \A place : At(place, MessageOf(wr.name, u, m + 3)) =>
                Walk(place, wr.slot).cells = source.cells
<1>1. PICK name, w, slot, b, path :
        name = wr.name /\ w = wr.builder /\ slot = wr.slot /\ b = wr.buffer /\ path = wr.path
  OBVIOUS
<1>2. /\ name \in Name /\ IsBuilder(ReaderOf(name), w, Inner)
      /\ b \in 1 .. Len(h) /\ path \in DOMAIN l[b]
      /\ source.type.kind = "message"
      /\ slot \in Slots(ReaderOf(name), w, source.type.of)
  BY <1>1 DEF WrappingWell
<1>3. BufferWell(h[b], l[b])
  BY <1>2 DEF HeapWell
<1>4. PICK v : Well(v) /\ At(source, v) /\ v.leaves = Below(l[b], path)
  BY <1>1, <1>2, <1>3, BufferReads
<1>5. PICK of : of = source.type.of
  OBVIOUS
<1>6. v.type.kind = "message" /\ v.type.of = of /\ of \in Name /\ v.cells = source.cells
  BY <1>2, <1>4, <1>5, MessageNamed DEF At
<1>7. inner.cells = source.cells /\ inner.leaves = v.leaves
  BY <1>1, <1>4 DEF Raw
<1>8. PICK nested : nested = With(Inner, of, inner)
  OBVIOUS
<1>9. PICK i \in Nat : WellNested(Inner, i)
  BY InnerWell DEF WellNested
<1>10. (\E k : WellNested(nested, k)) /\ Wider(Inner, nested) /\ inner \in nested[of]
  BY <1>4, <1>6, <1>7, <1>8, <1>9, WithWell
<1>11. PICK m : WellNested(nested, m)
  BY <1>10
<1>12. IsBuilder(ReaderOf(name), w, nested)
  BY <1>2, <1>10, BuilderWider
<1>13. PICK j \in DOMAIN ReaderOf(name).fields :
         Filled(ReaderOf(name).fields[j], slot, j, w, Fill(ReaderOf(name), w, slot, inner), inner, of)
  BY <1>2, <1>5, FillIs
<1>14. Filled(ReaderOf(name).fields[j], slot, j, w, u, inner, of)
  BY <1>1, <1>13
<1>15. IsBuilder(ReaderOf(name), u, nested)
  BY <1>2, <1>6, <1>10, <1>12, <1>14, FillFits
<1>16. ASSUME NEW place, At(place, MessageOf(name, u, m + 3))
       PROVE  Walk(place, slot).cells = source.cells
  <2>1. Walk(place, slot).cells = inner.cells
    BY <1>2, <1>6, <1>10, <1>11, <1>12, <1>14, <1>15, <1>16, FillPlaced, SMTT(60)
  <2> QED
    BY <1>7, <2>1
<1> QED
  BY <1>1, <1>2, <1>11, <1>15, <1>16
---------------------------------------------------------------------------
(* The steps.                                                              *)

LEMMA InitInv == Init => BuffersInv
<1>1. SUFFICES ASSUME Init PROVE BuffersInv
  OBVIOUS
<1>2. <<>> \in Seq({}) /\ Len(<<>>) = 0 /\ 0 \in Nat /\ \A b \in 1 .. 0 : FALSE
  OBVIOUS
<1>3. Listed(<<>>)
  BY <1>2 DEF Listed
<1>4. HeapWell(<<>>, <<>>)
  BY <1>2, <1>3 DEF HeapWell
<1>5. wrapping = None /\ heap = <<>> /\ holds = <<>>
  BY <1>1 DEF Init
<1>6. WrappingWell(wrapping, heap, holds)
  BY <1>5 DEF WrappingWell
<1> QED
  BY <1>4, <1>5, <1>6 DEF BuffersInv

\* A buffer more leaves the others as they are, and what is wrapped.
LEMMA WrappingAppend ==
  ASSUME NEW h, NEW l, HeapWell(h, l), NEW x, NEW y, BufferWell(x, y),
         NEW wr, WrappingWell(wr, h, l)
  PROVE  WrappingWell(wr, Append(h, x), Append(l, y))
<1>1. SUFFICES ASSUME wr # None PROVE WrappingWell(wr, Append(h, x), Append(l, y))
  BY DEF WrappingWell
<1>2. PICK g : g = Append(h, x)
  OBVIOUS
<1>3. PICK k : k = Append(l, y)
  OBVIOUS
<1>4. PICK n \in Nat : n = Len(h)
  BY HeapAppend
<1>5. Listed(h) /\ Listed(l) /\ Len(l) = n
  BY <1>4 DEF HeapWell
<1>6. Len(g) = n + 1 /\ \A b \in 1 .. n : g[b] = h[b] /\ k[b] = l[b]
  <2>1. Len(g) = n + 1 /\ \A b \in 1 .. n : g[b] = h[b]
    BY <1>5, <1>2, <1>4, ListedAppend
  <2>2. \A b \in 1 .. n : k[b] = l[b]
    BY <1>5, <1>3, ListedAppend
  <2> QED
    BY <2>1, <2>2
<1>7. wr.buffer \in 1 .. n
  BY <1>1, <1>4 DEF WrappingWell
<1>8. wr.buffer \in 1 .. n + 1
  BY <1>7
<1>9. g[wr.buffer] = h[wr.buffer] /\ k[wr.buffer] = l[wr.buffer] /\ wr.buffer \in 1 .. Len(g)
  BY <1>6, <1>7, <1>8
<1>10. WrappingWell(wr, g, k)
  BY <1>1, <1>9 DEF WrappingWell
<1> QED
  BY <1>2, <1>3, <1>10

\* Allocate, for a builder of well-made values.
LEMMA AllocateStep ==
  ASSUME BuffersInv, NEW name \in Name, NEW nested, NEW m, WellNested(nested, m),
         NEW w, IsBuilder(ReaderOf(name), w, nested), Allocate(name, w)
  PROVE  /\ HeapWell(heap', holds')
         /\ WrappingWell(wrapping, heap', holds')
         /\ heap'[Len(heap')] = [name |-> name, cells |-> Write(BuilderOf(name), w)]
<1>1. PICK x : x = [name |-> name, cells |-> Write(BuilderOf(name), w)]
  OBVIOUS
<1>2. PICK y : y = Meaning(ReaderOf(name), w)
  OBVIOUS
<1>3. BufferWell(x, y)
  BY <1>1, <1>2, BuiltBuffer
<1>4. heap' = Append(heap, x) /\ holds' = Append(holds, y)
  BY <1>1, <1>2 DEF Allocate
<1>5. HeapWell(heap, holds) /\ WrappingWell(wrapping, heap, holds)
  BY DEF BuffersInv
<1>6. /\ HeapWell(Append(heap, x), Append(holds, y))
      /\ Len(Append(heap, x)) = Len(heap) + 1
      /\ Append(heap, x)[Len(heap) + 1] = x
  BY <1>3, <1>5, HeapAppend
<1>7. WrappingWell(wrapping, Append(heap, x), Append(holds, y))
  BY <1>3, <1>5, WrappingAppend
<1> QED
  BY <1>1, <1>4, <1>6, <1>7

LEMMA BuildStep ==
  ASSUME BuffersInv, NEW name \in Name, Build(name)
  PROVE  BuffersInv'
<1>1. PICK w \in ProgramBuilders(name, Inner) : Allocate(name, w)
  BY DEF Build
<1>2. IsBuilder(ReaderOf(name), w, Inner)
  BY DEF Builders, ProgramBuilders, WrappingBuilders
<1>3. PICK m : WellNested(Inner, m)
  BY InnerWell
<1>4. HeapWell(heap', holds') /\ WrappingWell(wrapping, heap', holds')
  BY <1>1, <1>2, <1>3, AllocateStep
<1>5. wrapping' = wrapping
  BY DEF Build
<1> QED
  BY <1>4, <1>5 DEF BuffersInv

\* What a program packs was packed from native arguments of their types.
LEMMA PackedIs ==
  ASSUME NEW p \in Packed
  PROVE  /\ p = <<p[1], p[2]>>
         /\ p[2] \in Seq(Cell)
         /\ ArgumentArrayFromNatives(p[1]) = WithHeader(p[2])
         /\ ToNatives(ArgumentArrayFromNatives(p[1])) = p[1]
<1>1. PICK args \in {a \in Natives : ~ Unsupported(a)} :
        p = <<args, PackedInputArgumentsFromNatives(args)>>
  BY DEF Packed
<1>2. args \in Natives /\ ~ Unsupported(args)
  OBVIOUS
<1>3. IsSequence(args)
  BY <1>2, NativesAssumption
<1>4. ASSUME NEW i \in DOMAIN args
      PROVE  IsNative(args[i])
  <2>1. args[i][1] \in Range(ArgumentType)
    BY <1>2 DEF Unsupported
  <2>2. /\ args[i] = <<args[i][1], args[i][2]>>
        /\ Fits(AlternativeFor(args[i][1])[2], args[i][2], NoBuilders)
    BY <1>2, <2>1, NativesAssumption
  <2> QED
    BY <2>1, <2>2 DEF IsNative
<1>5. /\ PackedInputArgumentsFromNatives(args) \in Seq(Cell)
      /\ ArgumentArrayFromNatives(args) = WithHeader(PackedInputArgumentsFromNatives(args))
      /\ ToNatives(ArgumentArrayFromNatives(args)) = args
  BY <1>3, <1>4, ArgumentsRead
<1>6. p[1] = args /\ p[2] = PackedInputArgumentsFromNatives(args)
  BY <1>1
<1> QED
  BY <1>1, <1>5, <1>6

LEMMA PackedFits ==
  ASSUME NEW name \in Carriers, NEW w, IsBuilder(ReaderOf(name), w, Inner),
         NEW cells \in Seq(Cell), NEW x, x = ReaderOf(name).fields[CarrierField(ReaderOf(name))][1],
         NEW u, u = [w EXCEPT ![x] = cells]
  PROVE  IsBuilder(ReaderOf(name), u, Inner)
<1>1. name \in Name
  BY NamesAre
<1>2. PICK i : i = CarrierField(ReaderOf(name))
  OBVIOUS
<1>3. PICK field : field = ReaderOf(name).fields[i]
  OBVIOUS
<1>4. i \in DOMAIN ReaderOf(name).fields /\ field[2] = TypeBytes /\ x = field[1]
  BY <1>2, <1>3, CarrierIs
<1>5. TypeBytes.kind = "content"
  BY DEF TypeBytes, Content
<1>6. FitsField(field, w, Inner)
  BY <1>3, <1>4 DEF IsBuilder
<1>7. x \in DOMAIN w
  BY <1>4, <1>6 DEF FitsField
<1>8. Differs(u, w, x) /\ u[x] = cells /\ x \in DOMAIN u
  BY <1>7 DEF Differs
<1>9. Fits(field[2], cells, Inner)
  BY <1>4, <1>5 DEF Fits, FitsOne
<1>10. FitsField(field, u, Inner)
  BY <1>4, <1>5, <1>8, <1>9 DEF FitsField
<1>11. x \in Names(field)
  BY <1>4 DEF Names
<1> QED
  BY <1>1, <1>3, <1>4, <1>8, <1>10, <1>11, StillBuilder

LEMMA BuildWithArgumentsStep ==
  ASSUME BuffersInv, NEW name \in Carriers, BuildWithArguments(name)
  PROVE  BuffersInv'
<1>1. PICK x : x = ReaderOf(name).fields[CarrierField(ReaderOf(name))][1]
  OBVIOUS
<1>2. PICK w \in ProgramBuilders(name, Inner), p \in Packed :
        Allocate(name, [w EXCEPT ![x] = p[2]])
  BY <1>1 DEF BuildWithArguments
<1>3. PICK u : u = [w EXCEPT ![x] = p[2]]
  OBVIOUS
<1>4. IsBuilder(ReaderOf(name), w, Inner)
  BY DEF Builders, ProgramBuilders, WrappingBuilders
<1>5. p[2] \in Seq(Cell)
  BY PackedIs
<1>6. IsBuilder(ReaderOf(name), u, Inner)
  BY <1>1, <1>3, <1>4, <1>5, PackedFits
<1>7. PICK m : WellNested(Inner, m)
  BY InnerWell
<1>8. name \in Name
  BY NamesAre
<1>9. Allocate(name, u)
  BY <1>2, <1>3
<1>10. HeapWell(heap', holds') /\ WrappingWell(wrapping, heap', holds')
  BY <1>6, <1>7, <1>8, <1>9, AllocateStep
<1>11. wrapping' = wrapping
  BY DEF BuildWithArguments
<1> QED
  BY <1>10, <1>11 DEF BuffersInv

LEMMA WrapStep ==
  ASSUME BuffersInv, NEW b \in DOMAIN heap, NEW name \in Name, Wrap(b, name)
  PROVE  BuffersInv'
<1>1. PICK path \in DOMAIN holds[b], w \in WrappingBuilders(name, Inner) :
        /\ Reader(heap[b], path).type.kind = "message"
        /\ \E slot \in Slots(ReaderOf(name), w, Reader(heap[b], path).type.of) :
             wrapping' = [name |-> name, builder |-> w, slot |-> slot, buffer |-> b, path |-> path]
  BY DEF Wrap
<1>2. PICK slot \in Slots(ReaderOf(name), w, Reader(heap[b], path).type.of) :
        wrapping' = [name |-> name, builder |-> w, slot |-> slot, buffer |-> b, path |-> path]
  BY <1>1
<1>3. heap' = heap /\ holds' = holds
  BY DEF Wrap
<1>4. HeapWell(heap, holds)
  BY DEF BuffersInv
<1>5. b \in 1 .. Len(heap)
  BY <1>4, ListedIs DEF HeapWell
<1>6. IsBuilder(ReaderOf(name), w, Inner)
  BY DEF Builders, ProgramBuilders, WrappingBuilders
<1>7. /\ wrapping'.name = name /\ wrapping'.builder = w /\ wrapping'.slot = slot
      /\ wrapping'.buffer = b /\ wrapping'.path = path
  BY <1>2
<1>8. WrappingWell(wrapping', heap, holds)
  BY <1>2, <1>1, <1>5, <1>6, <1>7 DEF WrappingWell
<1> QED
  BY <1>3, <1>4, <1>8 DEF BuffersInv

\* The wrapper returned by Build has the raw message's bytes where it was put.
LEMMA BuildWrappedStep ==
  ASSUME BuffersInv, BuildWrapped
  PROVE  /\ BuffersInv'
         /\ Reader(heap'[Len(heap')], wrapping.slot).cells
              = Reader(heap[wrapping.buffer], wrapping.path).cells
<1>1. HeapWell(heap, holds) /\ WrappingWell(wrapping, heap, holds) /\ wrapping # None
  BY DEF BuffersInv, BuildWrapped
<1>2. PICK source : source = Reader(heap[wrapping.buffer], wrapping.path)
  OBVIOUS
<1>3. PICK inner : inner = [cells |-> Raw(source), leaves |-> Below(holds[wrapping.buffer], wrapping.path)]
  OBVIOUS
<1>4. PICK u : u = Fill(ReaderOf(wrapping.name), wrapping.builder, wrapping.slot, inner)
  OBVIOUS
<1>5. PICK name : name = wrapping.name
  OBVIOUS
<1>6. Allocate(name, u) /\ wrapping' = None
  BY <1>2, <1>3, <1>4, <1>5 DEF BuildWrapped
<1>7. PICK nested, m :
        /\ WellNested(nested, m) /\ name \in Name
        /\ IsBuilder(ReaderOf(name), u, nested)
        /\ \A place : At(place, MessageOf(name, u, m + 3)) =>
             Walk(place, wrapping.slot).cells = source.cells
  BY <1>1, <1>2, <1>3, <1>4, <1>5, WrapperBuilt
<1>8. /\ HeapWell(heap', holds')
      /\ heap'[Len(heap')] = [name |-> name, cells |-> Write(BuilderOf(name), u)]
  BY <1>6, <1>7, AllocateStep
<1>9. BuffersInv'
  BY <1>6, <1>8 DEF BuffersInv, WrappingWell
<1>10. PICK new : new = heap'[Len(heap')]
  OBVIOUS
<1>11. new.name = name /\ new.cells = Write(BuilderOf(name), u)
  BY <1>8, <1>10
<1>12. At(Root(new.name, new.cells), MessageOf(name, u, m + 3))
  BY <1>11, AsIs DEF At, Root, MessageOf
<1>13. Walk(Root(new.name, new.cells), wrapping.slot).cells = source.cells
  BY <1>7, <1>12
<1> QED
  BY <1>2, <1>9, <1>10, <1>13 DEF Reader

\* A field overwritten.
FieldWritten(buffer, leaves, path, v, x, y) ==
  LET place == Reader(buffer, path)
      new == IF place.type.kind = "scalar" THEN PutOne(place.type, v) ELSE v
  IN  /\ path \in DOMAIN leaves
      /\ \/ place.type.kind = "scalar" /\ v \in NewNumbers
         \/ place.type.kind = "content" /\ v \in [1 .. Len(place.cells) -> NewCells]
      /\ x = [name |-> buffer.name, cells |-> Overwrite(buffer.cells, place.at, new)]
      /\ y = [leaves EXCEPT ![path] = v]

LEMMA OverwrittenWell ==
  ASSUME NEW buffer, NEW leaves, BufferWell(buffer, leaves), NEW path, NEW v, NEW x, NEW y,
         FieldWritten(buffer, leaves, path, v, x, y)
  PROVE  /\ BufferWell(x, y)
         /\ DOMAIN y = DOMAIN leaves
         /\ \A q \in DOMAIN leaves : Reader(x, q).type = Reader(buffer, q).type
<1>1. PICK m : Well(As(TypeMessage(buffer.name), buffer.cells, leaves, m))
  BY DEF BufferWell
<1>2. PICK t : t = As(TypeMessage(buffer.name), buffer.cells, leaves, m)
  OBVIOUS
<1>3. t.type = TypeMessage(buffer.name) /\ t.cells = buffer.cells /\ t.leaves = leaves /\ t.rank = m
  BY <1>2, AsIs
<1>4. PICK root : root = Root(buffer.name, buffer.cells)
  OBVIOUS
<1>5. At(root, t) /\ root.at = 0 /\ root.at \in Nat
  BY <1>3, <1>4 DEF At, Root
<1>6. PICK place : place = Reader(buffer, path)
  OBVIOUS
<1>7. place = Walk(root, path)
  BY <1>4, <1>6 DEF Reader
<1>8. PICK new : new = IF place.type.kind = "scalar" THEN PutOne(place.type, v) ELSE v
  OBVIOUS
<1>9. /\ path \in DOMAIN leaves
      /\ \/ place.type.kind = "scalar" /\ v \in NewNumbers
         \/ place.type.kind = "content" /\ v \in [1 .. Len(place.cells) -> NewCells]
      /\ x = [name |-> buffer.name, cells |-> Overwrite(buffer.cells, place.at, new)]
      /\ y = [leaves EXCEPT ![path] = v]
  BY <1>6, <1>8 DEF FieldWritten
<1>10. PICK u : Well(u) /\ At(place, u)
  BY <1>6, <1>9, BufferReads
<1>11. Fitting(place, v, new)
  <2>1. CASE place.type.kind = "scalar"
    <3>1. v \in Nat
      BY <1>9, <2>1, OverwritesAssumption
    <3>2. u.type = place.type
      BY <1>10 DEF At
    <3>3. IsScalar(u)
      BY <1>10, <2>1, <3>2, WellUnfold DEF IsContent, Composed
    <3>4. <<place.type.of, v>> \in Cell
      BY <3>1, <3>2, <3>3 DEF IsScalar, Cell
    <3>5. new = <<<<place.type.of, v>>>>
      BY <1>8, <2>1 DEF PutOne
    <3> QED
      BY <2>1, <3>4, <3>5 DEF Fitting
  <2>2. CASE place.type.kind = "content"
    <3>1. v \in [1 .. Len(place.cells) -> NewCells] /\ new = v
      BY <1>8, <1>9, <2>2
    <3>2. place.cells \in Seq(Cell)
      BY <1>10, OwnCells DEF At
    <3>3. PICK n \in Nat : n = Len(place.cells)
      BY <3>2, LenProperties
    <3>4. v \in [1 .. n -> Cell]
      BY <3>1, <3>3, OverwritesAssumption
    <3>5. v \in Seq(Cell) /\ Len(v) = n
      BY <3>4, SeqOfFunction
    <3> QED
      BY <2>2, <3>1, <3>3, <3>5 DEF Fitting
  <2> QED
    BY <1>9, <2>1, <2>2
<1>12. Well(t) /\ path \in DOMAIN t.leaves
  BY <1>1, <1>2, <1>3, <1>9
<1>13. PICK off : Overwritten(t, path, v, new, off)
  BY <1>5, <1>7, <1>11, <1>12, Overwriting
<1>14. PICK z : z = Changed(t, off, new, path, v)
  OBVIOUS
<1>15. /\ Well(z) /\ off \in Nat
       /\ Walk(root, path).at = root.at + off
  BY <1>5, <1>13, <1>14 DEF Overwritten
<1>16. place.at = off
  BY <1>5, <1>7, <1>15
<1>17. /\ z.type = t.type /\ z.cells = Overwrite(t.cells, off, new)
       /\ z.leaves = [t.leaves EXCEPT ![path] = v] /\ z.rank = t.rank
  BY <1>14 DEF Changed
<1>18. x.name = buffer.name /\ x.cells = z.cells /\ y = z.leaves /\ x = [name |-> x.name, cells |-> x.cells]
  BY <1>3, <1>9, <1>16, <1>17
<1>19. z = As(TypeMessage(x.name), x.cells, y, m)
  <2>1. z = [type |-> z.type, cells |-> z.cells, leaves |-> z.leaves, rank |-> z.rank]
    BY <1>14 DEF Changed
  <2> QED
    BY <1>3, <1>17, <1>18, <2>1 DEF As
<1>20. buffer.name \in Name
  BY DEF BufferWell
<1>21. BufferWell(x, y)
  BY <1>15, <1>18, <1>19, <1>20 DEF BufferWell
<1>22. DOMAIN y = DOMAIN leaves
  BY <1>9
<1>23. ASSUME NEW q \in DOMAIN leaves
       PROVE  Reader(x, q).type = Reader(buffer, q).type
  <2>1. PICK other : other = Root(x.name, x.cells)
    OBVIOUS
  <2>2. At(other, z)
    BY <1>3, <1>17, <1>18, <2>1 DEF At, Root
  <2>3. q \in DOMAIN t.leaves
    BY <1>3
  <2>4. Walk(other, q).type = Walk(root, q).type
    BY <1>5, <1>13, <1>14, <2>2, <2>3 DEF Overwritten
  <2> QED
    BY <1>4, <2>1, <2>4 DEF Reader
<1> QED
  BY <1>21, <1>22, <1>23

LEMMA WrappingExcept ==
  ASSUME NEW h, NEW l, HeapWell(h, l), NEW b \in 1 .. Len(h), NEW x, NEW y, BufferWell(x, y),
         NEW g, Replaces(g, h, b, x), NEW k, Replaces(k, l, b, y),
         DOMAIN y = DOMAIN l[b], \A q \in DOMAIN l[b] : Reader(x, q).type = Reader(h[b], q).type,
         NEW wr, WrappingWell(wr, h, l)
  PROVE  WrappingWell(wr, g, k)
<1>1. /\ Len(g) = Len(h) /\ g[b] = x /\ k[b] = y
      /\ \A c \in 1 .. Len(h) : c # b => g[c] = h[c] /\ k[c] = l[c]
  BY HeapExcept
<1>2. SUFFICES ASSUME wr # None PROVE WrappingWell(wr, g, k)
  BY DEF WrappingWell
<1>3. PICK a, path : a = wr.buffer /\ path = wr.path
  OBVIOUS
<1>4. a \in 1 .. Len(h) /\ path \in DOMAIN l[a]
  BY <1>2, <1>3 DEF WrappingWell
<1>5. DOMAIN k[a] = DOMAIN l[a] /\ Reader(g[a], path).type = Reader(h[a], path).type
  BY <1>1, <1>4
<1> QED
  BY <1>1, <1>2, <1>3, <1>4, <1>5 DEF WrappingWell

LEMMA MutateFieldStep ==
  ASSUME BuffersInv, NEW b \in DOMAIN heap, MutateField(b)
  PROVE  BuffersInv'
<1>1. HeapWell(heap, holds) /\ WrappingWell(wrapping, heap, holds)
  BY DEF BuffersInv
<1>2. b \in 1 .. Len(heap) /\ DOMAIN heap = 1 .. Len(heap) /\ DOMAIN holds = 1 .. Len(heap)
  BY <1>1, ListedIs DEF HeapWell
<1>3. BufferWell(heap[b], holds[b])
  BY <1>1, <1>2 DEF HeapWell
<1>4. PICK path \in Mutable(b) :
        LET place == Reader(heap[b], path)
            number == place.type.kind = "scalar"
        IN  \E v \in IF number THEN NewNumbers ELSE [1 .. Len(place.cells) -> NewCells] :
              /\ heap' = [heap EXCEPT ![b].cells =
                            Overwrite(@, place.at, IF number THEN PutOne(place.type, v) ELSE v)]
              /\ holds' = [holds EXCEPT ![b][path] = v]
  BY DEF MutateField
<1>5. PICK place : place = Reader(heap[b], path)
  OBVIOUS
<1>6. path \in DOMAIN holds[b] /\ place.type.kind \in {"scalar", "content"}
  BY <1>5 DEF Mutable
<1>7. PICK v \in IF place.type.kind = "scalar" THEN NewNumbers ELSE [1 .. Len(place.cells) -> NewCells] :
        /\ heap' = [heap EXCEPT ![b].cells =
                      Overwrite(@, place.at, IF place.type.kind = "scalar" THEN PutOne(place.type, v) ELSE v)]
        /\ holds' = [holds EXCEPT ![b][path] = v]
  BY <1>4, <1>5
<1>8. PICK new : new = IF place.type.kind = "scalar" THEN PutOne(place.type, v) ELSE v
  OBVIOUS
<1>9. PICK x : x = [name |-> heap[b].name, cells |-> Overwrite(heap[b].cells, place.at, new)]
  OBVIOUS
<1>10. PICK y : y = [holds[b] EXCEPT ![path] = v]
  OBVIOUS
<1>11. FieldWritten(heap[b], holds[b], path, v, x, y)
  <2>1. \/ place.type.kind = "scalar" /\ v \in NewNumbers
        \/ place.type.kind = "content" /\ v \in [1 .. Len(place.cells) -> NewCells]
    BY <1>6, <1>7
  <2> QED
    BY <1>5, <1>6, <1>8, <1>9, <1>10, <2>1 DEF FieldWritten
<1>12. /\ BufferWell(x, y)
       /\ DOMAIN y = DOMAIN holds[b]
       /\ \A q \in DOMAIN holds[b] : Reader(x, q).type = Reader(heap[b], q).type
  BY <1>3, <1>11, OverwrittenWell
<1>13. Replaces(heap', heap, b, x)
  <2>1. heap' = [heap EXCEPT ![b] = [heap[b] EXCEPT !.cells = Overwrite(heap[b].cells, place.at, new)]]
    BY <1>2, <1>7, <1>8
  <2>2. heap[b] = [name |-> heap[b].name, cells |-> heap[b].cells]
    BY <1>3 DEF BufferWell
  <2>3. [heap[b] EXCEPT !.cells = Overwrite(heap[b].cells, place.at, new)] = x
    BY <1>9, <2>2
  <2> QED
    BY <2>1, <2>3 DEF Replaces
<1>14. Replaces(holds', holds, b, y)
  BY <1>2, <1>7, <1>10 DEF Replaces
<1>15. HeapWell(heap', holds')
  BY <1>1, <1>2, <1>12, <1>13, <1>14, HeapExcept
<1>16. WrappingWell(wrapping, heap', holds')
  BY <1>1, <1>2, <1>12, <1>13, <1>14, WrappingExcept
<1>17. wrapping' = wrapping
  BY DEF MutateField
<1> QED
  BY <1>15, <1>16, <1>17 DEF BuffersInv

LEMMA NextInv == BuffersInv /\ [Next]_vars => BuffersInv'
<1>1. SUFFICES ASSUME BuffersInv, [Next]_vars PROVE BuffersInv'
  OBVIOUS
<1>2. ASSUME NEW name \in Name, Build(name) PROVE BuffersInv'
  BY <1>1, <1>2, BuildStep
<1>3. ASSUME NEW name \in Carriers, BuildWithArguments(name) PROVE BuffersInv'
  BY <1>1, <1>3, BuildWithArgumentsStep
<1>4. ASSUME NEW b \in DOMAIN heap, NEW name \in Name, Wrap(b, name) PROVE BuffersInv'
  BY <1>1, <1>4, WrapStep
<1>5. CASE BuildWrapped
  BY <1>1, <1>5, BuildWrappedStep
<1>6. ASSUME NEW b \in DOMAIN heap, MutateField(b) PROVE BuffersInv'
  BY <1>1, <1>6, MutateFieldStep
<1>7. CASE UNCHANGED vars
  <2>1. heap' = heap /\ holds' = holds /\ wrapping' = wrapping
    BY <1>7 DEF vars
  <2> QED
    BY <1>1, <2>1 DEF BuffersInv
<1> QED
  BY <1>1, <1>2, <1>3, <1>4, <1>5, <1>6, <1>7 DEF Next

\* Every buffer is well-made and means what it should read as, and what a builder
\* was given to wrap is a message that fits the place it takes: the inductive
\* invariant of whatever programs build, wrap and overwrite.
THEOREM BuffersWell == Spec => []BuffersInv
BY InitInv, NextInv, PTL DEF Spec
---------------------------------------------------------------------------
(* The properties.                                                         *)

LEMMA InvReadsBack == BuffersInv => ReadsBack
<1>1. SUFFICES ASSUME BuffersInv, NEW b \in DOMAIN heap, NEW path \in DOMAIN holds[b]
               PROVE  Observe(Reader(heap[b], path)) = holds[b][path]
  BY DEF ReadsBack
<1>2. b \in 1 .. Len(heap)
  BY <1>1, ListedIs DEF BuffersInv, HeapWell
<1>3. BufferWell(heap[b], holds[b])
  BY <1>1, <1>2 DEF BuffersInv, HeapWell
<1>4. PICK u : Well(u) /\ At(Reader(heap[b], path), u) /\ u.leaves[<<>>] = holds[b][path]
  BY <1>3, BufferReads
<1> QED
  BY <1>4, ObserveIs

LEMMA InvCanonical == BuffersInv => Canonical
<1>1. SUFFICES ASSUME BuffersInv, NEW b \in DOMAIN heap, NEW built \in Encodings[heap[b].name]
               PROVE  built.cells = heap[b].cells <=> built.leaves = holds[b]
  BY DEF Canonical
<1>2. b \in 1 .. Len(heap)
  BY <1>1, ListedIs DEF BuffersInv, HeapWell
<1>3. BufferWell(heap[b], holds[b])
  BY <1>1, <1>2 DEF BuffersInv, HeapWell
<1>4. PICK name : name = heap[b].name
  OBVIOUS
<1>5. PICK m : Well(As(TypeMessage(name), heap[b].cells, holds[b], m))
  BY <1>3, <1>4 DEF BufferWell
<1>6. name \in Name
  BY <1>3, <1>4 DEF BufferWell
<1>7. Depth + 1 \in Nat
  BY BuffersAssumption
<1>8. PICK k : WellNested(Encodings, k)
  BY <1>7, NestedWell DEF Encodings
<1>9. Well(As(TypeMessage(name), built.cells, built.leaves, k))
  BY <1>4, <1>6, <1>8 DEF WellNested
<1>10. PICK t : t = As(TypeMessage(name), heap[b].cells, holds[b], m)
  OBVIOUS
<1>11. PICK s : s = As(TypeMessage(name), built.cells, built.leaves, k)
  OBVIOUS
<1>12. t.type = s.type /\ t.cells = heap[b].cells /\ t.leaves = holds[b]
       /\ s.cells = built.cells /\ s.leaves = built.leaves
  BY <1>10, <1>11, AsIs
<1>13. SameEncoding(t, s)
  BY <1>5, <1>9, <1>10, <1>11, <1>12, CanonicalValues
<1> QED
  BY <1>12, <1>13 DEF SameEncoding

\* A message that carries arguments has them in its field.
LEMMA CarrierReads ==
  ASSUME NEW name \in Carriers, NEW u, Well(u), u.type.kind = "message", u.type.of = name,
         u.cells # <<>>, NEW message, At(message, u),
         NEW i, i = CarrierField(ReaderOf(name))
  PROVE  /\ Part(message, i).cells \in Seq(Cell)
         /\ PartWithHeader(message, i) = WithHeader(Part(message, i).cells)
<1>1. name \in Name
  BY NamesAre
<1>2. ~ IsScalar(u) /\ ~ IsContent(u)
  BY DEF IsScalar, IsContent
<1>3. PICK c : Made(u, c)
  BY <1>2, WellMade
<1>4. /\ c.n = Len(ReaderOf(name).fields)
      /\ \A j \in 1 .. c.n : c.parts[j].type = ChildType(u.type, c.x, j)
  BY <1>3 DEF Made, Composed
<1>5. i \in 1 .. c.n /\ ReaderOf(name).fields[i][2] = TypeBytes
  BY <1>1, <1>4, CarrierIs, FieldsOf
<1>6. c.parts[i].type = TypeBytes
  BY <1>4, <1>5 DEF ChildType
<1>7. TypeBytes.kind = "content"
  BY DEF TypeBytes, Content
<1>8. /\ Well(c.parts[i]) /\ At(Part(message, i), c.parts[i])
      /\ PartWithHeader(message, i) = Own(c.parts[i].type, c.parts[i].cells)
  BY <1>3, <1>5, MadeParts
<1>9. Own(c.parts[i].type, c.parts[i].cells) = WithHeader(c.parts[i].cells)
  BY <1>6, <1>7 DEF Own
<1> QED
  BY <1>8, <1>9, OwnCells DEF At

LEMMA InvArgumentsArrive == BuffersInv => ArgumentsArrive
<1>1. SUFFICES ASSUME BuffersInv, NEW b \in DOMAIN heap, NEW path \in DOMAIN holds[b],
                      Carries(Reader(heap[b], path))
               PROVE  UnpacksAsPacked(Reader(heap[b], path),
                                      CarrierField(ReaderOf(Reader(heap[b], path).type.of)))
  BY DEF ArgumentsArrive, ArgumentsOf
<1>m. PICK message : message = Reader(heap[b], path)
  OBVIOUS
<1>f. PICK field : field = CarrierField(ReaderOf(message.type.of))
  OBVIOUS
<1>2. b \in 1 .. Len(heap)
  BY <1>1, ListedIs DEF BuffersInv, HeapWell
<1>3. BufferWell(heap[b], holds[b])
  BY <1>1, <1>2 DEF BuffersInv, HeapWell
<1>4. PICK u : Well(u) /\ At(message, u)
  BY <1>1, <1>m, <1>3, BufferReads
<1>5. PICK name : name = message.type.of
  OBVIOUS
<1>6. /\ u.type.kind = "message" /\ u.type.of = name /\ u.cells # <<>> /\ name \in Carriers
      /\ field = CarrierField(ReaderOf(name))
  BY <1>1, <1>m, <1>f, <1>4, <1>5 DEF At, Carries
<1>7. PartWithHeader(message, field) = WithHeader(Part(message, field).cells)
  BY <1>4, <1>6, CarrierReads
<1>8. ASSUME NEW p \in Packed, Part(message, field).cells = p[2]
      PROVE  PackedOutputArgumentsToNatives(PartWithHeader(message, field)) = p[1]
  <2>1. PartWithHeader(message, field) = ArgumentArrayFromNatives(p[1])
    BY <1>8, <1>7, PackedIs
  <2>2. ToNatives(ArgumentArrayFromNatives(p[1])) = p[1]
    BY <1>8, PackedIs
  <2> QED
    BY <2>1, <2>2 DEF PackedOutputArgumentsToNatives
<1>9. UnpacksAsPacked(message, field)
  BY <1>8 DEF UnpacksAsPacked
<1> QED
  BY <1>9, <1>m, <1>f

\* Every getter of every buffer returns what the builder's field of its name was
\* given and what was overwritten since, for all messages, values and depths.
THEOREM MessagesReadBack == Spec => []ReadsBack
BY BuffersWell, InvReadsBack, PTL

\* Two encodings of a message have the same bytes exactly when they read the same.
THEOREM EncodingCanonical == Spec => []Canonical
BY BuffersWell, InvCanonical, PTL

\* Packed native arguments come out of the message that carries them as they were.
THEOREM ArgumentsComeOut == Spec => []ArgumentsArrive
BY BuffersWell, InvArgumentsArrive, PTL

\* The bytes of a message wrapped raw are found unchanged in the wrapper.
THEOREM OriginalsStay == Spec => OriginalForm
<1>1. BuffersInv /\ [Next]_vars =>
        [wrapping # None /\ wrapping' = None =>
           Reader(heap'[Len(heap')], wrapping.slot).cells
             = Reader(heap[wrapping.buffer], wrapping.path).cells]_vars
  <2>1. SUFFICES ASSUME BuffersInv, Next, wrapping # None, wrapping' = None
                 PROVE  Reader(heap'[Len(heap')], wrapping.slot).cells
                          = Reader(heap[wrapping.buffer], wrapping.path).cells
    OBVIOUS
  <2>2. BuildWrapped
    BY <2>1 DEF Next, Build, BuildWithArguments, Wrap, MutateField
  <2> QED
    BY <2>1, <2>2, BuildWrappedStep
<1> QED
  BY <1>1, BuffersWell, PTL DEF Spec, OriginalForm
=============================================================================
