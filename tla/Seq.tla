-------------------------------- MODULE Seq --------------------------------
(***************************************************************************)
(* Seq (collections/core/src/seq.ts): a persistent sequence, kept as a     *)
(* finger tree. A tree holds up to four items at either end and, between   *)
(* them, a deeper tree whose items are nodes of two or three of its own.   *)
(* The code has each operation twice, for the elements (-E) and for the    *)
(* nodes (-N) that count the elements below them; here an element is an    *)
(* item of size 1, and there is one operator. Its unrolled cases for each  *)
(* length of a digit or a node are one case of a sequence. Indices are     *)
(* those of the code, from 0; the positions in a digit are from 1.         *)
(***************************************************************************)
EXTENDS Integers, Sequences, FiniteSetsExt

SE == INSTANCE SequencesExt

None == <<>>
Some(x) == <<x>>

-----------------------------------------------------------------------------
(* Items, digits and trees.                                                *)

Total(xs) ==
    LET upTo[j \in 0..Len(xs)] == IF j = 0 THEN 0 ELSE upTo[j - 1] + xs[j].size
    IN  upTo[Len(xs)]

Elem(a) == [size |-> 1, elem |-> a]
Node(xs) == [size |-> Total(xs), items |-> xs]

IsElem(x) == "elem" \in DOMAIN x

Empty == [tag |-> "Empty", size |-> 0]
Single(s, x) == [tag |-> "Single", size |-> s, value |-> x]
Deep(s, pfx, m, sfx) == [tag |-> "Deep", size |-> s, pfx |-> pfx, deeper |-> m, sfx |-> sfx]

(* What an operation on an index returns when it throws.                   *)
IndexOutOfBounds == [tag |-> "Thrown", size |-> 0]

First(xs, j) == SubSeq(xs, 1, j)
From(xs, j) == SubSeq(xs, j, Len(xs))
Reversed(xs) == [j \in DOMAIN xs |-> xs[Len(xs) + 1 - j]]

(* Mutant: the comparison with the end of an item is off by one.           *)
AtOffByOne(xs, idx) == Min({j \in 1..Len(xs) : idx <= Total(First(xs, j)) \/ j = Len(xs)})

(* The item of a digit or a node that holds the element at an index, from  *)
(* the left and from the right; the last one is not compared.              *)
At(xs, idx) == Min({j \in 1..Len(xs) : idx < Total(First(xs, j)) \/ j = Len(xs)})
AtR(xs, idx) == Max({j \in 1..Len(xs) : idx < Total(From(xs, j)) \/ j = 1})

DigitToTree(s, xs) ==
    LET h == (Len(xs) + 1) \div 2
    IN  IF Len(xs) = 1 THEN Single(s, xs[1]) ELSE Deep(s, First(xs, h), Empty, From(xs, h + 1))

(* The tree of the items of a digit that an operation keeps.               *)
OfDigit(xs) == IF xs = <<>> THEN Empty ELSE DigitToTree(Total(xs), xs)

-----------------------------------------------------------------------------
(* Both ends.                                                              *)

RECURSIVE PrependItem(_, _)
PrependItem(a, t) ==
    CASE t.tag = "Empty" -> Single(a.size, a)
      [] t.tag = "Single" -> Deep(t.size + a.size, <<a>>, Empty, <<t.value>>)
      [] t.tag = "Deep" ->
            IF Len(t.pfx) = 4
              THEN Deep(t.size + a.size, <<a, t.pfx[1]>>,
                        PrependItem(Node(From(t.pfx, 2)), t.deeper), t.sfx)
              ELSE Deep(t.size + a.size, <<a>> \o t.pfx, t.deeper, t.sfx)

RECURSIVE AppendItem(_, _)
AppendItem(t, e) ==
    CASE t.tag = "Empty" -> Single(e.size, e)
      [] t.tag = "Single" -> Deep(t.size + e.size, <<t.value>>, Empty, <<e>>)
      [] t.tag = "Deep" ->
            IF Len(t.sfx) = 4
              THEN Deep(t.size + e.size, t.pfx,
                        AppendItem(t.deeper, Node(First(t.sfx, 3))), <<t.sfx[4], e>>)
              ELSE Deep(t.size + e.size, t.pfx, t.deeper, Append(t.sfx, e))

(* A tree of which a digit may have run out: then a node of the deeper     *)
(* tree takes its place. View is the first item, and the tree without it.  *)
RECURSIVE View(_), PullL(_, _, _), WithPrefix(_, _, _, _)
View(t) ==
    CASE t.tag = "Empty" -> None
      [] t.tag = "Single" -> <<t.value, Empty>>
      [] t.tag = "Deep" ->
            <<t.pfx[1], WithPrefix(t.size - t.pfx[1].size, From(t.pfx, 2), t.deeper, t.sfx)>>

PullL(s, m, sfx) ==
    LET v == View(m) IN
    IF v = None THEN DigitToTree(s, sfx) ELSE Deep(s, v[1].items, v[2], sfx)

WithPrefix(s, pfx, m, sfx) == IF pfx = <<>> THEN PullL(s, m, sfx) ELSE Deep(s, pfx, m, sfx)

RECURSIVE ViewR(_), PullR(_, _, _), WithSuffix(_, _, _, _)
ViewR(t) ==
    CASE t.tag = "Empty" -> None
      [] t.tag = "Single" -> <<Empty, t.value>>
      [] t.tag = "Deep" ->
            LET n == Len(t.sfx) IN
            <<WithSuffix(t.size - t.sfx[n].size, t.pfx, t.deeper, First(t.sfx, n - 1)), t.sfx[n]>>

PullR(s, pfx, m) ==
    LET v == ViewR(m) IN
    IF v = None THEN DigitToTree(s, pfx) ELSE Deep(s, pfx, v[1], v[2].items)

WithSuffix(s, pfx, m, sfx) == IF sfx = <<>> THEN PullR(s, pfx, m) ELSE Deep(s, pfx, m, sfx)

HeadOf(t) == CASE t.tag = "Single" -> t.value [] t.tag = "Deep" -> t.pfx[1]
LastOf(t) == CASE t.tag = "Single" -> t.value [] t.tag = "Deep" -> t.sfx[Len(t.sfx)]

TailOf(t) == IF View(t) = None THEN Empty ELSE View(t)[2]
InitOf(t) == IF ViewR(t) = None THEN Empty ELSE ViewR(t)[1]

-----------------------------------------------------------------------------
(* Visiting all elements: the folds, the iterators and forEachUntil.       *)

RECURSIVE ElemsOfItem(_)
ElemsOfItem(x) ==
    IF IsElem(x) THEN <<x.elem>>
    ELSE SE!FlattenSeq([j \in DOMAIN x.items |-> ElemsOfItem(x.items[j])])

ElemsOf(xs) == SE!FlattenSeq([j \in DOMAIN xs |-> ElemsOfItem(xs[j])])

RECURSIVE Elements(_)
Elements(t) ==
    CASE t.tag = "Empty" -> <<>>
      [] t.tag = "Single" -> ElemsOfItem(t.value)
      [] t.tag = "Deep" -> ElemsOf(t.pfx) \o Elements(t.deeper) \o ElemsOf(t.sfx)

(* From right to left: each of them has cases of its own in the code.      *)
RECURSIVE ElemsOfItemR(_)
ElemsOfItemR(x) ==
    IF IsElem(x) THEN <<x.elem>>
    ELSE SE!FlattenSeq([j \in DOMAIN x.items |-> ElemsOfItemR(Reversed(x.items)[j])])

ElemsOfR(xs) == SE!FlattenSeq([j \in DOMAIN xs |-> ElemsOfItemR(Reversed(xs)[j])])

RECURSIVE ElementsR(_)
ElementsR(t) ==
    CASE t.tag = "Empty" -> <<>>
      [] t.tag = "Single" -> ElemsOfItemR(t.value)
      [] t.tag = "Deep" -> ElemsOfR(t.sfx) \o ElementsR(t.deeper) \o ElemsOfR(t.pfx)

(* map and reverseMap: they keep the shape, or mirror it, and every size.  *)
RECURSIVE MapItem(_, _)
MapItem(x, f) ==
    IF IsElem(x) THEN Elem(f[x.elem])
    ELSE [x EXCEPT !.items = [j \in DOMAIN @ |-> MapItem(@[j], f)]]

MapDigit(xs, f) == [j \in DOMAIN xs |-> MapItem(xs[j], f)]

RECURSIVE Map(_, _)
Map(t, f) ==
    CASE t.tag = "Empty" -> t
      [] t.tag = "Single" -> Single(t.size, MapItem(t.value, f))
      [] t.tag = "Deep" -> Deep(t.size, MapDigit(t.pfx, f), Map(t.deeper, f), MapDigit(t.sfx, f))

RECURSIVE ReverseNode(_)
ReverseNode(x) ==
    IF IsElem(x) THEN x
    ELSE [x EXCEPT !.items = [j \in DOMAIN @ |-> ReverseNode(Reversed(@)[j])]]

ReverseDigit(xs) == [j \in DOMAIN xs |-> ReverseNode(Reversed(xs)[j])]

RECURSIVE Reverse(_)
Reverse(t) ==
    CASE t.tag = "Empty" -> t
      [] t.tag = "Single" -> Single(t.size, ReverseNode(t.value))
      [] t.tag = "Deep" -> Deep(t.size, ReverseDigit(t.sfx), Reverse(t.deeper), ReverseDigit(t.pfx))

-----------------------------------------------------------------------------
(* Construction. b(i) of the code is the item of size s that starts at     *)
(* index i: an element of f, or a node of three items.                     *)

RECURSIVE ItemAt(_, _, _)
ItemAt(f, s, i) ==
    IF s = 1 THEN Elem(f[i + 1])
    ELSE Node([j \in 1..3 |-> ItemAt(f, s \div 3, i + (j - 1) * (s \div 3))])

RECURSIVE CreateTree(_, _, _, _)
CreateTree(f, s, i, trees) ==
    LET ts == trees \div 3
        p == IF trees <= 6 THEN (trees + 1) \div 2 ELSE IF trees % 3 = 1 THEN 2 ELSE 3
        mid == IF trees <= 6 THEN 0 ELSE IF trees % 3 = 0 THEN ts - 2 ELSE ts - 1
        Items(n, from) == [j \in 1..n |-> ItemAt(f, s, from + (j - 1) * s)]
    IN  IF trees = 1 THEN Single(s, ItemAt(f, s, i))
        ELSE Deep(trees * s, Items(p, i),
                  IF mid = 0 THEN Empty ELSE CreateTree(f, 3 * s, i + p * s, mid),
                  Items(trees - p - 3 * mid, i + (p + 3 * mid) * s))

FromArray(f) == IF f = <<>> THEN Empty ELSE CreateTree(f, 1, 0, Len(f))

(* fromIterator, and filter, collect and partition: one element after the  *)
(* other.                                                                  *)
FromIterator(f) == SE!FoldLeft(LAMBDA t, a : AppendItem(t, Elem(a)), Empty, f)

-----------------------------------------------------------------------------
(* Concatenation: the digits that meet become nodes, which go down between *)
(* the deeper trees.                                                       *)

RECURSIVE Nodes(_)
Nodes(xs) ==
    CASE Len(xs) > 4 -> <<Node(First(xs, 3))>> \o Nodes(From(xs, 4))
      [] Len(xs) = 4 -> <<Node(First(xs, 2)), Node(From(xs, 3))>>
      [] Len(xs) \in 2..3 -> <<Node(xs)>>
      [] OTHER -> <<>>

PrependAll(xs, t) == SE!FoldRight(PrependItem, xs, t)
AppendAll(t, xs) == SE!FoldLeft(AppendItem, t, xs)

RECURSIVE ConcatN(_, _, _)
ConcatN(t, m, u) ==
    CASE t.tag = "Empty" -> PrependAll(m, u)
      [] t.tag = "Single" -> PrependItem(t.value, PrependAll(m, u))
      [] t.tag = "Deep" /\ u.tag = "Empty" -> AppendAll(t, m)
      [] t.tag = "Deep" /\ u.tag = "Single" -> AppendItem(AppendAll(t, m), u.value)
      [] t.tag = "Deep" /\ u.tag = "Deep" ->
            Deep(t.size + u.size + Total(m), t.pfx,
                 ConcatN(t.deeper, Nodes(t.sfx \o m \o u.pfx), u.deeper), u.sfx)

Concat(t, u) == ConcatN(t, <<>>, u)

-----------------------------------------------------------------------------
(* take and takeRight. At the bottom of it is the item in which the wanted *)
(* size is reached: <<the tree before it, the item>>, and mirrored.        *)

TakePrefix(n, pfx) ==
    LET j == At(pfx, n) IN <<OfDigit(First(pfx, j - 1)), pfx[j]>>

TakeMiddle(n, sp, pfx, ml, x) ==
    LET j == At(x.items, n)
        Kept == First(x.items, j - 1)
    IN  <<WithSuffix(sp + ml.size + Total(Kept), pfx, ml, Kept), x.items[j]>>

TakeSuffix(n, s, pfx, m, sfx) ==
    LET j == At(sfx, n)
    IN  <<WithSuffix(s - Total(From(sfx, j)), pfx, m, First(sfx, j - 1)), sfx[j]>>

RECURSIVE TakeTree(_, _)
TakeTree(n, t) ==
    IF t.tag = "Single" THEN <<Empty, t.value>>
    ELSE LET sp == Total(t.pfx)
             spm == sp + t.deeper.size
             mid == TakeTree(n - sp, t.deeper)
         IN  CASE n < sp -> TakePrefix(n, t.pfx)
               [] n >= sp /\ n < spm -> TakeMiddle(n - sp - mid[1].size, sp, t.pfx, mid[1], mid[2])
               [] n >= spm -> TakeSuffix(n - spm, t.size, t.pfx, t.deeper, t.sfx)

TakeSuffixR(n, sfx) ==
    LET j == AtR(sfx, n) IN <<sfx[j], OfDigit(From(sfx, j + 1))>>

TakeMiddleR(n, ss, mr, sfx, x) ==
    LET j == AtR(x.items, n)
        Kept == From(x.items, j + 1)
    IN  <<x.items[j], WithPrefix(ss + mr.size + Total(Kept), Kept, mr, sfx)>>

TakePrefixR(n, s, m, sfx, pfx) ==
    LET j == AtR(pfx, n)
    IN  <<pfx[j], WithPrefix(s - Total(First(pfx, j)), From(pfx, j + 1), m, sfx)>>

RECURSIVE TakeTreeR(_, _)
TakeTreeR(n, t) ==
    IF t.tag = "Single" THEN <<t.value, Empty>>
    ELSE LET ss == Total(t.sfx)
             ssm == ss + t.deeper.size
             mid == TakeTreeR(n - ss, t.deeper)
         IN  CASE n < ss -> TakeSuffixR(n, t.sfx)
               [] n >= ss /\ n < ssm -> TakeMiddleR(n - ss - mid[2].size, ss, mid[2], t.sfx, mid[1])
               [] n >= ssm -> TakePrefixR(n - ssm, t.size, t.deeper, t.sfx, t.pfx)

Take(t, i) == IF i <= 0 THEN Empty ELSE IF i >= t.size THEN t ELSE TakeTree(i, t)[1]

TakeRight(t, i) == IF i <= 0 THEN Empty ELSE IF i >= t.size THEN t ELSE TakeTreeR(i, t)[2]

Drop(t, i) == TakeRight(t, t.size - i)

DropRight(t, i) == Take(t, t.size - i)

Slice(t, from, until) ==
    Take(Drop(t, Max({from, 0})), Max({until, 0}) - Max({from, 0}))

-----------------------------------------------------------------------------
(* splitAt. A deeper tree splits into <<before, the item, after>>.         *)

SplitPrefix(idx, s, pfx, m, sfx) ==
    LET j == At(pfx, idx)
    IN  <<OfDigit(First(pfx, j - 1)), pfx[j],
          WithPrefix(s - Total(First(pfx, j)), From(pfx, j + 1), m, sfx)>>

(* The size of the part after the second of two items counts the prefix.   *)
SplitMiddle(idx, s, sp, pfx, ml, x, mr, sfx) ==
    LET xs == x.items
        j == At(xs, idx)
        taken == IF j = 2 /\ Len(xs) = 2 THEN 0 ELSE sp
    IN  <<WithSuffix(sp + ml.size + Total(First(xs, j - 1)), pfx, ml, First(xs, j - 1)), xs[j],
          WithPrefix(s - taken - ml.size - Total(First(xs, j)), From(xs, j + 1), mr, sfx)>>

SplitSuffix(idx, s, pfx, m, sfx) ==
    LET j == At(sfx, idx)
    IN  <<WithSuffix(s - Total(From(sfx, j)), pfx, m, First(sfx, j - 1)), sfx[j],
          OfDigit(From(sfx, j + 1))>>

RECURSIVE SplitTree(_, _)
SplitTree(idx, t) ==
    IF t.tag = "Single" THEN <<Empty, t.value, Empty>>
    ELSE LET sp == Total(t.pfx)
             spm == sp + t.deeper.size
             mid == SplitTree(idx - sp, t.deeper)
         IN  CASE idx < sp -> SplitPrefix(idx, t.size, t.pfx, t.deeper, t.sfx)
               [] idx >= sp /\ idx < spm ->
                     SplitMiddle(idx - sp - mid[1].size, t.size, sp, t.pfx,
                                 mid[1], mid[2], mid[3], t.sfx)
               [] idx >= spm -> SplitSuffix(idx - spm, t.size, t.pfx, t.deeper, t.sfx)

(* Of the elements, the item at the index is the first of the second part. *)
SplitElems(idx, t) ==
    LET sp == Len(t.pfx)
        spm == sp + t.deeper.size
        mid == SplitTree(idx - sp, t.deeper)
        ml == mid[1]
        xs == mid[2].items
        j == idx - sp - ml.size
        k == idx - spm
    IN  CASE t.tag = "Single" -> <<t, Empty>>
          [] t.tag = "Deep" /\ idx < sp ->
                <<OfDigit(First(t.pfx, idx)), Deep(t.size - idx, From(t.pfx, idx + 1), t.deeper, t.sfx)>>
          [] t.tag = "Deep" /\ idx >= sp /\ idx < spm ->
                <<WithSuffix(sp + ml.size + j, t.pfx, ml, First(xs, j)),
                  Deep(t.size - sp - ml.size - j, From(xs, j + 1), mid[3], t.sfx)>>
          [] t.tag = "Deep" /\ idx >= spm ->
                <<WithSuffix(t.size - Len(t.sfx) + k, t.pfx, t.deeper, First(t.sfx, k)),
                  OfDigit(From(t.sfx, k + 1))>>

SplitAt(t, i) ==
    IF i <= 0 THEN <<Empty, t>> ELSE IF i >= t.size THEN <<t, Empty>> ELSE SplitElems(i, t)

RemoveAt(t, i) ==
    IF i < 0 \/ i >= t.size THEN IndexOutOfBounds
    ELSE Concat(SplitAt(t, i)[1], TailOf(SplitAt(t, i)[2]))

-----------------------------------------------------------------------------
(* get, modifyAt and replaceAt.                                            *)

(* The item of a tree that holds the element, and the index in it.         *)
GetDigit(xs, idx) ==
    LET j == At(xs, idx) IN [idx |-> idx - Total(First(xs, j - 1)), value |-> xs[j]]

RECURSIVE GetTree(_, _)
GetTree(t, idx) ==
    IF t.tag = "Single" THEN [idx |-> idx, value |-> t.value]
    ELSE LET sp == Total(t.pfx)
             sm == sp + t.deeper.size
             p == GetTree(t.deeper, idx - sp)
         IN  CASE idx < sp -> GetDigit(t.pfx, idx)
               [] idx >= sp /\ idx < sm -> GetDigit(p.value.items, p.idx)
               [] idx >= sm -> GetDigit(t.sfx, idx - sm)

Get(t, i) == IF i < 0 \/ i >= t.size THEN IndexOutOfBounds ELSE GetTree(t, i).value.elem

RECURSIVE ModifyItem(_, _, _)
ModifyItem(x, idx, v) ==
    IF IsElem(x) THEN Elem(v)
    ELSE LET j == At(x.items, idx)
         IN  Node([x.items EXCEPT ![j] = ModifyItem(@, idx - Total(First(x.items, j - 1)), v)])

ModifyDigit(xs, idx, v) ==
    LET j == At(xs, idx)
    IN  [xs EXCEPT ![j] = ModifyItem(@, idx - Total(First(xs, j - 1)), v)]

RECURSIVE ModifyTree(_, _, _)
ModifyTree(t, idx, v) ==
    IF t.tag = "Single" THEN Single(t.size, ModifyItem(t.value, idx, v))
    ELSE LET sp == Total(t.pfx)
             spm == sp + t.deeper.size
         IN  CASE idx < sp -> [t EXCEPT !.pfx = ModifyDigit(@, idx, v)]
               [] idx >= sp /\ idx < spm -> [t EXCEPT !.deeper = ModifyTree(@, idx - sp, v)]
               [] idx >= spm -> [t EXCEPT !.sfx = ModifyDigit(@, idx - spm, v)]

ModifyAt(t, i, v) == IF i < 0 \/ i >= t.size THEN IndexOutOfBounds ELSE ModifyTree(t, i, v)

-----------------------------------------------------------------------------
(* insertAt. An item with one more element is one item or two; none stands *)
(* for the error thrown below it.                                          *)

Spliced(xs, j, ins) == First(xs, j - 1) \o ins \o From(xs, j + 1)

Regrouped(xs) == IF Len(xs) <= 3 THEN <<Node(xs)>> ELSE <<Node(First(xs, 2)), Node(From(xs, 3))>>

(* The item of a node of nodes: the second of three only below index 2,    *)
(* which no item reaches, since the first has two elements at least.       *)
Chosen(xs, idx) ==
    IF idx < xs[1].size THEN 1 ELSE IF Len(xs) = 2 \/ idx < 2 THEN 2 ELSE 3

RECURSIVE InsertItem(_, _, _)
InsertItem(x, idx, a) ==
    IF IsElem(x) THEN IF idx = 0 THEN <<Elem(a), x>> ELSE <<>>
    ELSE LET xs == x.items
             j == IF IsElem(xs[1]) THEN At(xs, idx) ELSE Chosen(xs, idx)
             ins == InsertItem(xs[j], idx - Total(First(xs, j - 1)), a)
         IN  IF ins = <<>> THEN <<>> ELSE Regrouped(Spliced(xs, j, ins))

InsertDigit(xs, idx, a) ==
    LET j == At(xs, idx)
        ins == InsertItem(xs[j], idx - Total(First(xs, j - 1)), a)
    IN  IF ins = <<>> THEN <<>> ELSE Spliced(xs, j, ins)

(* A digit of five gives a node of three to the deeper tree.               *)
InsertPrefix(t, idx, a) ==
    LET ys == InsertDigit(t.pfx, idx, a)
    IN  IF Len(ys) <= 4 THEN Deep(t.size + 1, ys, t.deeper, t.sfx)
        ELSE Deep(t.size + 1, First(ys, 2), PrependItem(Node(From(ys, 3)), t.deeper), t.sfx)

InsertSuffix(t, idx, a) ==
    LET ys == InsertDigit(t.sfx, idx, a)
    IN  IF Len(ys) <= 4 THEN Deep(t.size + 1, t.pfx, t.deeper, ys)
        ELSE Deep(t.size + 1, t.pfx, AppendItem(t.deeper, Node(First(ys, 3))), From(ys, 4))

RECURSIVE InsertTree(_, _, _)
InsertTree(t, idx, a) ==
    IF t.tag = "Single"
      THEN LET ins == InsertItem(t.value, idx, a)
           IN  CASE ins = <<>> -> IndexOutOfBounds
                 [] Len(ins) = 1 -> Single(t.size + 1, ins[1])
                 [] Len(ins) = 2 -> Deep(t.size + 1, <<ins[1]>>, Empty, <<ins[2]>>)
      ELSE LET sp == Total(t.pfx)
               spm == sp + t.deeper.size
               m == InsertTree(t.deeper, idx - sp, a)
           IN  CASE idx < sp ->
                      IF InsertDigit(t.pfx, idx, a) = <<>> THEN IndexOutOfBounds
                      ELSE InsertPrefix(t, idx, a)
                 [] idx >= sp /\ idx < spm ->
                      IF m = IndexOutOfBounds THEN m ELSE Deep(t.size + 1, t.pfx, m, t.sfx)
                 [] idx >= spm ->
                      IF InsertDigit(t.sfx, idx - spm, a) = <<>> THEN IndexOutOfBounds
                      ELSE InsertSuffix(t, idx - spm, a)

InsertAt(t, i, a) ==
    CASE i < 0 \/ i > t.size -> IndexOutOfBounds
      [] i = 0 -> PrependItem(Elem(a), t)
      [] i = t.size /\ i > 0 -> AppendItem(t, Elem(a))
      [] i \in 1..t.size - 1 -> InsertTree(t, i, a)

-----------------------------------------------------------------------------
(* Operations by a predicate, here the set of the elements it accepts.     *)

FindIndex(t, p) ==
    LET es == Elements(t)
        I == {i \in 0..Len(es) - 1 : es[i + 1] \in p}
    IN  IF I = {} THEN None ELSE Some(Min(I))

FindIndexRight(t, p) ==
    LET es == ElementsR(t)
        I == {i \in 1..Len(es) : es[i] \in p}
    IN  IF I = {} THEN None ELSE Some(t.size - Min(I))

FindIndexNot(t, p) == FindIndex(t, {a \in SE!ToSet(Elements(t)) : a \notin p})
FindIndexRightNot(t, p) == FindIndexRight(t, {a \in SE!ToSet(Elements(t)) : a \notin p})

TakeWhile(t, p) == LET i == FindIndexNot(t, p) IN IF i = None THEN t ELSE Take(t, i[1])
DropWhile(t, p) == LET i == FindIndexNot(t, p) IN IF i = None THEN Empty ELSE Drop(t, i[1])
Span(t, p) == LET i == FindIndexNot(t, p) IN IF i = None THEN <<t, Empty>> ELSE SplitAt(t, i[1])

TakeWhileRight(t, p) ==
    LET i == FindIndexRightNot(t, p) IN IF i = None THEN t ELSE TakeRight(t, t.size - i[1] - 1)
DropWhileRight(t, p) ==
    LET i == FindIndexRightNot(t, p) IN IF i = None THEN Empty ELSE DropRight(t, t.size - i[1] - 1)
SpanRight(t, p) ==
    LET i == FindIndexRightNot(t, p) IN IF i = None THEN <<Empty, t>> ELSE SplitAt(t, i[1] + 1)

Filter(t, p) == FromIterator(SelectSeq(Elements(t), LAMBDA a : a \in p))

CollectWhile(t, p) ==
    FromIterator(LET i == FindIndexNot(t, p) IN IF i = None THEN Elements(t) ELSE First(Elements(t), i[1]))

Partition(t, p) == <<Filter(t, p), FromIterator(SelectSeq(Elements(t), LAMBDA a : a \notin p))>>

(* flatMap and intersperse concatenate; transposition appends.             *)
FlatMap(t, f) ==
    SE!FoldLeft(LAMBDA u, a : Concat(u, FromArray(f[a])), Empty, Elements(t))

(* zipWith cuts both sequences to one size and walks the second with the   *)
(* view of its first element, in the order of map.                         *)
RECURSIVE Heads(_)
Heads(t) == IF View(t) = None THEN <<>> ELSE <<View(t)[1].elem>> \o Heads(View(t)[2])

Zip(t, u) ==
    LET n == Min({t.size, u.size})
        xs == Elements(Take(t, n))
        ys == Heads(Take(u, n))
    IN  [i \in 1..n |-> <<xs[i], ys[i]>>]

Intersperse(t, sep) ==
    LET v == View(t)
        Pair == [a \in SE!ToSet(Elements(t)) |-> <<sep, a>>]
    IN  IF v = None THEN Empty ELSE PrependItem(v[1], FlatMap(v[2], Pair))

RECURSIVE Tails(_)
Tails(t) == IF View(t) = None THEN <<t>> ELSE <<t>> \o Tails(TailOf(t))
=============================================================================
