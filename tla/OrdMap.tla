------------------------------- MODULE OrdMap -------------------------------
(***************************************************************************)
(* OrdMap (collections/core/src/ord-map.ts): a persistent dictionary, kept *)
(* as a weight-balanced search tree. The operators below are its           *)
(* operations, with the natural order of the keys. Where the code tests    *)
(* that a subtree is the same object as before, they test that it is       *)
(* equal. The function arguments of the code are data here: a predicate is *)
(* the set of the keys it accepts, a function to an option is its result,  *)
(* and a value is a sequence, so that to combine two is to concatenate.    *)
(***************************************************************************)
EXTENDS SearchTree, Sequences, FiniteSets, FiniteSetsExt

SE == INSTANCE SequencesExt

(* The keys and values in the order the folds and iterators visit them,    *)
(* and in the order of the reversed iterator.                              *)
RECURSIVE Entries(_)
Entries(t) ==
    IF IsEmpty(t) THEN <<>>
    ELSE Entries(t.lhs) \o <<<<t.key, t.value>>>> \o Entries(t.rhs)

RECURSIVE Reversed(_)
Reversed(t) ==
    IF IsEmpty(t) THEN <<>>
    ELSE Reversed(t.rhs) \o <<<<t.key, t.value>>>> \o Reversed(t.lhs)

(* The fold over a walks along b, and is TRUE where either of them ends.   *)
Equals(a, b) ==
    \A i \in DOMAIN Entries(a) \cap DOMAIN Entries(b) : Entries(a)[i] = Entries(b)[i]

-----------------------------------------------------------------------------
(* Balancing.                                                              *)

RECURSIVE InsertMax(_, _, _)
InsertMax(k, x, t) ==
    IF IsEmpty(t) THEN Leaf(k, x)
    ELSE BalanceR(t.key, t.value, t.lhs, InsertMax(k, x, t.rhs))

RECURSIVE InsertMin(_, _, _)
InsertMin(k, x, t) ==
    IF IsEmpty(t) THEN Leaf(k, x)
    ELSE BalanceL(t.key, t.value, InsertMin(k, x, t.lhs), t.rhs)

RECURSIVE MinView(_)
MinView(t) ==
    IF IsEmpty(t.lhs) THEN [k |-> t.key, v |-> t.value, m |-> t.rhs]
    ELSE LET view == MinView(t.lhs) IN
         [view EXCEPT !.m = BalanceR(t.key, t.value, @, t.rhs)]

RECURSIVE MaxView(_)
MaxView(t) ==
    IF IsEmpty(t.rhs) THEN [k |-> t.key, v |-> t.value, m |-> t.lhs]
    ELSE LET view == MaxView(t.rhs) IN
         [view EXCEPT !.m = BalanceL(t.key, t.value, t.lhs, @)]

(* The tree of l and r, which are balanced with each other.                *)
Glue(l, r) ==
    IF IsEmpty(l) THEN r
    ELSE IF IsEmpty(r) THEN l
    ELSE IF l.size > r.size
      THEN LET view == MaxView(l) IN BalanceR(view.k, view.v, view.m, r)
      ELSE LET view == MinView(r) IN BalanceL(view.k, view.v, l, view.m)

(* The same of trees of any sizes, with and without a key in between.      *)
RECURSIVE Link(_, _, _, _)
Link(k, x, l, r) ==
    IF IsEmpty(l) THEN InsertMin(k, x, r)
    ELSE IF IsEmpty(r) THEN InsertMax(k, x, l)
    ELSE IF Delta * l.size < r.size
      THEN BalanceL(r.key, r.value, Link(k, x, l, r.lhs), r.rhs)
    ELSE IF Delta * r.size < l.size
      THEN BalanceR(l.key, l.value, l.lhs, Link(k, x, l.rhs, r))
    ELSE MkBin(k, x, l, r)

RECURSIVE Link2(_, _)
Link2(l, r) ==
    IF IsEmpty(l) THEN r
    ELSE IF IsEmpty(r) THEN l
    ELSE IF Delta * l.size < r.size
      THEN BalanceL(r.key, r.value, Link2(l, r.lhs), r.rhs)
    ELSE IF Delta * r.size < l.size
      THEN BalanceR(l.key, l.value, l.lhs, Link2(l.rhs, r))
    ELSE Glue(l, r)

-----------------------------------------------------------------------------
(* One key.                                                                *)

(* t after both of its subtrees became l and r.                            *)
Linked(t, l, r) ==
    IF l = t.lhs /\ r = t.rhs THEN t ELSE Link(t.key, t.value, l, r)

RECURSIVE Insert(_, _, _)
Insert(t, k, v) ==
    IF IsEmpty(t) THEN Leaf(k, v)
    ELSE IF k < t.key THEN GrownL(t, Insert(t.lhs, k, v))
    ELSE IF k > t.key THEN GrownR(t, Insert(t.rhs, k, v))
    ELSE Bin(t.size, k, v, t.lhs, t.rhs)

(* Does not replace a value.                                               *)
RECURSIVE InsertR(_, _, _)
InsertR(t, k, v) ==
    IF IsEmpty(t) THEN Leaf(k, v)
    ELSE IF k < t.key THEN GrownL(t, InsertR(t.lhs, k, v))
    ELSE IF k > t.key THEN GrownR(t, InsertR(t.rhs, k, v))
    ELSE t

RECURSIVE InsertWith(_, _, _)
InsertWith(t, k, v) ==
    IF IsEmpty(t) THEN Leaf(k, v)
    ELSE IF k < t.key THEN BalanceL(t.key, t.value, InsertWith(t.lhs, k, v), t.rhs)
    ELSE IF k > t.key THEN BalanceR(t.key, t.value, t.lhs, InsertWith(t.rhs, k, v))
    ELSE Bin(t.size, t.key, v \o t.value, t.lhs, t.rhs)

RECURSIVE InsertWithR(_, _, _)
InsertWithR(t, k, v) ==
    IF IsEmpty(t) THEN Leaf(k, v)
    ELSE IF k < t.key THEN BalanceL(t.key, t.value, InsertWithR(t.lhs, k, v), t.rhs)
    ELSE IF k > t.key THEN BalanceR(t.key, t.value, t.lhs, InsertWithR(t.rhs, k, v))
    ELSE Bin(t.size, t.key, t.value \o v, t.lhs, t.rhs)

RECURSIVE Remove(_, _)
Remove(t, k) ==
    IF IsEmpty(t) THEN Empty
    ELSE IF k < t.key THEN ShrunkL(t, Remove(t.lhs, k))
    ELSE IF k > t.key THEN ShrunkR(t, Remove(t.rhs, k))
    ELSE Glue(t.lhs, t.rhs)

RECURSIVE Adjust(_, _, _)
Adjust(t, k, v) ==
    IF IsEmpty(t) THEN Empty
    ELSE IF k < t.key THEN [t EXCEPT !.lhs = Adjust(@, k, v)]
    ELSE IF k > t.key THEN [t EXCEPT !.rhs = Adjust(@, k, v)]
    ELSE [t EXCEPT !.value = v]

(* ov is what the function returns for the value of k, if there is one...  *)
RECURSIVE Update(_, _, _)
Update(t, k, ov) ==
    IF IsEmpty(t) THEN Empty
    ELSE IF k < t.key THEN ShrunkL(t, Update(t.lhs, k, ov))
    ELSE IF k > t.key THEN ShrunkR(t, Update(t.rhs, k, ov))
    ELSE IF ov = None THEN Glue(t.lhs, t.rhs)
    ELSE Bin(t.size, t.key, Head(ov), t.lhs, t.rhs)

(* ... and what it returns whether there is one or not.                    *)
RECURSIVE Alter(_, _, _)
Alter(t, k, ov) ==
    IF IsEmpty(t) THEN (IF ov = None THEN Empty ELSE Leaf(k, Head(ov)))
    ELSE IF k < t.key THEN Linked(t, Alter(t.lhs, k, ov), t.rhs)
    ELSE IF k > t.key THEN Linked(t, t.lhs, Alter(t.rhs, k, ov))
    ELSE IF ov = None THEN Link2(t.lhs, t.rhs)
    ELSE Bin(t.size, t.key, Head(ov), t.lhs, t.rhs)

RECURSIVE Lookup(_, _)
Lookup(t, k) ==
    IF IsEmpty(t) THEN None
    ELSE IF k < t.key THEN Lookup(t.lhs, k)
    ELSE IF k > t.key THEN Lookup(t.rhs, k)
    ELSE Some(t.value)

(* The functor's way: look up, and then remove or insert.                  *)
AlterF(t, k, ov) ==
    IF Lookup(t, k) = None /\ ov = None THEN t
    ELSE IF ov = None THEN Remove(t, k)
    ELSE Insert(t, k, Head(ov))

RECURSIVE MinSure(_, _, _)
MinSure(t, k, v) == IF IsEmpty(t) THEN <<k, v>> ELSE MinSure(t.lhs, t.key, t.value)

RECURSIVE MaxSure(_, _, _)
MaxSure(t, k, v) == IF IsEmpty(t) THEN <<k, v>> ELSE MaxSure(t.rhs, t.key, t.value)

MinWithKey(t) == MinSure(t.lhs, t.key, t.value)

MaxWithKey(t) == MaxSure(t.rhs, t.key, t.value)

(* The greatest key below k and the least one above k, or best if there is *)
(* none; LE and GE accept k itself.                                        *)
RECURSIVE LookupLT(_, _, _)
LookupLT(t, k, best) ==
    IF IsEmpty(t) THEN best
    ELSE IF k <= t.key THEN LookupLT(t.lhs, k, best)
    ELSE LookupLT(t.rhs, k, Some(t.key))

RECURSIVE LookupGT(_, _, _)
LookupGT(t, k, best) ==
    IF IsEmpty(t) THEN best
    ELSE IF k < t.key THEN LookupGT(t.lhs, k, Some(t.key))
    ELSE LookupGT(t.rhs, k, best)

RECURSIVE LookupLE(_, _, _)
LookupLE(t, k, best) ==
    IF IsEmpty(t) THEN best
    ELSE IF k < t.key THEN LookupLE(t.lhs, k, best)
    ELSE IF k = t.key THEN Some(t.key)
    ELSE LookupLE(t.rhs, k, Some(t.key))

RECURSIVE LookupGE(_, _, _)
LookupGE(t, k, best) ==
    IF IsEmpty(t) THEN best
    ELSE IF k < t.key THEN LookupGE(t.lhs, k, Some(t.key))
    ELSE IF k = t.key THEN Some(t.key)
    ELSE LookupGE(t.rhs, k, best)

-----------------------------------------------------------------------------
(* Positions, from 0.                                                      *)

RECURSIVE ElemAt(_, _)
ElemAt(t, i) ==
    IF i = t.lhs.size THEN t.key
    ELSE IF i < t.lhs.size THEN ElemAt(t.lhs, i)
    ELSE ElemAt(t.rhs, i - t.lhs.size - 1)

RECURSIVE KeyIndex(_, _, _)
KeyIndex(t, s, k) ==
    IF IsEmpty(t) THEN None
    ELSE IF k < t.key THEN KeyIndex(t.lhs, s, k)
    ELSE IF k > t.key THEN KeyIndex(t.rhs, s + t.lhs.size + 1, k)
    ELSE Some(s + t.lhs.size)

RECURSIVE Take(_, _)
Take(t, i) ==
    IF i = 0 \/ IsEmpty(t) THEN Empty
    ELSE IF i < t.lhs.size THEN Take(t.lhs, i)
    ELSE IF i > t.lhs.size
      THEN Link(t.key, t.value, t.lhs, Take(t.rhs, i - t.lhs.size - 1))
    ELSE t.lhs

RECURSIVE Drop(_, _)
Drop(t, i) ==
    IF i = 0 THEN t
    ELSE IF IsEmpty(t) THEN Empty
    ELSE IF i < t.lhs.size THEN Link(t.key, t.value, Drop(t.lhs, i), t.rhs)
    ELSE IF i > t.lhs.size THEN Drop(t.rhs, i - t.lhs.size - 1)
    ELSE InsertMin(t.key, t.value, t.rhs)

RECURSIVE SplitAt(_, _)
SplitAt(t, i) ==
    IF i = 0 THEN <<Empty, t>>
    ELSE IF IsEmpty(t) THEN <<Empty, Empty>>
    ELSE IF i < t.lhs.size
      THEN LET p == SplitAt(t.lhs, i) IN <<p[1], Link(t.key, t.value, p[2], t.rhs)>>
    ELSE IF i > t.lhs.size
      THEN LET p == SplitAt(t.rhs, i - t.lhs.size - 1) IN
           <<Link(t.key, t.value, t.lhs, p[1]), p[2]>>
    ELSE <<t.lhs, InsertMin(t.key, t.value, t.rhs)>>

TakeRight(t, i) == IF i >= t.size THEN t ELSE Drop(t, t.size - i)

DropRight(t, i) == IF i >= t.size THEN Empty ELSE Take(t, t.size - i)

RECURSIVE RemoveAt(_, _)
RemoveAt(t, i) ==
    IF i = t.lhs.size THEN Glue(t.lhs, t.rhs)
    ELSE IF i < t.lhs.size
      THEN BalanceR(t.key, t.value, RemoveAt(t.lhs, i), t.rhs)
      ELSE BalanceL(t.key, t.value, t.lhs, RemoveAt(t.rhs, i - t.lhs.size - 1))

RECURSIVE ModifyAt(_, _, _)
ModifyAt(t, i, v) ==
    IF i = t.lhs.size THEN [t EXCEPT !.value = v]
    ELSE IF i < t.lhs.size THEN [t EXCEPT !.lhs = ModifyAt(@, i, v)]
    ELSE [t EXCEPT !.rhs = ModifyAt(@, i - t.lhs.size - 1, v)]

RECURSIVE UpdateAt(_, _, _)
UpdateAt(t, i, ov) ==
    IF i = t.lhs.size
      THEN IF ov = None THEN Glue(t.lhs, t.rhs)
           ELSE Bin(t.size, t.key, Head(ov), t.lhs, t.rhs)
    ELSE IF i < t.lhs.size
      THEN BalanceR(t.key, t.value, UpdateAt(t.lhs, i, ov), t.rhs)
      ELSE BalanceL(t.key, t.value, t.lhs, UpdateAt(t.rhs, i - t.lhs.size - 1, ov))

(* The position of the first key in p, with s keys before t.               *)
RECURSIVE FindIndex(_, _, _)
FindIndex(t, s, p) ==
    IF IsEmpty(t) THEN None
    ELSE LET l == FindIndex(t.lhs, s, p) IN
         IF l # None THEN l
         ELSE IF t.key \in p THEN Some(s + t.lhs.size)
         ELSE FindIndex(t.rhs, s + t.lhs.size + 1, p)

(* Every value becomes the count of those before it, which starts at ac    *)
(* and is returned with the tree.                                          *)
RECURSIVE MapAccumL(_, _)
MapAccumL(t, ac) ==
    IF IsEmpty(t) THEN <<Empty, ac>>
    ELSE LET l == MapAccumL(t.lhs, ac)
             r == MapAccumL(t.rhs, l[2] + 1)
         IN  <<Bin(t.size, t.key, <<l[2]>>, l[1], r[1]), r[2]>>

RECURSIVE MapAccumR(_, _)
MapAccumR(t, ac) ==
    IF IsEmpty(t) THEN <<Empty, ac>>
    ELSE LET r == MapAccumR(t.rhs, ac)
             l == MapAccumR(t.lhs, r[2] + 1)
         IN  <<Bin(t.size, t.key, <<r[2]>>, l[1], r[1]), l[2]>>

RECURSIVE RemoveMin(_)
RemoveMin(t) ==
    IF IsEmpty(t.lhs) THEN t.rhs ELSE BalanceR(t.key, t.value, RemoveMin(t.lhs), t.rhs)

RECURSIVE RemoveMax(_)
RemoveMax(t) ==
    IF IsEmpty(t.rhs) THEN t.lhs ELSE BalanceL(t.key, t.value, t.lhs, RemoveMax(t.rhs))

-----------------------------------------------------------------------------
(* Several keys, two trees.                                                *)

(* Below k, the value of k, and above k.                                   *)
RECURSIVE SplitLookup(_, _)
SplitLookup(t, k) ==
    IF IsEmpty(t) THEN [lt |-> Empty, value |-> None, gt |-> Empty]
    ELSE IF k < t.key
      THEN LET s == SplitLookup(t.lhs, k) IN
           [s EXCEPT !.gt = Link(t.key, t.value, @, t.rhs)]
    ELSE IF k > t.key
      THEN LET s == SplitLookup(t.rhs, k) IN
           [s EXCEPT !.lt = Link(t.key, t.value, t.lhs, @)]
    ELSE [lt |-> t.lhs, value |-> Some(t.value), gt |-> t.rhs]

RECURSIVE Union(_, _)
Union(a, b) ==
    IF IsEmpty(a) THEN b
    ELSE IF IsEmpty(b) THEN a
    ELSE IF b.size = 1 THEN InsertR(a, b.key, b.value)
    ELSE IF a.size = 1 THEN Insert(b, a.key, a.value)
    ELSE LET s == SplitLookup(b, a.key) IN
         Linked(a, Union(a.lhs, s.lt), Union(a.rhs, s.gt))

(* Mutant: it combines a single value of the left one in the wrong order.  *)
RECURSIVE UnionWithRight(_, _)
UnionWithRight(a, b) ==
    IF IsEmpty(a) THEN b
    ELSE IF IsEmpty(b) THEN a
    ELSE IF b.size = 1 THEN InsertWithR(a, b.key, b.value)
    ELSE IF a.size = 1 THEN InsertWithR(b, a.key, a.value)
    ELSE LET s == SplitLookup(b, a.key)
             v == IF s.value = None THEN a.value ELSE a.value \o Head(s.value)
         IN  Link(a.key, v, UnionWithRight(a.lhs, s.lt), UnionWithRight(a.rhs, s.gt))

RECURSIVE UnionWith(_, _)
UnionWith(a, b) ==
    IF IsEmpty(a) THEN b
    ELSE IF IsEmpty(b) THEN a
    ELSE IF b.size = 1 THEN InsertWithR(a, b.key, b.value)
    ELSE IF a.size = 1 THEN InsertWith(b, a.key, a.value)
    ELSE LET s == SplitLookup(b, a.key)
             v == IF s.value = None THEN a.value ELSE a.value \o Head(s.value)
         IN  Link(a.key, v, UnionWith(a.lhs, s.lt), UnionWith(a.rhs, s.gt))

RECURSIVE Difference(_, _)
Difference(a, b) ==
    IF IsEmpty(a) THEN Empty
    ELSE IF IsEmpty(b) THEN a
    ELSE LET s == SplitLookup(a, b.key)
             l == Difference(s.lt, b.lhs)
             r == Difference(s.gt, b.rhs)
         IN  IF l.size + r.size = a.size THEN a ELSE Link2(l, r)

SymmetricDifference(a, b) == Union(Difference(a, b), Difference(b, a))

RECURSIVE Intersect(_, _)
Intersect(a, b) ==
    IF IsEmpty(a) \/ IsEmpty(b) THEN Empty
    ELSE LET s == SplitLookup(b, a.key)
             l == Intersect(a.lhs, s.lt)
             r == Intersect(a.rhs, s.gt)
         IN  IF s.value = None THEN Link2(l, r) ELSE Linked(a, l, r)

RECURSIVE IntersectWith(_, _)
IntersectWith(a, b) ==
    IF IsEmpty(a) \/ IsEmpty(b) THEN Empty
    ELSE LET s == SplitLookup(b, a.key)
             l == IntersectWith(a.lhs, s.lt)
             r == IntersectWith(a.rhs, s.gt)
         IN  IF s.value = None THEN Link2(l, r)
             ELSE Link(a.key, a.value \o Head(s.value), l, r)

RECURSIVE Disjoint(_, _)
Disjoint(a, b) ==
    IF IsEmpty(a) \/ IsEmpty(b) THEN TRUE
    ELSE IF a.size = 1 THEN Lookup(b, a.key) = None
    ELSE IF b.size = 1 THEN Lookup(a, b.key) = None
    ELSE LET s == SplitLookup(b, a.key) IN
         s.value = None /\ Disjoint(a.lhs, s.lt) /\ Disjoint(a.rhs, s.gt)

(* The tactics of a merge: whether a key that only a has stays, whether    *)
(* one that only b has does, and which keys of both do.                    *)
RECURSIVE Merge(_, _, _)
Merge(a, b, keep) ==
    IF IsEmpty(a) THEN (IF keep.right THEN b ELSE Empty)
    ELSE IF IsEmpty(b) THEN (IF keep.left THEN a ELSE Empty)
    ELSE LET s == SplitLookup(b, a.key)
             l == Merge(a.lhs, s.lt, keep)
             r == Merge(a.rhs, s.gt, keep)
             stays == IF s.value = None THEN keep.left ELSE a.key \in keep.both
         IN  IF stays THEN Link(a.key, a.value \o SE!FlattenSeq(s.value), l, r)
             ELSE Link2(l, r)

DifferenceWith(a, b, ks) == Merge(a, b, [left |-> TRUE, right |-> FALSE, both |-> ks])

Align(a, b) == Merge(a, b, [left |-> TRUE, right |-> TRUE, both |-> Nat])

RECURSIVE Filter(_, _)
Filter(t, p) ==
    IF IsEmpty(t) THEN Empty
    ELSE IF t.size = 1 THEN (IF t.key \in p THEN t ELSE Empty)
    ELSE LET l == Filter(t.lhs, p)
             r == Filter(t.rhs, p)
         IN  IF t.key \in p THEN Linked(t, l, r) ELSE Link2(l, r)

(* The function returns n for the keys in p, and no value for the others.  *)
RECURSIVE Collect(_, _, _)
Collect(t, p, n) ==
    IF IsEmpty(t) THEN Empty
    ELSE IF t.size = 1 THEN (IF t.key \in p THEN Leaf(t.key, n) ELSE Empty)
    ELSE LET l == Collect(t.lhs, p, n)
             r == Collect(t.rhs, p, n)
         IN  IF t.key \in p THEN Link(t.key, n, l, r) ELSE Link2(l, r)

(* ... and m for the others, which go to the second tree.                  *)
RECURSIVE PartitionMap(_, _, _, _)
PartitionMap(t, p, n, m) ==
    IF IsEmpty(t) THEN <<Empty, Empty>>
    ELSE LET l == PartitionMap(t.lhs, p, n, m)
             r == PartitionMap(t.rhs, p, n, m)
         IN  IF t.key \in p
               THEN <<Link(t.key, n, l[1], r[1]), Link2(l[2], r[2])>>
               ELSE <<Link2(l[1], r[1]), Link(t.key, m, l[2], r[2])>>

RECURSIVE Partition(_, _)
Partition(t, p) ==
    IF IsEmpty(t) THEN <<Empty, Empty>>
    ELSE LET l == Partition(t.lhs, p)
             r == Partition(t.rhs, p)
         IN  IF t.key \in p
               THEN <<Link(t.key, t.value, l[1], r[1]), Link2(l[2], r[2])>>
               ELSE <<Link2(l[1], r[1]), Link(t.key, t.value, l[2], r[2])>>

-----------------------------------------------------------------------------
(* From arrays and lists of keys and values. Those that rise are built     *)
(* without comparing, and the rest is inserted.                            *)

InsertAll(t, xs) == SE!FoldLeft(LAMBDA m, x : Insert(m, x[1], x[2]), t, xs)

RECURSIVE FromDistinctAscArray(_)
FromDistinctAscArray(xs) ==
    IF xs = <<>> THEN Empty
    ELSE LET middle == (Len(xs) \div 2) + 1 IN
         MkBin(xs[middle][1], xs[middle][2],
               FromDistinctAscArray(SubSeq(xs, 1, middle - 1)),
               FromDistinctAscArray(SubSeq(xs, middle + 1, Len(xs))))

RECURSIVE FromDistinctDescArray(_)
FromDistinctDescArray(xs) ==
    IF xs = <<>> THEN Empty
    ELSE LET middle == (Len(xs) \div 2) + 1 IN
         MkBin(xs[middle][1], xs[middle][2],
               FromDistinctDescArray(SubSeq(xs, middle + 1, Len(xs))),
               FromDistinctDescArray(SubSeq(xs, 1, middle - 1)))

(* The function combines the new value with the old one.                   *)
FromArrayWith(xs) == SE!FoldLeft(LAMBDA m, x : InsertWith(m, x[1], x[2]), Empty, xs)

Falls(xs) == {i \in 1..Len(xs) - 1 : xs[i][1] >= xs[i + 1][1]}

FromArray(xs) ==
    IF Falls(xs) = {} THEN FromDistinctAscArray(xs)
    ELSE LET i == Min(Falls(xs)) IN
         InsertAll(FromDistinctAscArray(SubSeq(xs, 1, i - 1)),
                   SubSeq(xs, i, Len(xs)))

(* Keys that f makes equal: the last one counts, or they are combined.     *)
MapKeys(t, f) == FromArray([i \in DOMAIN Entries(t) |-> <<f[Entries(t)[i][1]], Entries(t)[i][2]>>])

MapKeysWith(t, f) ==
    FromArrayWith([i \in DOMAIN Entries(t) |-> <<f[Entries(t)[i][1]], Entries(t)[i][2]>>])

NotOrdered(k, xs) == xs # <<>> /\ k >= Head(xs)[1]

(* A tree of about s of the elements, the rest if they rise so far, and    *)
(* the rest if they do not.                                                *)
RECURSIVE CreateList(_, _)
CreateList(s, xs) ==
    IF xs = <<>> THEN <<Empty, <<>>, <<>>>>
    ELSE IF s = 1 THEN
        LET leaf == Leaf(Head(xs)[1], Head(xs)[2]) IN
        IF NotOrdered(Head(xs)[1], Tail(xs)) THEN <<leaf, <<>>, Tail(xs)>>
        ELSE <<leaf, Tail(xs), <<>>>>
    ELSE
        LET res == CreateList(s \div 2, xs)
            ys == res[2]
        IN  IF ys = <<>> THEN res
            ELSE IF Len(ys) = 1
              THEN <<InsertMax(ys[1][1], ys[1][2], res[1]), <<>>, res[3]>>
            ELSE IF NotOrdered(ys[1][1], Tail(ys)) THEN <<res[1], <<>>, ys>>
            ELSE LET right == CreateList(s \div 2, Tail(ys)) IN
                 <<Link(ys[1][1], ys[1][2], res[1], right[1]), right[2], right[3]>>

(* The loop of fromList, with t built so far and xs to go.                 *)
RECURSIVE Grow(_, _, _)
Grow(s, t, xs) ==
    IF Len(xs) = 1 THEN InsertMax(xs[1][1], xs[1][2], t)
    ELSE IF NotOrdered(xs[1][1], Tail(xs)) THEN InsertAll(t, xs)
    ELSE LET res == CreateList(s, Tail(xs))
             m == Link(xs[1][1], xs[1][2], t, res[1])
         IN  IF res[2] = <<>> THEN InsertAll(m, res[3]) ELSE Grow(2 * s, m, res[2])

FromList(xs) ==
    IF xs = <<>> THEN Empty
    ELSE IF Len(xs) = 1 THEN Leaf(xs[1][1], xs[1][2])
    ELSE IF xs[1][1] >= xs[2][1] THEN InsertAll(Empty, xs)
    ELSE Grow(1, Leaf(xs[1][1], xs[1][2]), Tail(xs))

RECURSIVE CreateAscList(_, _)
CreateAscList(s, xs) ==
    IF xs = <<>> THEN <<Empty, xs>>
    ELSE IF s = 1 THEN <<Leaf(xs[1][1], xs[1][2]), Tail(xs)>>
    ELSE LET res == CreateAscList(s \div 2, xs)
             ys == res[2]
         IN  IF ys = <<>> THEN res
             ELSE LET right == CreateAscList(s \div 2, Tail(ys)) IN
                  <<Link(ys[1][1], ys[1][2], res[1], right[1]), right[2]>>

RECURSIVE GrowAsc(_, _, _)
GrowAsc(s, t, xs) ==
    IF xs = <<>> THEN t
    ELSE LET res == CreateAscList(s, Tail(xs)) IN
         GrowAsc(2 * s, Link(xs[1][1], xs[1][2], t, res[1]), res[2])

FromDistinctAscList(xs) ==
    IF xs = <<>> THEN Empty ELSE GrowAsc(1, Leaf(xs[1][1], xs[1][2]), Tail(xs))
=============================================================================
