--------------------------- MODULE OrdMapFunctions ---------------------------
(***************************************************************************)
(* The operations of OrdMap as functions over the valid trees of every     *)
(* size, and what they make of a dictionary: the language of the theorems  *)
(* of DataProofs, which tlapm cannot state of RECURSIVE operators. op is a *)
(* record of functions, one for each operation, and a definition called    *)
(* ...Step is what the operation does with a tree if those functions are   *)
(* what it calls, itself among them. MCOrdMap has TLC compare op with the  *)
(* operators of OrdMap.                                                    *)
(***************************************************************************)
EXTENDS SearchTree, Sequences

(* Balancing.                                                              *)

InsertMaxStep(op, k, x, t) ==
    IF IsEmpty(t) THEN Leaf(k, x)
    ELSE BalanceR(t.key, t.value, t.lhs, op.insertMax[<<k, x, t.rhs>>])

InsertMinStep(op, k, x, t) ==
    IF IsEmpty(t) THEN Leaf(k, x)
    ELSE BalanceL(t.key, t.value, op.insertMin[<<k, x, t.lhs>>], t.rhs)

MinViewStep(op, t) ==
    IF IsEmpty(t.lhs) THEN [k |-> t.key, v |-> t.value, m |-> t.rhs]
    ELSE LET view == op.minView[t.lhs] IN
         [view EXCEPT !.m = BalanceR(t.key, t.value, @, t.rhs)]

MaxViewStep(op, t) ==
    IF IsEmpty(t.rhs) THEN [k |-> t.key, v |-> t.value, m |-> t.lhs]
    ELSE LET view == op.maxView[t.rhs] IN
         [view EXCEPT !.m = BalanceL(t.key, t.value, t.lhs, @)]

(* The tree of l and r, which are balanced with each other.                *)
GlueStep(op, l, r) ==
    IF IsEmpty(l) THEN r
    ELSE IF IsEmpty(r) THEN l
    ELSE IF l.size > r.size
      THEN LET view == op.maxView[l] IN BalanceR(view.k, view.v, view.m, r)
      ELSE LET view == op.minView[r] IN BalanceL(view.k, view.v, l, view.m)

(* The same of trees of any sizes, with and without a key in between.      *)
LinkStep(op, k, x, l, r) ==
    IF IsEmpty(l) THEN op.insertMin[<<k, x, r>>]
    ELSE IF IsEmpty(r) THEN op.insertMax[<<k, x, l>>]
    ELSE IF Delta * l.size < r.size
      THEN BalanceL(r.key, r.value, op.link[<<k, x, l, r.lhs>>], r.rhs)
    ELSE IF Delta * r.size < l.size
      THEN BalanceR(l.key, l.value, l.lhs, op.link[<<k, x, l.rhs, r>>])
    ELSE MkBin(k, x, l, r)

Link2Step(op, l, r) ==
    IF IsEmpty(l) THEN r
    ELSE IF IsEmpty(r) THEN l
    ELSE IF Delta * l.size < r.size
      THEN BalanceL(r.key, r.value, op.link2[<<l, r.lhs>>], r.rhs)
    ELSE IF Delta * r.size < l.size
      THEN BalanceR(l.key, l.value, l.lhs, op.link2[<<l.rhs, r>>])
    ELSE op.glue[<<l, r>>]

-----------------------------------------------------------------------------
(* One key.                                                                *)

(* t after both of its subtrees became l and r.                            *)
Linked(op, t, l, r) ==
    IF l = t.lhs /\ r = t.rhs THEN t ELSE op.link[<<t.key, t.value, l, r>>]

InsertStep(op, t, k, v) ==
    IF IsEmpty(t) THEN Leaf(k, v)
    ELSE IF k < t.key THEN GrownL(t, op.insert[<<t.lhs, k, v>>])
    ELSE IF k > t.key THEN GrownR(t, op.insert[<<t.rhs, k, v>>])
    ELSE Bin(t.size, k, v, t.lhs, t.rhs)

(* Does not replace a value.                                               *)
InsertRStep(op, t, k, v) ==
    IF IsEmpty(t) THEN Leaf(k, v)
    ELSE IF k < t.key THEN GrownL(t, op.insertR[<<t.lhs, k, v>>])
    ELSE IF k > t.key THEN GrownR(t, op.insertR[<<t.rhs, k, v>>])
    ELSE t

RemoveStep(op, t, k) ==
    IF IsEmpty(t) THEN Empty
    ELSE IF k < t.key THEN ShrunkL(t, op.remove[<<t.lhs, k>>])
    ELSE IF k > t.key THEN ShrunkR(t, op.remove[<<t.rhs, k>>])
    ELSE op.glue[<<t.lhs, t.rhs>>]

(* ov is what the function returns, whether k has a value or not.          *)
AlterStep(op, t, k, ov) ==
    IF IsEmpty(t) THEN (IF ov = None THEN Empty ELSE Leaf(k, ov[1]))
    ELSE IF k < t.key THEN Linked(op, t, op.alter[<<t.lhs, k, ov>>], t.rhs)
    ELSE IF k > t.key THEN Linked(op, t, t.lhs, op.alter[<<t.rhs, k, ov>>])
    ELSE IF ov = None THEN op.link2[<<t.lhs, t.rhs>>]
    ELSE Bin(t.size, t.key, ov[1], t.lhs, t.rhs)

LookupStep(op, t, k) ==
    IF IsEmpty(t) THEN None
    ELSE IF k < t.key THEN op.lookup[<<t.lhs, k>>]
    ELSE IF k > t.key THEN op.lookup[<<t.rhs, k>>]
    ELSE Some(t.value)

(* The greatest key below k and the least one above k, or best if there is *)
(* none; LE and GE accept k itself.                                        *)
LookupLTStep(op, t, k, best) ==
    IF IsEmpty(t) THEN best
    ELSE IF k <= t.key THEN op.lookupLT[<<t.lhs, k, best>>]
    ELSE op.lookupLT[<<t.rhs, k, Some(t.key)>>]

LookupGTStep(op, t, k, best) ==
    IF IsEmpty(t) THEN best
    ELSE IF k < t.key THEN op.lookupGT[<<t.lhs, k, Some(t.key)>>]
    ELSE op.lookupGT[<<t.rhs, k, best>>]

LookupLEStep(op, t, k, best) ==
    IF IsEmpty(t) THEN best
    ELSE IF k < t.key THEN op.lookupLE[<<t.lhs, k, best>>]
    ELSE IF k = t.key THEN Some(t.key)
    ELSE op.lookupLE[<<t.rhs, k, Some(t.key)>>]

LookupGEStep(op, t, k, best) ==
    IF IsEmpty(t) THEN best
    ELSE IF k < t.key THEN op.lookupGE[<<t.lhs, k, Some(t.key)>>]
    ELSE IF k = t.key THEN Some(t.key)
    ELSE op.lookupGE[<<t.rhs, k, best>>]

-----------------------------------------------------------------------------
(* Positions, from 0.                                                      *)

ElemAtStep(op, t, i) ==
    IF i = t.lhs.size THEN t.key
    ELSE IF i < t.lhs.size THEN op.elemAt[<<t.lhs, i>>]
    ELSE op.elemAt[<<t.rhs, i - t.lhs.size - 1>>]

KeyIndexStep(op, t, s, k) ==
    IF IsEmpty(t) THEN None
    ELSE IF k < t.key THEN op.keyIndex[<<t.lhs, s, k>>]
    ELSE IF k > t.key THEN op.keyIndex[<<t.rhs, s + t.lhs.size + 1, k>>]
    ELSE Some(s + t.lhs.size)

TakeStep(op, t, i) ==
    IF i = 0 \/ IsEmpty(t) THEN Empty
    ELSE IF i < t.lhs.size THEN op.take[<<t.lhs, i>>]
    ELSE IF i > t.lhs.size
      THEN op.link[<<t.key, t.value, t.lhs, op.take[<<t.rhs, i - t.lhs.size - 1>>]>>]
    ELSE t.lhs

DropStep(op, t, i) ==
    IF i = 0 THEN t
    ELSE IF IsEmpty(t) THEN Empty
    ELSE IF i < t.lhs.size
      THEN op.link[<<t.key, t.value, op.drop[<<t.lhs, i>>], t.rhs>>]
    ELSE IF i > t.lhs.size THEN op.drop[<<t.rhs, i - t.lhs.size - 1>>]
    ELSE op.insertMin[<<t.key, t.value, t.rhs>>]

SplitAtStep(op, t, i) ==
    IF i = 0 THEN <<Empty, t>>
    ELSE IF IsEmpty(t) THEN <<Empty, Empty>>
    ELSE IF i < t.lhs.size
      THEN LET p == op.splitAt[<<t.lhs, i>>] IN
           <<p[1], op.link[<<t.key, t.value, p[2], t.rhs>>]>>
    ELSE IF i > t.lhs.size
      THEN LET p == op.splitAt[<<t.rhs, i - t.lhs.size - 1>>] IN
           <<op.link[<<t.key, t.value, t.lhs, p[1]>>], p[2]>>
    ELSE <<t.lhs, op.insertMin[<<t.key, t.value, t.rhs>>]>>

RemoveAtStep(op, t, i) ==
    IF i = t.lhs.size THEN op.glue[<<t.lhs, t.rhs>>]
    ELSE IF i < t.lhs.size
      THEN BalanceR(t.key, t.value, op.removeAt[<<t.lhs, i>>], t.rhs)
      ELSE BalanceL(t.key, t.value, t.lhs, op.removeAt[<<t.rhs, i - t.lhs.size - 1>>])

-----------------------------------------------------------------------------
(* Several keys, two trees.                                                *)

(* Below k, the value of k, and above k.                                   *)
SplitLookupStep(op, t, k) ==
    IF IsEmpty(t) THEN [lt |-> Empty, value |-> None, gt |-> Empty]
    ELSE IF k < t.key
      THEN LET s == op.splitLookup[<<t.lhs, k>>] IN
           [s EXCEPT !.gt = op.link[<<t.key, t.value, @, t.rhs>>]]
    ELSE IF k > t.key
      THEN LET s == op.splitLookup[<<t.rhs, k>>] IN
           [s EXCEPT !.lt = op.link[<<t.key, t.value, t.lhs, @>>]]
    ELSE [lt |-> t.lhs, value |-> Some(t.value), gt |-> t.rhs]

UnionStep(op, a, b) ==
    IF IsEmpty(a) THEN b
    ELSE IF IsEmpty(b) THEN a
    ELSE IF b.size = 1 THEN op.insertR[<<a, b.key, b.value>>]
    ELSE IF a.size = 1 THEN op.insert[<<b, a.key, a.value>>]
    ELSE LET s == op.splitLookup[<<b, a.key>>] IN
         Linked(op, a, op.union[<<a.lhs, s.lt>>], op.union[<<a.rhs, s.gt>>])

DifferenceStep(op, a, b) ==
    IF IsEmpty(a) THEN Empty
    ELSE IF IsEmpty(b) THEN a
    ELSE LET s == op.splitLookup[<<a, b.key>>]
             l == op.difference[<<s.lt, b.lhs>>]
             r == op.difference[<<s.gt, b.rhs>>]
         IN  IF l.size + r.size = a.size THEN a ELSE op.link2[<<l, r>>]

IntersectStep(op, a, b) ==
    IF IsEmpty(a) \/ IsEmpty(b) THEN Empty
    ELSE LET s == op.splitLookup[<<b, a.key>>]
             l == op.intersect[<<a.lhs, s.lt>>]
             r == op.intersect[<<a.rhs, s.gt>>]
         IN  IF s.value = None THEN op.link2[<<l, r>>] ELSE Linked(op, a, l, r)

FilterStep(op, t, p) ==
    IF IsEmpty(t) THEN Empty
    ELSE IF t.size = 1 THEN (IF t.key \in p THEN t ELSE Empty)
    ELSE LET l == op.filter[<<t.lhs, p>>]
             r == op.filter[<<t.rhs, p>>]
         IN  IF t.key \in p THEN Linked(op, t, l, r) ELSE op.link2[<<l, r>>]

PartitionStep(op, t, p) ==
    IF IsEmpty(t) THEN <<Empty, Empty>>
    ELSE LET l == op.partition[<<t.lhs, p>>]
             r == op.partition[<<t.rhs, p>>]
         IN  IF t.key \in p
               THEN <<op.link[<<t.key, t.value, l[1], r[1]>>], op.link2[<<l[2], r[2]>>]>>
               ELSE <<op.link2[<<l[1], r[1]>>], op.link[<<t.key, t.value, l[2], r[2]>>]>>

Middle(xs) == (Len(xs) \div 2) + 1

FromDistinctAscArrayStep(op, xs) ==
    IF xs = <<>> THEN Empty
    ELSE MkBin(xs[Middle(xs)][1], xs[Middle(xs)][2],
               op.fromDistinctAscArray[SubSeq(xs, 1, Middle(xs) - 1)],
               op.fromDistinctAscArray[SubSeq(xs, Middle(xs) + 1, Len(xs))])

-----------------------------------------------------------------------------
(* The valid trees of all sizes, with values in X: V is the set of them,   *)
(* and entries what each of them holds, as pairs of a key and its value.   *)

Balanced(m, n) == m + n <= 1 \/ (m <= Delta * n /\ n <= Delta * m)

Below(es, k) == \A e \in es : e[1] < k
Above(es, k) == \A e \in es : k < e[1]
Precede(ds, es) == \A d \in ds, e \in es : d[1] < e[1]

SearchTrees(K, V, X, entries) ==
    /\ K \subseteq Nat
    /\ entries \in [V -> SUBSET (K \X X)]
    /\ Empty \in V /\ entries[Empty] = {}
    /\ \A t \in V : t.size \in Nat
    /\ \A t \in V \ {Empty} : \E k \in K, x \in X, l \in V, r \in V :
          /\ t = MkBin(k, x, l, r)
          /\ Balanced(l.size, r.size) /\ Below(entries[l], k) /\ Above(entries[r], k)
    /\ \A k \in K, x \in X, l \in V, r \in V :
          Balanced(l.size, r.size) /\ Below(entries[l], k) /\ Above(entries[r], k) =>
             /\ MkBin(k, x, l, r) \in V
             /\ entries[MkBin(k, x, l, r)] = entries[l] \cup {<<k, x>>} \cup entries[r]

(* t is a valid tree with n entries, es.                                   *)
Holds(V, entries, t, n, es) == t \in V /\ t.size = n /\ entries[t] = es

(* The recursive operations as functions over the trees: op has a function *)
(* for each of them, defined by what the operation does at a node.         *)
Balancing(K, V, X, op) ==
    /\ \A k \in K, x \in X, t \in V :
          /\ op.insertMax[<<k, x, t>>] = InsertMaxStep(op, k, x, t)
          /\ op.insertMin[<<k, x, t>>] = InsertMinStep(op, k, x, t)
    /\ \A t \in V \ {Empty} :
          op.minView[t] = MinViewStep(op, t) /\ op.maxView[t] = MaxViewStep(op, t)
    /\ \A l \in V, r \in V :
          /\ op.glue[<<l, r>>] = GlueStep(op, l, r)
          /\ op.link2[<<l, r>>] = Link2Step(op, l, r)
    /\ \A k \in K, x \in X, l \in V, r \in V :
          op.link[<<k, x, l, r>>] = LinkStep(op, k, x, l, r)

(* The same of the operations on one key, with op for those above...       *)
OnKeys(K, V, X, op) ==
    /\ \A t \in V, k \in K, v \in X :
          /\ op.insert[<<t, k, v>>] = InsertStep(op, t, k, v)
          /\ op.insertR[<<t, k, v>>] = InsertRStep(op, t, k, v)
    /\ \A t \in V, k \in K :
          /\ op.remove[<<t, k>>] = RemoveStep(op, t, k)
          /\ op.lookup[<<t, k>>] = LookupStep(op, t, k)
          /\ op.splitLookup[<<t, k>>] = SplitLookupStep(op, t, k)
    /\ \A t \in V, k \in K, ov \in {None} \cup {Some(x) : x \in X} :
          op.alter[<<t, k, ov>>] = AlterStep(op, t, k, ov)

(* ... on the keys next to one, with or without one found above...         *)
OnNeighbours(K, V, op) ==
    \A t \in V, k \in K, best \in {None} \cup {Some(j) : j \in K} :
       /\ op.lookupLT[<<t, k, best>>] = LookupLTStep(op, t, k, best)
       /\ op.lookupGT[<<t, k, best>>] = LookupGTStep(op, t, k, best)
       /\ op.lookupLE[<<t, k, best>>] = LookupLEStep(op, t, k, best)
       /\ op.lookupGE[<<t, k, best>>] = LookupGEStep(op, t, k, best)

(* ... on the first N positions, where keyIndex counts on from s...        *)
OnPlaces(K, V, N, op) ==
    /\ \A t \in V, i \in 0..N :
          /\ op.take[<<t, i>>] = TakeStep(op, t, i)
          /\ op.drop[<<t, i>>] = DropStep(op, t, i)
          /\ op.splitAt[<<t, i>>] = SplitAtStep(op, t, i)
    /\ \A t \in V, i \in 0..N : i < t.size =>
          /\ op.elemAt[<<t, i>>] = ElemAtStep(op, t, i)
          /\ op.removeAt[<<t, i>>] = RemoveAtStep(op, t, i)
    /\ \A t \in V, s \in 0..N, k \in K : s + t.size <= N =>
          op.keyIndex[<<t, s, k>>] = KeyIndexStep(op, t, s, k)

(* ... on many...                                                          *)
OnMaps(K, V, op) ==
    /\ \A a \in V, b \in V :
          /\ op.union[<<a, b>>] = UnionStep(op, a, b)
          /\ op.difference[<<a, b>>] = DifferenceStep(op, a, b)
          /\ op.intersect[<<a, b>>] = IntersectStep(op, a, b)
    /\ \A t \in V, p \in SUBSET K :
          /\ op.filter[<<t, p>>] = FilterStep(op, t, p)
          /\ op.partition[<<t, p>>] = PartitionStep(op, t, p)

(* ... and on arrays whose keys rise, of which A has the halves of each.   *)
OnArrays(K, X, A, op) ==
    \A xs \in A :
       /\ xs \in Seq(K \X X)
       /\ \A i \in DOMAIN xs, j \in DOMAIN xs : i < j => xs[i][1] < xs[j][1]
       /\ xs # <<>> =>
             SubSeq(xs, 1, Middle(xs) - 1) \in A /\ SubSeq(xs, Middle(xs) + 1, Len(xs)) \in A
       /\ op.fromDistinctAscArray[xs] = FromDistinctAscArrayStep(op, xs)

(* What a dictionary, a set of pairs of a key and its value, becomes.      *)
Has(es, k) == \E e \in es : e[1] = k

Without(es, k) == {e \in es : e[1] # k}

Put(es, k, v) == Without(es, k) \cup {<<k, v>>}

PutNew(es, k, v) == IF Has(es, k) THEN es ELSE es \cup {<<k, v>>}

Under(es, k) == {e \in es : e[1] < k}

Over(es, k) == {e \in es : k < e[1]}

Among(es, p) == {e \in es : e[1] \in p}

Outside(es, ds) == {e \in es : ~ Has(ds, e[1])}

Inside(es, ds) == {e \in es : Has(ds, e[1])}

UpTo(es, k) == {e \in es : e[1] <= k}

From(es, k) == {e \in es : k <= e[1]}

(* o is the greatest, or the least, of the keys in es, or best if there is *)
(* none.                                                                   *)
Greatest(es, o, best) ==
    \/ es = {} /\ o = best
    \/ \E e \in es : o = Some(e[1]) /\ \A f \in es : f[1] <= e[1]

Least(es, o, best) ==
    \/ es = {} /\ o = best
    \/ \E e \in es : o = Some(e[1]) /\ \A f \in es : e[1] <= f[1]

(* u is a valid tree of the first i entries of t, or of all if it has less *)
(* than that.                                                              *)
HoldsFirst(V, entries, t, i, u) ==
    /\ u \in V /\ u.size = IF i < t.size THEN i ELSE t.size
    /\ entries[u] \subseteq entries[t] /\ Precede(entries[u], entries[t] \ entries[u])

(* o is the value that es has for k, if any, and m of its n entries have   *)
(* other keys.                                                             *)
Answers(X, es, k, o, m, n) ==
    \/ o = None /\ ~ Has(es, k) /\ m = n
    \/ \E x \in X : o = Some(x) /\ <<k, x>> \in es /\ m + 1 = n
=============================================================================
