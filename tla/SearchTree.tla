----------------------------- MODULE SearchTree -----------------------------
(***************************************************************************)
(* The trees of OrdMap (collections/core/src/ord-map.ts): their nodes, and *)
(* how they are balanced. Module OrdMap has the operations on them.        *)
(***************************************************************************)
EXTENDS Naturals

None == <<>>
Some(x) == <<x>>

(* A tree is Empty, or a Bin with a key, its value and two trees.          *)
Empty == [size |-> 0]

IsEmpty(t) == t.size = 0

Bin(size, k, v, l, r) == [size |-> size, key |-> k, value |-> v, lhs |-> l, rhs |-> r]

Leaf(k, v) == Bin(1, k, v, Empty, Empty)

MkBin(k, v, l, r) == Bin(1 + l.size + r.size, k, v, l, r)

-----------------------------------------------------------------------------
(* Balancing: the size of a subtree is at most Delta times the size of its *)
(* sibling, unless they have one element at most. A rotation is single or  *)
(* double, depending on Ratio.                                             *)

Delta == 3
Ratio == 2

(* The left subtree may have grown, or the right one shrunk, by one.       *)
BalanceL(k, x, l, r) ==
    IF (l.size <= 1 /\ r.size = 0) \/ l.size <= Delta * r.size
      THEN MkBin(k, x, l, r)
    ELSE IF r.size = 0 /\ l.lhs.size = 0
      THEN Bin(3, l.rhs.key, l.rhs.value, Leaf(l.key, l.value), Leaf(k, x))
    ELSE IF l.rhs.size < Ratio * l.lhs.size
      THEN MkBin(l.key, l.value, l.lhs, MkBin(k, x, l.rhs, r))
    ELSE MkBin(l.rhs.key, l.rhs.value, MkBin(l.key, l.value, l.lhs, l.rhs.lhs),
                                       MkBin(k, x, l.rhs.rhs, r))

BalanceR(k, x, l, r) ==
    IF (r.size <= 1 /\ l.size = 0) \/ r.size <= Delta * l.size
      THEN MkBin(k, x, l, r)
    ELSE IF l.size = 0 /\ r.rhs.size = 0
      THEN Bin(3, r.lhs.key, r.lhs.value, Leaf(k, x), Leaf(r.key, r.value))
    ELSE IF r.lhs.size < Ratio * r.rhs.size
      THEN MkBin(r.key, r.value, MkBin(k, x, l, r.lhs), r.rhs)
    ELSE MkBin(r.lhs.key, r.lhs.value, MkBin(k, x, l, r.lhs.lhs),
                                       MkBin(r.key, r.value, r.lhs.rhs, r.rhs))

(* t after one of its subtrees became l or r: t itself if it is what it    *)
(* was.                                                                    *)
GrownL(t, l) == IF l = t.lhs THEN t ELSE BalanceL(t.key, t.value, l, t.rhs)

GrownR(t, r) == IF r = t.rhs THEN t ELSE BalanceR(t.key, t.value, t.lhs, r)

ShrunkL(t, l) == IF l = t.lhs THEN t ELSE BalanceR(t.key, t.value, l, t.rhs)

(* Mutant: it balances the side that did not shrink.                       *)
ShrunkRSwapped(t, r) == IF r = t.rhs THEN t ELSE BalanceR(t.key, t.value, t.lhs, r)

ShrunkR(t, r) == IF r = t.rhs THEN t ELSE BalanceL(t.key, t.value, t.lhs, r)
=============================================================================
