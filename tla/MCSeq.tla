------------------------------- MODULE MCSeq -------------------------------
(***************************************************************************)
(* A Seq made of two arrays, of the elements 1, 2, 3... in this order, and *)
(* changed one element at a time, and on it all operations of Seq,         *)
(* compared with the sequence it stands for.                               *)
(***************************************************************************)
EXTENDS Seq, Traverse, TLC

CONSTANTS
    Lengths,    \* The lengths of the two arrays
    MaxArray,   \* The length of the longest array that is built alone
    MaxInsert,  \* The size up to which they are added in the middle
    MaxSize,    \* The size up to which elements are added
    MaxPair,    \* The size of the sequences that are combined with it
    Width       \* The number of elements traverse handles without a cut

VARIABLE seq

(* The elements are numbered again after an operation, by map.             *)
Shifted(t, from, by) ==
    Map(t, [a \in 0..seq.size |-> IF a = 0 THEN from ELSE IF a >= from THEN a + by ELSE a])

Upwards(from, until) == [i \in 1..until - from |-> from + i]

Init ==
    \E m, n \in Lengths :
        /\ m + n <= MaxSize
        /\ seq = Concat(FromArray(Upwards(0, m)), FromArray(Upwards(m, m + n)))

Inserted(i) == Shifted(InsertAt(seq, i, 0), i + 1, 1)

Next ==
    \/ /\ seq.size < MaxSize
       /\ seq' \in {Inserted(0), AppendItem(seq, Elem(seq.size + 1))}
    \/ /\ seq.size > 0
       /\ seq' \in {Shifted(TailOf(seq), 1, -1), InitOf(seq)}
    \/ \E i \in 1..seq.size - 1 :
          /\ seq.size < MaxInsert
          /\ InsertAt(seq, i, 0) # IndexOutOfBounds
          /\ seq' = Inserted(i)

Spec == Init /\ [][Next]_seq

-----------------------------------------------------------------------------
(* What a finger tree is: all items of a level are of the same depth,      *)
(* digits and nodes are not longer than they may be, sizes are exact.      *)

RECURSIVE IsItem(_, _)
IsItem(x, depth) ==
    IF depth = 0 THEN IsElem(x) /\ x.size = 1
    ELSE /\ ~IsElem(x) /\ Len(x.items) \in 2..3 /\ x.size = Total(x.items)
         /\ \A j \in DOMAIN x.items : IsItem(x.items[j], depth - 1)

IsDigit(xs, depth) == Len(xs) \in 1..4 /\ \A j \in DOMAIN xs : IsItem(xs[j], depth)

RECURSIVE IsTree(_, _)
IsTree(t, depth) ==
    CASE t.tag = "Empty" -> t.size = 0
      [] t.tag = "Single" -> t.size = t.value.size /\ IsItem(t.value, depth)
      [] t.tag = "Deep" ->
            /\ IsDigit(t.pfx, depth) /\ IsTree(t.deeper, depth + 1) /\ IsDigit(t.sfx, depth)
            /\ t.size = Total(t.pfx) + t.deeper.size + Total(t.sfx)
      [] OTHER -> FALSE

(* A tree that stands for a sequence of elements.                          *)
Is(t, es) == IsTree(t, 0) /\ Elements(t) = es

-----------------------------------------------------------------------------
(* Where insertAt throws although the index is one of the sequence: within *)
(* the second of three items of a node of nodes.                           *)
RECURSIVE InSecondOfThree(_, _)
InSecondOfThree(x, idx) ==
    /\ ~IsElem(x) /\ ~IsElem(x.items[1])
    /\ LET j == At(x.items, idx)
           p == GetDigit(x.items, idx)
       IN  (j = 2 /\ Len(x.items) = 3) \/ InSecondOfThree(p.value, p.idx)

(* The items on the way to an index, from the tree down: of each deeper    *)
(* tree, the one that holds it.                                            *)
RECURSIVE HolderIn(_, _)
HolderIn(t, idx) ==
    LET sp == Total(t.pfx) IN
    IF t.tag = "Deep" /\ idx >= sp /\ idx < sp + t.deeper.size
      THEN HolderIn(t.deeper, idx - sp) ELSE GetTree(t, idx)

Misjudged(t, idx) == LET p == HolderIn(t, idx) IN InSecondOfThree(p.value, p.idx)

(* Where the second part of splitAt gets a wrong size: in the second of    *)
(* two items of a node, below a deeper tree.                               *)
RECURSIVE Missized(_, _)
Missized(t, idx) ==
    /\ t.tag = "Deep"
    /\ idx >= Total(t.pfx) /\ idx < Total(t.pfx) + t.deeper.size
    /\ LET p == GetTree(t.deeper, idx - Total(t.pfx)) IN
       \/ ~IsElem(p.value.items[1]) /\ Len(p.value.items) = 2 /\ At(p.value.items, p.idx) = 2
       \/ Missized(t.deeper, idx - Total(t.pfx))

-----------------------------------------------------------------------------
(* Every operation does to a tree what it says it does to a sequence.      *)

Es == Upwards(0, seq.size)

EndsRight ==
    /\ Is(seq, Es) /\ ElementsR(seq) = Reversed(Es)
    /\ Is(PrependItem(Elem(0), seq), <<0>> \o Es)
    /\ Is(AppendItem(seq, Elem(0)), Append(Es, 0))
    /\ Is(Reverse(seq), Reversed(Es))
    /\ Is(Map(seq, [a \in 1..seq.size |-> 2 * a]), [i \in 1..seq.size |-> 2 * i])
    /\ View(seq) = None <=> seq = Empty
    /\ seq # Empty =>
          /\ {HeadOf(seq), View(seq)[1]} = {Elem(1)} /\ Is(TailOf(seq), Tail(Es))
          /\ {LastOf(seq), ViewR(seq)[2]} = {Elem(seq.size)} /\ Is(InitOf(seq), SE!Front(Es))

CutsRight ==
    \A i \in -1..seq.size + 1 :
        LET j == Max({0, Min({i, seq.size})})
            Left == First(Es, j)
            Right == From(Es, j + 1)
            parts == SplitAt(seq, i)
        IN  /\ Is(Take(seq, i), Left) /\ Is(Drop(seq, i), Right)
            /\ Is(TakeRight(seq, seq.size - i), Right) /\ Is(DropRight(seq, seq.size - i), Left)
            /\ Is(Slice(seq, i, 2 * i), SubSeq(Es, j + 1, Max({0, Min({2 * i, seq.size})})))
            /\ Is(parts[1], Left) /\ Elements(parts[2]) = Right
            /\ IsTree(parts[2], 0) <=> ~(i \in 1..seq.size - 1 /\ Missized(seq, i))

PlacesRight ==
    /\ \A i \in {-1, seq.size} :
          {Get(seq, i), ModifyAt(seq, i, 0), RemoveAt(seq, i)} = {IndexOutOfBounds}
    /\ \A i \in {-1, seq.size + 1} : InsertAt(seq, i, 0) = IndexOutOfBounds
    /\ \A i \in 0..seq.size - 1 :
          /\ Get(seq, i) = i + 1
          /\ Is(ModifyAt(seq, i, 0), [Es EXCEPT ![i + 1] = 0])
          /\ Elements(RemoveAt(seq, i)) = SE!RemoveAt(Es, i + 1)
          /\ Missized(seq, i) \/ IsTree(RemoveAt(seq, i), 0)
    /\ \A i \in 0..seq.size :
          IF i \in 1..seq.size - 1 /\ Misjudged(seq, i)
            THEN InsertAt(seq, i, 0) = IndexOutOfBounds
            ELSE Is(InsertAt(seq, i, 0), SE!InsertAt(Es, i + 1, 0))

(* Two sequences: every length of the second one, in the shape that an     *)
(* array gives it and in the shape that an iterator does.                  *)
PairRight ==
    \A n \in 0..MaxPair :
        LET fs == [i \in 1..n |-> -i] IN
        \A t \in {FromArray(fs), FromIterator(fs)} :
            /\ Is(t, fs)
            /\ Is(Concat(seq, t), Es \o fs) /\ Is(Concat(t, seq), fs \o Es)
            /\ Zip(seq, t) = [i \in 1..Min({n, seq.size}) |-> <<i, -i>>]

(* The predicates accept the elements up to one, and those after it.       *)
PredicatesRight ==
    \A k \in {0, 1, seq.size \div 2, seq.size - 1, seq.size} \cap 0..seq.size :
        LET P == 1..k
            Q == k + 1..seq.size
            NoneOf(S) == FindIndex(seq, S) = None /\ FindIndexRight(seq, S) = None
        IN  /\ P = {} => NoneOf(P)
            /\ P # {} => FindIndex(seq, P) = Some(0) /\ FindIndexRight(seq, P) = Some(k - 1)
            /\ Q # {} => FindIndex(seq, Q) = Some(k) /\ FindIndexRight(seq, Q) = Some(seq.size - 1)
            /\ \A t \in {TakeWhile(seq, P), DropWhileRight(seq, Q), Filter(seq, P), CollectWhile(seq, P)} :
                  Is(t, First(Es, k))
            /\ \A t \in {DropWhile(seq, P), TakeWhileRight(seq, Q), Partition(seq, P)[2]} :
                  Is(t, From(Es, k + 1))
            /\ \A parts \in {Span(seq, P), SpanRight(seq, Q), Partition(seq, P)} :
                  Elements(parts[1]) = First(Es, k) /\ Elements(parts[2]) = From(Es, k + 1)

WholeRight ==
    /\ seq = Empty => \A n \in 0..MaxArray :
          \A t \in {FromArray(Upwards(0, n)), FromIterator(Upwards(0, n))} : Is(t, Upwards(0, n))
    /\ Is(FlatMap(seq, [a \in 1..seq.size |-> <<a, -a>>]),
          SE!FlattenSeq([i \in 1..seq.size |-> <<i, -i>>]))
    /\ Is(Intersperse(seq, 0), [i \in 1..2 * seq.size - 1 |-> IF i % 2 = 1 THEN (i + 1) \div 2 ELSE 0])
    /\ Len(Tails(seq)) = seq.size + 1
    /\ \A i \in 1..seq.size + 1 : Is(Tails(seq)[i], From(Es, i))
    /\ seq = Empty => \A n \in 0..MaxArray : Visits(Width, 0, n) = Indices(0, n)

(* Every operation does to a Seq what it says it does to a sequence, and   *)
(* returns a finger tree whose sizes are exact, but for two cases of nodes *)
(* two levels down, which the property names: an insertAt that throws and  *)
(* a splitAt whose second part counts elements that it does not have.      *)
ActsAsSequence ==
    EndsRight /\ CutsRight /\ PlacesRight /\ PairRight /\ PredicatesRight /\ WholeRight

(* traversableIdentity of the laws of Traversable, for Chunk: a traversal  *)
(* runs the effect of every element once, and in order.                    *)
ChunkVisitsEachOnce == ChunkVisits(Width, 0, seq.size) = Indices(0, seq.size)
=============================================================================
