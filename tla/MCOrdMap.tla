------------------------------ MODULE MCOrdMap ------------------------------
(***************************************************************************)
(* Two OrdMaps that grow and shrink one key at a time, and in every pair   *)
(* of them all operations of OrdMap, compared with a dictionary: a         *)
(* function from the keys to the values.                                   *)
(***************************************************************************)
EXTENDS OrdMap, TLC

CONSTANTS
    Keys,       \* Keys are natural numbers
    OtherKeys,  \* Those of the second map
    Inputs      \* The length of the arrays and lists to build maps from

ASSUME OrdMapAssumption == Keys \subseteq Nat /\ OtherKeys \subseteq Keys /\ Inputs \in Nat

VARIABLES map, other

vars == <<map, other>>

Init == map = Empty /\ other = Empty

Next ==
    \/ \E k \in Keys : map' \in {Insert(map, k, <<"m">>), Remove(map, k), Alter(map, k, None)}
                      /\ UNCHANGED other
    \/ \E k \in OtherKeys : other' \in {Insert(other, k, <<"o">>), Remove(other, k)}
                           /\ UNCHANGED map

Spec == Init /\ [][Next]_vars

-----------------------------------------------------------------------------
(* What a tree stands for.                                                 *)

KeysOf(t) == {Entries(t)[i][1] : i \in 1..Len(Entries(t))}

(* The dictionary of a sequence of entries, where the last one counts.     *)
Dict(xs) ==
    [k \in {xs[i][1] : i \in 1..Len(xs)} |->
        LET Of == {i \in 1..Len(xs) : xs[i][1] = k} IN xs[Max(Of)][2]]

DictOf(t) == Dict(Entries(t))

RECURSIVE RealSize(_)
RealSize(t) == IF IsEmpty(t) THEN 0 ELSE RealSize(t.lhs) + 1 + RealSize(t.rhs)

IsOrdered(t) == \A i \in 1..Len(Entries(t)) - 1 : Entries(t)[i][1] < Entries(t)[i + 1][1]

(* Both sides, and every size: isBalanced of the code compares the size of *)
(* the right side with itself, and hasValidSize is asked of the root only. *)
RECURSIVE IsBalanced(_)
IsBalanced(t) ==
    IsEmpty(t) \/
        /\ \/ t.lhs.size + t.rhs.size <= 1
           \/ t.lhs.size <= Delta * t.rhs.size /\ t.rhs.size <= Delta * t.lhs.size
        /\ t.size = RealSize(t)
        /\ IsBalanced(t.lhs) /\ IsBalanced(t.rhs)

IsValid(t) == IsOrdered(t) /\ IsBalanced(t)

-----------------------------------------------------------------------------
(* The theorems of DataProofs are about functions over valid trees. Over   *)
(* the trees of a few keys, with one value, TLC evaluates what the         *)
(* theorems suppose of them: the valid trees of MCOrdMap are those of      *)
(* OrdMapFunctions, and the operators of OrdMap are such functions.        *)

Functions == INSTANCE OrdMapFunctions

RECURSIVE TreesOf(_, _)
TreesOf(ks, x) ==
    IF ks = {} THEN {Empty}
    ELSE UNION {{t \in {MkBin(k, x, l, r) : l \in TreesOf({j \in ks : j < k}, x),
                                           r \in TreesOf({j \in ks : j > k}, x)} :
                   IsBalanced(t)} : k \in ks}

AllTrees(K, X) == UNION {TreesOf(ks, x) : ks \in SUBSET K, x \in X}

Operations(K, V, X, N, A) ==
    LET Best == {None} \cup {Some(k) : k \in K} IN
    [insertMax |-> [a \in K \X X \X V |-> InsertMax(a[1], a[2], a[3])],
     insertMin |-> [a \in K \X X \X V |-> InsertMin(a[1], a[2], a[3])],
     minView |-> [t \in V \ {Empty} |-> MinView(t)],
     maxView |-> [t \in V \ {Empty} |-> MaxView(t)],
     glue |-> [a \in V \X V |-> Glue(a[1], a[2])],
     link |-> [a \in K \X X \X V \X V |-> Link(a[1], a[2], a[3], a[4])],
     link2 |-> [a \in V \X V |-> Link2(a[1], a[2])],
     insert |-> [a \in V \X K \X X |-> Insert(a[1], a[2], a[3])],
     insertR |-> [a \in V \X K \X X |-> InsertR(a[1], a[2], a[3])],
     remove |-> [a \in V \X K |-> Remove(a[1], a[2])],
     lookup |-> [a \in V \X K |-> Lookup(a[1], a[2])],
     splitLookup |-> [a \in V \X K |-> SplitLookup(a[1], a[2])],
     alter |-> [a \in V \X K \X ({None} \cup {Some(x) : x \in X}) |-> Alter(a[1], a[2], a[3])],
     lookupLT |-> [a \in V \X K \X Best |-> LookupLT(a[1], a[2], a[3])],
     lookupGT |-> [a \in V \X K \X Best |-> LookupGT(a[1], a[2], a[3])],
     lookupLE |-> [a \in V \X K \X Best |-> LookupLE(a[1], a[2], a[3])],
     lookupGE |-> [a \in V \X K \X Best |-> LookupGE(a[1], a[2], a[3])],
     take |-> [a \in V \X (0..N) |-> Take(a[1], a[2])],
     drop |-> [a \in V \X (0..N) |-> Drop(a[1], a[2])],
     splitAt |-> [a \in V \X (0..N) |-> SplitAt(a[1], a[2])],
     elemAt |-> [a \in {b \in V \X (0..N) : b[2] < b[1].size} |-> ElemAt(a[1], a[2])],
     removeAt |-> [a \in {b \in V \X (0..N) : b[2] < b[1].size} |-> RemoveAt(a[1], a[2])],
     keyIndex |-> [a \in V \X (0..N) \X K |-> KeyIndex(a[1], a[2], a[3])],
     union |-> [a \in V \X V |-> Union(a[1], a[2])],
     difference |-> [a \in V \X V |-> Difference(a[1], a[2])],
     intersect |-> [a \in V \X V |-> Intersect(a[1], a[2])],
     filter |-> [a \in V \X SUBSET K |-> Filter(a[1], a[2])],
     partition |-> [a \in V \X SUBSET K |-> Partition(a[1], a[2])],
     fromDistinctAscArray |-> [xs \in A |-> FromDistinctAscArray(xs)]]

ASSUME OperatorsAreFunctions ==
    LET K == 1..5
        X == {<<"m">>}
        V == AllTrees(K, X)
        entries == [t \in V |-> {Entries(t)[i] : i \in DOMAIN Entries(t)}]
        N == 6
        A == {Entries(t) : t \in V}
        op == Operations(K, V, X, N, A)
    IN  /\ Functions!SearchTrees(K, V, X, entries)
        /\ Functions!Balancing(K, V, X, op)
        /\ Functions!OnKeys(K, V, X, op)
        /\ Functions!OnNeighbours(K, V, op)
        /\ Functions!OnPlaces(K, V, N, op)
        /\ Functions!OnMaps(K, V, op)
        /\ Functions!OnArrays(K, X, A, op)

-----------------------------------------------------------------------------
(* The inputs of the operations.                                           *)

Valued(ks) == [i \in DOMAIN ks |-> <<ks[i], <<i>>>>]

Rising == {Valued([i \in 1..n |-> 2 * i]) : n \in 0..Inputs}

(* A rising run, and then a key anywhere.                                  *)
Sequences == Rising \cup {Append(xs, <<k, <<0>>>>) : xs \in Rising, k \in 0..2 * Inputs}
                    \cup {Valued(ks) : ks \in UNION {[1..n -> 1..4] : n \in 0..4}}

Predicates == {{k \in Keys : k % 2 = 0}, {k \in Keys : k > 3}, Keys \ {4}}

(* A renaming that keeps the order, one that reverses it, and one that     *)
(* makes keys equal.                                                       *)
Renamings == {[k \in Keys |-> 2 * k], [k \in Keys |-> Max(Keys) - k], [k \in Keys |-> k \div 2]}

Falling == {SE!Reverse(xs) : xs \in Rising}

Places(t) == 0..t.size - 1

OfOne(t) ==
    UNION {{Adjust(t, k, <<"n">>), Update(t, k, None), Update(t, k, Some(<<"n">>)),
            Alter(t, k, Some(<<"n">>)), AlterF(t, k, None), AlterF(t, k, Some(<<"n">>)), InsertWith(t, k, <<"n">>), InsertWithR(t, k, <<"n">>),
            SplitLookup(t, k).lt, SplitLookup(t, k).gt} : k \in Keys}
    \cup UNION {{Take(t, i), Drop(t, i), SplitAt(t, i)[1], SplitAt(t, i)[2]}
                : i \in 0..t.size + 1}
    \cup UNION {{RemoveAt(t, i), ModifyAt(t, i, <<"n">>), UpdateAt(t, i, None), UpdateAt(t, i, Some(<<"n">>))}
                : i \in Places(t)}
    \cup UNION {{Filter(t, p), Partition(t, p)[1], Partition(t, p)[2], Collect(t, p, <<"n">>),
                 PartitionMap(t, p, <<"n">>, <<"o">>)[1], PartitionMap(t, p, <<"n">>, <<"o">>)[2]}
                : p \in Predicates}
    \cup {MapKeys(t, f) : f \in Renamings} \cup {MapKeysWith(t, f) : f \in Renamings}
    \cup IF IsEmpty(t) THEN {} ELSE {RemoveMin(t), RemoveMax(t), MinView(t).m, MaxView(t).m}

(* The merge that keeps what only the right map has.                       *)
OnlyRight == [left |-> FALSE, right |-> TRUE, both |-> {}]

OfTwo(a, b) ==
    {Union(a, b), UnionWith(a, b), Difference(a, b), SymmetricDifference(a, b),
     Intersect(a, b), IntersectWith(a, b), DifferenceWith(a, b, {1, 2, 5}),
     Align(a, b), Merge(a, b, OnlyRight)}

Built ==
    {FromArray(xs) : xs \in Sequences} \cup {FromList(xs) : xs \in Sequences}
    \cup {FromArrayWith(xs) : xs \in Sequences}
    \cup {FromDistinctAscList(xs) : xs \in Rising}
    \cup {FromDistinctDescArray(xs) : xs \in Falling}

-----------------------------------------------------------------------------
(* Properties.                                                             *)

(* Every operation returns a search tree whose nodes are all balanced and  *)
(* hold their size: the balance that keeps every later operation           *)
(* logarithmic, and that the constants Delta and Ratio were chosen for.    *)
StaysValid ==
    /\ IsValid(map) /\ IsValid(other)
    /\ IsEmpty(other) =>
          /\ \A t \in OfOne(map) : IsValid(t)
          /\ IsValid(MapAccumL(map, 0)[1]) /\ IsValid(MapAccumR(map, 0)[1])
    /\ \A t \in OfTwo(map, other) \cup OfTwo(other, map) : IsValid(t)
    /\ IsEmpty(map) /\ IsEmpty(other) => \A t \in Built : IsValid(t)

(* What the operations on one map return, read off its entries.            *)
On(d, S) == [k \in S |-> d[k]]

Put(d, k, v) == [j \in DOMAIN d \cup {k} |-> IF j = k THEN v ELSE d[j]]

First(t, S) == IF S = {} THEN None ELSE Some(Min(S))
Last(t, S) == IF S = {} THEN None ELSE Some(Max(S))

KeyRight(t, k) ==
    LET d == DictOf(t)
        D == DOMAIN d
    IN  /\ DictOf(Insert(t, k, <<"n">>)) = Put(d, k, <<"n">>)
        /\ DictOf(Remove(t, k)) = On(d, D \ {k})
        /\ DictOf(Update(t, k, None)) = On(d, D \ {k})
        /\ {DictOf(Alter(t, k, None)), DictOf(AlterF(t, k, None))} = {On(d, D \ {k})}
        /\ {DictOf(Alter(t, k, Some(<<"n">>))), DictOf(AlterF(t, k, Some(<<"n">>)))}
              = {Put(d, k, <<"n">>)}
        /\ \A u \in {Adjust(t, k, <<"n">>), Update(t, k, Some(<<"n">>))} :
              DictOf(u) = IF k \in D THEN Put(d, k, <<"n">>) ELSE d
        /\ DictOf(InsertWith(t, k, <<"n">>)) = Put(d, k, IF k \in D THEN <<"n">> \o d[k] ELSE <<"n">>)
        /\ DictOf(InsertWithR(t, k, <<"n">>)) = Put(d, k, IF k \in D THEN d[k] \o <<"n">> ELSE <<"n">>)
        /\ Lookup(t, k) = IF k \in D THEN Some(d[k]) ELSE None
        /\ LookupLT(t, k, None) = Last(t, {j \in D : j < k})
        /\ LookupLE(t, k, None) = Last(t, {j \in D : j <= k})
        /\ LookupGT(t, k, None) = First(t, {j \in D : j > k})
        /\ LookupGE(t, k, None) = First(t, {j \in D : j >= k})
        /\ KeyIndex(t, 0, k) =
              IF k \in D THEN Some(Cardinality({j \in D : j < k})) ELSE None
        /\ LET s == SplitLookup(t, k) IN
           /\ DictOf(s.lt) = On(d, {j \in D : j < k})
           /\ DictOf(s.gt) = On(d, {j \in D : j > k})
           /\ s.value = Lookup(t, k)
        /\ Equals(Remove(Insert(t, k, <<"n">>), k), Remove(t, k))
        /\ Equals(t, Adjust(t, k, <<"n">>)) <=> k \notin D

PlacesRight(t) ==
    LET es == Entries(t)
        n == Len(es)
    IN  /\ \A i \in Places(t) :
              /\ ElemAt(t, i) = es[i + 1][1]
              /\ {Entries(RemoveAt(t, i)), Entries(UpdateAt(t, i, None))} = {SE!RemoveAt(es, i + 1)}
              /\ {Entries(ModifyAt(t, i, <<"n">>)), Entries(UpdateAt(t, i, Some(<<"n">>)))}
                    = {[es EXCEPT ![i + 1][2] = <<"n">>]}
        /\ \A i \in 0..n + 1 :
              LET j == IF i < n THEN i ELSE n IN
              /\ Entries(SplitAt(t, i)[1]) = SubSeq(es, 1, j)
              /\ Entries(SplitAt(t, i)[2]) = SubSeq(es, j + 1, n)
              /\ Entries(Take(t, i)) = SubSeq(es, 1, j)
              /\ Entries(Drop(t, i)) = SubSeq(es, j + 1, n)
              /\ Entries(TakeRight(t, i)) = SubSeq(es, n - j + 1, n)
              /\ Entries(DropRight(t, i)) = SubSeq(es, 1, n - j)
        /\ n > 0 =>
              /\ {Entries(RemoveMin(t)), Entries(MinView(t).m)} = {Tail(es)}
              /\ {Entries(RemoveMax(t)), Entries(MaxView(t).m)} = {SE!Front(es)}
              /\ {<<MinView(t).k, MinView(t).v>>, MinWithKey(t)} = {Head(es)}
              /\ {<<MaxView(t).k, MaxView(t).v>>, MaxWithKey(t)} = {es[n]}
        /\ Reversed(t) = SE!Reverse(es)
        /\ MapAccumL(t, 0)[2] = n /\ MapAccumR(t, 0)[2] = n
        /\ \A i \in 1..n : /\ Entries(MapAccumL(t, 0)[1])[i] = <<es[i][1], <<i - 1>>>>
                           /\ Entries(MapAccumR(t, 0)[1])[i] = <<es[i][1], <<n - i>>>>

SelectionRight(t, p) ==
    /\ DictOf(Collect(t, p, <<"n">>)) = [k \in KeysOf(t) \cap p |-> <<"n">>]
    /\ DictOf(PartitionMap(t, p, <<"n">>, <<"o">>)[1]) = [k \in KeysOf(t) \cap p |-> <<"n">>]
    /\ DictOf(PartitionMap(t, p, <<"n">>, <<"o">>)[2]) = [k \in KeysOf(t) \ p |-> <<"o">>]
    /\ FindIndex(t, 0, p) =
          IF KeysOf(t) \cap p = {} THEN None ELSE KeyIndex(t, 0, Min(KeysOf(t) \cap p))
    /\ DictOf(Filter(t, p)) = On(DictOf(t), KeysOf(t) \cap p)
    /\ DictOf(Partition(t, p)[1]) = On(DictOf(t), KeysOf(t) \cap p)
    /\ DictOf(Partition(t, p)[2]) = On(DictOf(t), KeysOf(t) \ p)

(* The values that a sequence of entries gives a key, the last one first.  *)
Combined(xs) ==
    [k \in {xs[i][1] : i \in DOMAIN xs} |->
        SE!FlattenSeq(SE!Reverse([i \in DOMAIN xs |-> IF xs[i][1] = k THEN xs[i][2] ELSE <<>>]))]

RenamingRight(t, f) ==
    LET xs == [i \in DOMAIN Entries(t) |-> <<f[Entries(t)[i][1]], Entries(t)[i][2]>>]
    IN  DictOf(MapKeys(t, f)) = Dict(xs) /\ DictOf(MapKeysWith(t, f)) = Combined(xs)

PairRight(a, b) ==
    LET c == DictOf(a)
        d == DictOf(b)
        C == DOMAIN c
        D == DOMAIN d
    IN  /\ DictOf(Union(a, b)) = [k \in C \cup D |-> IF k \in C THEN c[k] ELSE d[k]]
        /\ DictOf(Merge(a, b, OnlyRight)) = On(d, D \ C)
        /\ {DictOf(UnionWith(a, b)), DictOf(Align(a, b))} = {
              [k \in C \cup D |-> IF k \notin D THEN c[k]
                                  ELSE IF k \notin C THEN d[k] ELSE c[k] \o d[k]]}
        /\ DictOf(Difference(a, b)) = On(c, C \ D)
        /\ DictOf(SymmetricDifference(a, b)) = On(c, C \ D) @@ On(d, D \ C)
        /\ DictOf(Intersect(a, b)) = On(c, C \cap D)
        /\ DictOf(IntersectWith(a, b)) = [k \in C \cap D |-> c[k] \o d[k]]
        /\ DictOf(DifferenceWith(a, b, {1, 2, 5})) =
              [k \in (C \ D) \cup (C \cap {1, 2, 5}) |->
                  IF k \in D THEN c[k] \o d[k] ELSE c[k]]
        /\ Disjoint(a, b) <=> C \cap D = {}

(* Every operation does to a map what it says it does to a dictionary. The *)
(* union prefers the values of the map it is called on, and an array or a  *)
(* list may repeat a key, whose last value counts.                         *)
ActsAsDictionary ==
    /\ IsEmpty(other) =>
          /\ \A k \in Keys : KeyRight(map, k)
          /\ PlacesRight(map)
          /\ \A p \in Predicates : SelectionRight(map, p)
          /\ \A f \in Renamings : RenamingRight(map, f)
    /\ PairRight(map, other) /\ PairRight(other, map)
    /\ IsEmpty(map) /\ IsEmpty(other) =>
          /\ \A xs \in Sequences : {DictOf(FromArray(xs)), DictOf(FromList(xs))} = {Dict(xs)}
          /\ \A xs \in Sequences : DictOf(FromArrayWith(xs)) = Combined(xs)
          /\ \A xs \in Rising : DictOf(FromDistinctAscList(xs)) = Dict(xs)
          /\ \A xs \in Falling : DictOf(FromDistinctDescArray(xs)) = Dict(xs)
=============================================================================
