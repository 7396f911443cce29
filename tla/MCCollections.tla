--------------------------- MODULE MCCollections ---------------------------
(***************************************************************************)
(* The maps and the sequence side by side, one of the two at a time: they  *)
(* share no state, and either moves only where the other is empty.         *)
(***************************************************************************)
EXTENDS MCOrdMap

CONSTANTS Lengths, MaxArray, MaxInsert, MaxSize, MaxPair, Width

VARIABLE seq

S == INSTANCE MCSeq

MapsEmpty == IsEmpty(map) /\ IsEmpty(other)
SeqEmpty == seq = S!Empty

InitAll == Init /\ S!Init

NextOne ==
    \/ SeqEmpty /\ Next /\ UNCHANGED seq
    \/ MapsEmpty /\ S!Next /\ UNCHANGED vars

SpecAll == InitAll /\ [][NextOne]_<<vars, seq>>

-----------------------------------------------------------------------------

(* Every operation of OrdMap (ord-map.ts) returns a search tree whose      *)
(* nodes are all balanced and hold their size: the balance that keeps each *)
(* later operation logarithmic, and that Delta and Ratio were chosen for.  *)
MapsStayValid == SeqEmpty => StaysValid

(* Every operation of OrdMap does to a map what it says it does to a       *)
(* dictionary. The union prefers the values of the map it is called on,    *)
(* and an array or a list may repeat a key, whose last value counts.       *)
MapsActAsDictionaries == SeqEmpty => ActsAsDictionary

(* Every operation of Seq (seq.ts) does to a tree what it says it does to  *)
(* a sequence, and returns a finger tree whose sizes are exact, but for    *)
(* the two cases that ActsAsSequence names: an insertAt that throws, and a *)
(* splitAt whose second part counts elements that it does not have.        *)
SeqsActAsSequences == MapsEmpty => S!ActsAsSequence
=============================================================================
