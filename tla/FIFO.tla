-------------------------------- MODULE FIFO --------------------------------
(***************************************************************************)
(* What a Queue (effect/std/src/queue.ts) promises about its elements,     *)
(* whoever waits, is canceled or is resumed: they leave in the order in    *)
(* which their offers came, those that find no room wait behind the others *)
(* or are lost as the kind of the queue says, and nothing else is.         *)
(***************************************************************************)
EXTENDS Naturals, Sequences, SequencesExt

CONSTANT Elements

VARIABLES
    kind,       \* "bounded", "dropping" or "circular"
    capacity,
    contents,   \* The elements in the queue, then those of blocked offers
    offered,    \* The elements that were offered
    received    \* Those that were handed to a taker

vars == <<kind, capacity, contents, offered, received>>

Init ==
    /\ kind \in {"bounded", "dropping", "circular"}
    /\ capacity \in Nat
    /\ contents = <<>>
    /\ offered = {}
    /\ received = {}

Full == Len(contents) >= capacity

OfferFirst(e) == e \notin offered /\ offered' = offered \cup {e}

(* An offer that finds room, or waits for it.                              *)
Put(e) ==
    /\ OfferFirst(e)
    /\ Full => kind = "bounded"
    /\ contents' = Append(contents, e)
    /\ UNCHANGED received

(* An element goes straight to a taker that waits.                         *)
Pass(e) ==
    /\ OfferFirst(e)
    /\ contents = <<>>
    /\ received' = received \cup {e}
    /\ UNCHANGED contents

(* A full queue refuses an element: tryOffer, or offer of a dropping queue.*)
Refuse(e) ==
    /\ OfferFirst(e)
    /\ Full /\ kind # "circular"
    /\ UNCHANGED <<contents, received>>

(* A full circular queue drops its oldest element for the new one.         *)
Evict(e) ==
    /\ OfferFirst(e)
    /\ Full /\ kind = "circular"
    /\ contents' = Append(Tail(contents), e)
    /\ UNCHANGED received

(* The oldest element is taken.                                            *)
Deliver ==
    /\ contents # <<>>
    /\ contents' = Tail(contents)
    /\ received' = received \cup {Head(contents)}
    /\ UNCHANGED offered

(* A blocked offer is canceled, and no other element is.                   *)
Withdraw(i) ==
    /\ i > capacity
    /\ contents' = RemoveAt(contents, i)
    /\ UNCHANGED <<offered, received>>

Next ==
    /\ \/ \E e \in Elements : Put(e) \/ Pass(e) \/ Refuse(e) \/ Evict(e)
       \/ Deliver
       \/ \E i \in DOMAIN contents : Withdraw(i)
    /\ UNCHANGED <<kind, capacity>>

Spec == Init /\ [][Next]_vars
=============================================================================
