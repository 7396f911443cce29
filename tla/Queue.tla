------------------------------- MODULE Queue -------------------------------
(***************************************************************************)
(* Queue (effect/std/src/queue.ts): bounded, dropping and circular queues, *)
(* and fibers that offer and take on one. Every operation is one atomic    *)
(* update of the queue's Ref and, in the same uncancelable region, what    *)
(* that update returned: nothing, the completion of somebody's Deferred,   *)
(* or a wait on one's own (module Deferred). Only the wait may be          *)
(* canceled.                                                               *)
(***************************************************************************)
EXTENDS Naturals, FiniteSets, WaitingLists

CONSTANTS
    Producers,      \* Fibers that run one offer or tryOffer; the fiber
                    \* stands for the element it offers
    Consumers,      \* Fibers that run one take or tryTake
    Cancelable,     \* Fibers that may be canceled
    Kinds,          \* The constructors used
    Capacities      \* Their arguments

Fibers == Producers \cup Consumers

None == "None"          \* tryTake found nothing
NoAnswer == "NoAnswer"  \* The operation did not return

ASSUME QueueAssumption ==
    /\ Producers \cap Consumers = {}
    /\ Cancelable \subseteq Fibers
    /\ Kinds \subseteq {"bounded", "dropping", "circular"}
    /\ Capacities \subseteq Nat
    /\ Producers \cap {None, NoAnswer, "ok", "false"} = {}
    /\ Fibers \cap {"NoValue", "Nowhere"} = {}

VARIABLES
    kind, capacity,     \* The constructor used, and its argument
    queue,              \* state.queue
    size,               \* state.size
    takers,             \* state.takers: consumers, for their Deferreds
    offerers,           \* state.offerers: producers, for their elements and
                        \* Deferreds
    pc,                 \* Where each fiber is in its operation
    heir,               \* The fiber whose Deferred this one completes
    answer,             \* What each operation returns: an element or None, and
                        \* "ok" (undefined or true) or "false" to a producer
    cell, get, notify   \* The Deferreds, one for each fiber

config == <<kind, capacity>>
state == <<queue, size, takers, offerers>>
deferredVars == <<cell, get, notify>>
vars == <<config, state, pc, heir, answer, deferredVars>>

D == INSTANCE Deferred WITH Deferreds <- Fibers, Interruptible <- {}

PCs ==
    {"idle",
     "awaiting",    \* In poll(taker.get()) or poll(offerer.get())
     "handing",     \* Popped a waiter, about to complete its Deferred
     "notifying",   \* Set the waiter's Deferred
     "done",
     "canceled"}

Answers == Producers \cup {None, NoAnswer, "ok", "false"}

TypeOK ==
    /\ kind \in Kinds
    /\ capacity \in Capacities
    /\ queue \in Seq(Producers)
    /\ size \in Nat
    /\ takers \in Seq(Consumers)
    /\ offerers \in Seq(Producers)
    /\ pc \in [Fibers -> PCs]
    /\ heir \in [Fibers -> Fibers]
    /\ answer \in [Fibers -> Answers]
    /\ D!TypeOK

(* The constructors assert their argument.                                 *)
Init ==
    /\ kind \in Kinds
    /\ capacity \in Capacities
    /\ kind # "bounded" => capacity > 0
    /\ queue = <<>>
    /\ size = 0
    /\ takers = <<>>
    /\ offerers = <<>>
    /\ pc = [f \in Fibers |-> "idle"]
    /\ heir = [f \in Fibers |-> f]
    /\ answer = [f \in Fibers |-> NoAnswer]
    /\ D!Init

-----------------------------------------------------------------------------
(* What state.modify returns to the operation.                             *)

(* Nothing else to do: the operation returns a.                            *)
Return(f, a) ==
    /\ pc' = [pc EXCEPT ![f] = "done"]
    /\ answer' = [answer EXCEPT ![f] = a]
    /\ UNCHANGED <<heir, deferredVars>>

(* Complete g's Deferred, then return a.                                   *)
HandOver(f, g, a) ==
    /\ pc' = [pc EXCEPT ![f] = "handing"]
    /\ heir' = [heir EXCEPT ![f] = g]
    /\ answer' = [answer EXCEPT ![f] = a]
    /\ UNCHANGED deferredVars

(* Wait for one's own Deferred.                                            *)
Wait(f) ==
    /\ pc' = [pc EXCEPT ![f] = "awaiting"]
    /\ D!StartGet(f, f)
    /\ UNCHANGED <<heir, answer>>

-----------------------------------------------------------------------------
(* offer(a) and tryOffer(a).                                               *)

OfferToTaker(p) ==
    /\ takers # <<>>
    /\ takers' = Tail(takers)
    /\ HandOver(p, Head(takers), "ok")
    /\ UNCHANGED <<queue, size, offerers>>

(* Mutant: a queue holds one element more than its capacity.               *)
OfferToQueueOffByOne(p) ==
    /\ takers = <<>> /\ size <= capacity
    /\ queue' = Append(queue, p)
    /\ size' = size + 1
    /\ Return(p, "ok")
    /\ UNCHANGED <<takers, offerers>>

OfferToQueue(p) ==
    /\ takers = <<>> /\ size < capacity
    /\ queue' = Append(queue, p)
    /\ size' = size + 1
    /\ Return(p, "ok")
    /\ UNCHANGED <<takers, offerers>>

NoCapacity == takers = <<>> /\ size >= capacity

(* The bounded queue blocks offer, the dropping queue ignores it.          *)
BlockOffer(p) ==
    /\ NoCapacity /\ kind = "bounded"
    /\ offerers' = Append(offerers, p)
    /\ Wait(p)
    /\ UNCHANGED <<queue, size, takers>>

Drop(p, a) ==
    /\ NoCapacity
    /\ Return(p, a)
    /\ UNCHANGED state

(* Mutant: the circular queue drops its newest element.                    *)
OverwriteNewest(p) ==
    /\ NoCapacity /\ kind = "circular"
    /\ queue' = Append(Front(queue), p)
    /\ Return(p, "ok")
    /\ UNCHANGED <<size, takers, offerers>>

(* The circular queue drops its oldest element.                            *)
Overwrite(p) ==
    /\ NoCapacity /\ kind = "circular"
    /\ queue' = Append(Tail(queue), p)
    /\ Return(p, "ok")
    /\ UNCHANGED <<size, takers, offerers>>

Offer(p) ==
    /\ pc[p] = "idle"
    /\ \/ OfferToTaker(p) \/ OfferToQueue(p)
       \/ BlockOffer(p) \/ Overwrite(p)
       \/ kind = "dropping" /\ Drop(p, "ok")
    /\ UNCHANGED config

TryOffer(p) ==
    /\ pc[p] = "idle"
    /\ \/ OfferToTaker(p) \/ OfferToQueue(p)
       \/ Overwrite(p)
       \/ kind # "circular" /\ Drop(p, "false")
    /\ UNCHANGED config

-----------------------------------------------------------------------------
(* take() and tryTake().                                                   *)

TakeFromQueue(c) ==
    /\ queue # <<>> /\ offerers = <<>>
    /\ queue' = Tail(queue)
    /\ size' = size - 1
    /\ Return(c, Head(queue))
    /\ UNCHANGED <<takers, offerers>>

(* Mutant: the blocked offer is admitted, and stays on the list.           *)
TakeAndRefillKeepsOffer(c) ==
    /\ queue # <<>> /\ offerers # <<>>
    /\ queue' = Append(Tail(queue), Head(offerers))
    /\ HandOver(c, Head(offerers), Head(queue))
    /\ UNCHANGED <<size, takers, offerers>>

(* The first blocked offer gets the place of the element taken.            *)
TakeAndRefill(c) ==
    /\ queue # <<>> /\ offerers # <<>>
    /\ queue' = Append(Tail(queue), Head(offerers))
    /\ offerers' = Tail(offerers)
    /\ HandOver(c, Head(offerers), Head(queue))
    /\ UNCHANGED <<size, takers>>

(* Without capacity the element comes from the offer itself.               *)
TakeFromOfferer(c) ==
    /\ queue = <<>> /\ offerers # <<>>
    /\ offerers' = Tail(offerers)
    /\ HandOver(c, Head(offerers), Head(offerers))
    /\ UNCHANGED <<queue, size, takers>>

Nothing == queue = <<>> /\ offerers = <<>>

BlockTake(c) ==
    /\ Nothing
    /\ takers' = Append(takers, c)
    /\ Wait(c)
    /\ UNCHANGED <<queue, size, offerers>>

TakeSome(c) == TakeFromQueue(c) \/ TakeAndRefill(c) \/ TakeFromOfferer(c)

Take(c) ==
    /\ pc[c] = "idle"
    /\ TakeSome(c) \/ BlockTake(c)
    /\ UNCHANGED config

TryTake(c) ==
    /\ pc[c] = "idle"
    /\ \/ TakeSome(c)
       \/ Nothing /\ Return(c, None) /\ UNCHANGED state
    /\ UNCHANGED config

-----------------------------------------------------------------------------
(* Completing the Deferred of the fiber popped.                            *)

(* Mutant: the popped fiber's Deferred is never completed.                 *)
CompleteHeirSkipped(f) ==
    /\ pc[f] = "handing"
    /\ pc' = [pc EXCEPT ![f] = "notifying"]
    /\ UNCHANGED <<config, state, heir, answer, deferredVars>>

CompleteHeir(f) ==
    /\ pc[f] = "handing"
    /\ D!Complete(f, heir[f])
    /\ pc' = [pc EXCEPT ![f] = "notifying"]
    /\ UNCHANGED <<config, state, heir, answer>>

NotifyHeir(f) ==
    /\ pc[f] = "notifying"
    /\ IF D!Notifying(f)
         THEN D!NotifyReader(f) /\ UNCHANGED pc
         ELSE pc' = [pc EXCEPT ![f] = "done"] /\ UNCHANGED deferredVars
    /\ UNCHANGED <<config, state, heir, answer>>

-----------------------------------------------------------------------------
(* Waiting for one's own Deferred.                                         *)

AwaitStep(f) ==
    /\ pc[f] = "awaiting"
    /\ D!GetStep(f)
    /\ UNCHANGED <<config, state, pc, heir, answer>>

(* The value of a taker's Deferred is the element.                         *)
Awaited(f) ==
    /\ pc[f] = "awaiting"
    /\ D!At(f, "got")
    /\ pc' = [pc EXCEPT ![f] = "done"]
    /\ answer' = [answer EXCEPT ![f] = IF f \in Consumers THEN cell[f].value ELSE "ok"]
    /\ UNCHANGED <<config, state, heir, deferredVars>>

CancelAwait(f) ==
    /\ f \in Cancelable
    /\ pc[f] = "awaiting"
    /\ D!CancelGet(f)
    /\ UNCHANGED <<config, state, pc, heir, answer>>

(* Mutant: a canceled offer keeps its place among the offerers.            *)
CleanupTakersOnly(f) ==
    /\ pc[f] = "awaiting"
    /\ D!At(f, "canceled")
    /\ takers' = Without(takers, f)
    /\ pc' = [pc EXCEPT ![f] = "canceled"]
    /\ UNCHANGED <<config, queue, size, offerers, heir, answer, deferredVars>>

(* cleanup: the canceled fiber leaves the takers or the offerers.          *)
Cleanup(f) ==
    /\ pc[f] = "awaiting"
    /\ D!At(f, "canceled")
    /\ takers' = Without(takers, f)
    /\ offerers' = Without(offerers, f)
    /\ pc' = [pc EXCEPT ![f] = "canceled"]
    /\ UNCHANGED <<config, queue, size, heir, answer, deferredVars>>

Step(f) ==
    \/ CompleteHeir(f) \/ NotifyHeir(f)
    \/ AwaitStep(f) \/ Awaited(f) \/ Cleanup(f)

Next ==
    \/ \E p \in Producers : Offer(p) \/ TryOffer(p)
    \/ \E c \in Consumers : Take(c) \/ TryTake(c)
    \/ \E f \in Fibers : CancelAwait(f) \/ Step(f)

Spec == Init /\ [][Next]_vars

(* Every fiber goes on once it has started; it may wait for ever.          *)
FairSpec == Spec /\ \A f \in Fibers : WF_vars(Step(f))

-----------------------------------------------------------------------------
(* Nobody waits in vain: a taker only while there is nothing to take, an   *)
(* offerer only while the queue is full; and size, on which those choices  *)
(* are based, is the length of the queue.                                  *)
NobodyWaitsInVain ==
    /\ size = Len(queue) /\ size <= capacity
    /\ takers # <<>> => Nothing
    /\ offerers # <<>> => size = capacity

(* The waiting lists hold those who wait and were not chosen, once each:   *)
(* operations and cancelations in any order leave nobody out and no one    *)
(* behind.                                                                 *)
Chosen(f) == \E g \in Fibers : pc[g] = "handing" /\ heir[g] = f

ListsAreExact ==
    /\ IsInjective(takers) /\ IsInjective(offerers)
    /\ \A f \in Fibers :
        f \in ToSet(takers) \cup ToSet(offerers)
            <=> pc[f] = "awaiting" /\ ~D!IsSet(f) /\ ~Chosen(f)

(* Each element is in one place: in the queue or in a blocked offer, or    *)
(* with the one consumer it was handed to, and nowhere if it was refused.  *)
(* A consumer that was canceled after offer() took it off the takers       *)
(* counts: it loses that element, and nobody else gets it.                 *)
contents == queue \o offerers

HandedTo(c, e) ==
    \/ answer[c] = e
    \/ cell[c].value = e
    \/ pc[e] = "handing" /\ heir[e] = c

Holders(e) == {c \in Consumers : HandedTo(c, e)}

ElementsAccounted ==
    /\ IsInjective(contents)
    /\ \A e \in Producers :
        /\ Cardinality(Holders(e)) <= 1
        /\ e \in ToSet(contents) \/ answer[e] = "false" => Holders(e) = {}

(* The elements behave as FIFO says, for every kind of queue.              *)
Abstract == INSTANCE FIFO WITH
    Elements <- Producers,
    offered <- {e \in Producers : pc[e] # "idle"},
    received <- {e \in Producers : Holders(e) # {}}

ImplementsFIFO == Abstract!Spec

(* A fiber that was chosen returns or is canceled: when everybody did what *)
(* it could, those who still wait are on the waiting lists, and nobody is  *)
(* left suspended on a Deferred that was dropped.                          *)
ChosenReturn ==
    <>[](\A f \in Fibers :
            pc[f] = "awaiting" => f \in ToSet(takers) \cup ToSet(offerers))
=============================================================================
