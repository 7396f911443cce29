----------------------------- MODULE Semaphore -----------------------------
(***************************************************************************)
(* Semaphore (effect/kernel/src/semaphore.ts) and the fibers that run      *)
(* withPermit(fa) on it. A fiber that finds no permit queues a Deferred of *)
(* its own and waits for it (module Deferred); a release completes the     *)
(* first Deferred of the queue instead of returning the permit. Each       *)
(* update of the semaphore's Ref is one atomic step.                       *)
(***************************************************************************)
EXTENDS Naturals, FiniteSets, WaitingLists

CONSTANTS
    Fibers,         \* Fibers that run withPermit once each
    Cancelable,     \* Those that may be canceled
    MaxPermits      \* The permits of a new semaphore

ASSUME SemaphoreAssumption ==
    /\ Cancelable \subseteq Fibers
    /\ IsFiniteSet(Fibers)
    /\ MaxPermits \in Nat \ {0}
    /\ Fibers \cap {"NoValue", "Nowhere"} = {}

VARIABLES
    permits,    \* state.permits
    queue,      \* state.queue: fibers, for the Deferreds they wait for
    pc,         \* Where each fiber is in withPermit
    heir,       \* The fiber whose Deferred a releasing fiber completes
    cell, get, notify   \* The Deferreds, one for each fiber

semVars == <<permits, queue, pc, heir>>
deferredVars == <<cell, get, notify>>
vars == <<semVars, deferredVars>>

D == INSTANCE Deferred WITH Deferreds <- Fibers, Interruptible <- {}

PCs ==
    {"idle",
     "awaiting",    \* In poll(wait.get()), or in its finalizer
     "critical",    \* In poll(fa)
     "releasing",   \* fa ended in some way, before release()'s modify
     "handing",     \* release() popped a waiter, about to complete it
     "notifying",   \* release() set the waiter's Deferred
     "done",
     "canceled"}

TypeOK ==
    /\ permits \in Nat
    /\ queue \in Seq(Fibers)
    /\ pc \in [Fibers -> PCs]
    /\ heir \in [Fibers -> Fibers]
    /\ D!TypeOK

Init ==
    /\ permits = MaxPermits
    /\ queue = <<>>
    /\ pc = [f \in Fibers |-> "idle"]
    /\ heir = [f \in Fibers |-> f]
    /\ D!Init

-----------------------------------------------------------------------------
(* Mutant: a semaphore without permits hands out one more.                 *)
AcquireOffByOne(f) ==
    /\ pc[f] = "idle"
    /\ IF permits < 0
         THEN /\ queue' = Append(queue, f)
              /\ pc' = [pc EXCEPT ![f] = "awaiting"]
              /\ D!StartGet(f, f)
              /\ UNCHANGED permits
         ELSE /\ permits' = permits - 1
              /\ pc' = [pc EXCEPT ![f] = "critical"]
              /\ UNCHANGED <<queue, deferredVars>>
    /\ UNCHANGED heir

(* acquire(): state.modify takes a permit, or queues and starts to wait.   *)
Acquire(f) ==
    /\ pc[f] = "idle"
    /\ IF permits = 0
         THEN /\ queue' = Append(queue, f)
              /\ pc' = [pc EXCEPT ![f] = "awaiting"]
              /\ D!StartGet(f, f)
              /\ UNCHANGED permits
         ELSE /\ permits' = permits - 1
              /\ pc' = [pc EXCEPT ![f] = "critical"]
              /\ UNCHANGED <<queue, deferredVars>>
    /\ UNCHANGED heir

(* The wait.get() of a queued fiber, step by step.                         *)
AwaitStep(f) ==
    /\ pc[f] = "awaiting"
    /\ D!GetStep(f)
    /\ UNCHANGED semVars

(* get() succeeded: masked again, acquire() returns into withPermit, which *)
(* registers the release before it unmasks for fa.                         *)
Acquired(f) ==
    /\ pc[f] = "awaiting"
    /\ D!At(f, "got")
    /\ pc' = [pc EXCEPT ![f] = "critical"]
    /\ UNCHANGED <<permits, queue, heir, deferredVars>>

(* The waiting fiber is canceled; once get() has cleaned up, `cancel`      *)
(* takes its Deferred out of the queue.                                    *)
CancelAwait(f) ==
    /\ f \in Cancelable
    /\ pc[f] = "awaiting"
    /\ D!CancelGet(f)
    /\ UNCHANGED semVars

(* Mutant: a canceled waiter stays in the queue.                           *)
LeaveQueueKeepsWaiter(f) ==
    /\ pc[f] = "awaiting"
    /\ D!At(f, "canceled")
    /\ pc' = [pc EXCEPT ![f] = "canceled"]
    /\ UNCHANGED <<permits, queue, heir, deferredVars>>

LeaveQueue(f) ==
    /\ pc[f] = "awaiting"
    /\ D!At(f, "canceled")
    /\ queue' = Without(queue, f)
    /\ pc' = [pc EXCEPT ![f] = "canceled"]
    /\ UNCHANGED <<permits, heir, deferredVars>>

(* fa succeeds, fails or is canceled: in each case the finalizer releases. *)
EndWork(f) ==
    /\ pc[f] = "critical"
    /\ pc' = [pc EXCEPT ![f] = "releasing"]
    /\ UNCHANGED <<permits, queue, heir, deferredVars>>

(* Mutant: a release that pops a waiter returns the permit as well.        *)
ReleaseTwice(f) ==
    /\ pc[f] = "releasing"
    /\ permits' = permits + 1
    /\ IF queue # <<>>
         THEN /\ queue' = Tail(queue)
              /\ heir' = [heir EXCEPT ![f] = Head(queue)]
              /\ pc' = [pc EXCEPT ![f] = "handing"]
         ELSE pc' = [pc EXCEPT ![f] = "done"] /\ UNCHANGED <<queue, heir>>
    /\ UNCHANGED deferredVars

(* Mutant: a release looks for a waiter only once the permits are back.    *)
ReleaseReturnsPermit(f) ==
    /\ pc[f] = "releasing"
    /\ permits' = permits + 1
    /\ pc' = [pc EXCEPT ![f] = "done"]
    /\ UNCHANGED <<queue, heir, deferredVars>>

(* release(), uncancelable: state.modify pops the first waiter, or returns *)
(* the permit.                                                             *)
Release(f) ==
    /\ pc[f] = "releasing"
    /\ IF queue # <<>>
         THEN /\ queue' = Tail(queue)
              /\ heir' = [heir EXCEPT ![f] = Head(queue)]
              /\ pc' = [pc EXCEPT ![f] = "handing"]
              /\ UNCHANGED permits
         ELSE /\ permits' = permits + 1
              /\ pc' = [pc EXCEPT ![f] = "done"]
              /\ UNCHANGED <<queue, heir>>
    /\ UNCHANGED deferredVars

(* Mutant: the popped waiter's Deferred is never completed.                *)
CompleteHeirSkipped(f) ==
    /\ pc[f] = "handing"
    /\ pc' = [pc EXCEPT ![f] = "notifying"]
    /\ UNCHANGED <<permits, queue, heir, deferredVars>>

(* head.complete(undefined).                                               *)
CompleteHeir(f) ==
    /\ pc[f] = "handing"
    /\ D!Complete(f, heir[f])
    /\ pc' = [pc EXCEPT ![f] = "notifying"]
    /\ UNCHANGED <<permits, queue, heir>>

NotifyHeir(f) ==
    /\ pc[f] = "notifying"
    /\ IF ~D!Notifying(f)
         THEN pc' = [pc EXCEPT ![f] = "done"] /\ UNCHANGED deferredVars
         ELSE D!NotifyReader(f) /\ UNCHANGED pc
    /\ UNCHANGED <<permits, queue, heir>>

Step(f) ==
    \/ AwaitStep(f) \/ Acquired(f) \/ LeaveQueue(f) \/ EndWork(f)
    \/ Release(f) \/ CompleteHeir(f) \/ NotifyHeir(f)

Next == \E f \in Fibers : Acquire(f) \/ CancelAwait(f) \/ Step(f)

Spec == Init /\ [][Next]_vars

(* Every fiber goes on once it has started, and every fa ends.             *)
FairSpec == Spec /\ \A f \in Fibers : WF_vars(Step(f))

-----------------------------------------------------------------------------
(* No permit is made up or lost by the semaphore: it is free, with the     *)
(* fiber that holds it or gives it back, or promised to one whose Deferred *)
(* was completed. The last is the price of a cancelation: a waiter         *)
(* canceled after release() took it off the queue takes the permit away    *)
(* with it (see Lost).                                                     *)
Holders == {f \in Fibers : pc[f] \in {"critical", "releasing", "handing"}}
Promised == {f \in Fibers : D!IsSet(f) /\ pc[f] \in {"awaiting", "canceled"}}

PermitsAccounted ==
    permits + Cardinality(Holders) + Cardinality(Promised) = MaxPermits

(* The waiter that a release popped and is about to complete.              *)
Chosen(f) == \E g \in Fibers : pc[g] = "handing" /\ heir[g] = f

(* A waiter that has seen its cancelation: it will leave, whatever happens *)
(* to its Deferred.                                                        *)
Canceled(f) == get[f].pc \in {"deleting", "canceled"}

(* Where the permits of a semaphore are while none is free: with fibers    *)
(* that work and will release, or on their way to a waiter that will work; *)
(* or they go away with a canceled waiter, and nobody gives them back.     *)
Workers == {f \in Fibers : pc[f] \in {"critical", "releasing"}}
Heirs == {f \in Fibers : pc[f] = "awaiting" /\ (D!IsSet(f) \/ Chosen(f)) /\ ~Canceled(f)}
Lost == {f \in Fibers : (D!IsSet(f) \/ Chosen(f)) /\ Canceled(f)}

(* Nobody is queued in vain: all permits are at work, on their way to a    *)
(* fiber that will work, or lost. A permit promised to a canceled waiter   *)
(* is lost and nobody to wait for: with every permit lost, and only then,  *)
(* the queue waits for nobody.                                             *)
QueuedForAReason ==
    queue # <<>> =>
        Cardinality(Workers) + Cardinality(Heirs) + Cardinality(Lost) = MaxPermits

(* A newcomer cannot overtake: while someone is queued, no permit is free. *)
NoOvertaking == queue # <<>> => permits = 0

(* The queue holds the fibers that wait and were not yet chosen, once      *)
(* each; only a fiber that leaves it or was chosen is missing.             *)
QueueIsExact ==
    /\ IsInjective(queue)
    /\ \A f \in Fibers :
        f \in ToSet(queue) <=> pc[f] = "awaiting" /\ ~D!IsSet(f) /\ ~Chosen(f)

(* Unless a permit is lost with a canceled waiter, whoever waits for one   *)
(* gets it or is canceled itself.                                          *)
WaitersServed ==
    [](Lost = {}) =>
        \A f \in Fibers : pc[f] = "awaiting" ~> pc[f] \in {"critical", "canceled"}
=============================================================================
