------------------------------ MODULE Channel ------------------------------
(***************************************************************************)
(* Channel (stream/core/src/concurrent/channel.ts): fibers that send and   *)
(* close, and the one stream that consumes. Every operation is one atomic  *)
(* update of the channel's Ref and then the effect that update returned.   *)
(* close() runs that effect inside its uncancelable region; send()         *)
(* flattens outside of it, and the consuming loop has no region at all, so *)
(* that a cancelation may come between the update and any part of the      *)
(* effect.                                                                 *)
(***************************************************************************)
EXTENDS Naturals, WaitingLists

CONSTANTS
    Senders,        \* Fibers that send elements one after the other, and close
    Consumer,       \* The fiber that runs the channel's stream
    MaxSends,       \* Bound on the elements of each sender
    Cancelable,     \* Fibers that may be canceled
    Capacities      \* Arguments of Channel.bounded

Fibers == Senders \cup {Consumer}
Elements == Senders \X (1..MaxSends)

ASSUME ChannelAssumption ==
    /\ Consumer \notin Senders
    /\ Fibers \cap {"NoValue", "Nowhere"} = {}
    /\ MaxSends \in Nat
    /\ Cancelable \subseteq Fibers
    /\ Capacities \subseteq Nat

VARIABLES
    capacity,
    values,             \* state.values
    size,               \* state.size
    waiting,            \* state.waiting holds the consumer's Deferred
    producers,          \* state.producers: the elements of blocked sends, each
                        \* with its sender's Deferred
    closed,             \* state.closed
    gate,               \* closedGate is complete
    pc,                 \* Where each fiber is in its operation
    after,              \* Where a sender goes when it has notified the stream
    sent,               \* How many sends of each sender the channel accepted
    batch,              \* The elements the consumer took, not yet emitted
    unblock,            \* The senders it still has to unblock
    emitted,            \* The elements the stream has emitted
    accepted,           \* The elements of all sends, in the order of the sends,
                        \* without those of sends canceled in waitOnBound
    cell, get, notify   \* The Deferreds: the current one of each fiber

state == <<values, size, waiting, producers, closed>>
history == <<emitted, accepted>>
deferredVars == <<cell, get, notify>>
vars == <<capacity, state, gate, pc, after, sent, batch, unblock, history, deferredVars>>

D == INSTANCE Deferred WITH Deferreds <- Fibers, Interruptible <- {}

PCs ==
    {"idle",        \* A sender between two sends, the consumer before modify
     "notify",      \* Took the consumer's Deferred, about to complete it
     "notifying",   \* Set it
     "blocking",    \* About to get its own Deferred
     "awaiting",    \* In that get
     "signaling",   \* About to complete closedGate
     "unblocking",  \* The consumer completes the Deferreds of the producers
     "done",
     "canceled",
     "deserted"}    \* Canceled before it notified the consumer

TypeOK ==
    /\ capacity \in Capacities
    /\ values \in Seq(Elements)
    /\ size \in Nat
    /\ waiting \in BOOLEAN
    /\ producers \in Seq(Elements)
    /\ closed \in BOOLEAN
    /\ gate \in BOOLEAN
    /\ pc \in [Fibers -> PCs]
    /\ after \in [Senders -> {"idle", "blocking", "signaling"}]
    /\ sent \in [Senders -> 0..MaxSends]
    /\ batch \in Seq(Elements)
    /\ unblock \in Seq(Senders)
    /\ emitted \in Seq(Elements)
    /\ accepted \in Seq(Elements)
    /\ D!TypeOK

Init ==
    /\ capacity \in Capacities
    /\ values = <<>>
    /\ size = 0
    /\ waiting = FALSE
    /\ producers = <<>>
    /\ closed = FALSE
    /\ gate = FALSE
    /\ pc = [f \in Fibers |-> "idle"]
    /\ after = [f \in Senders |-> "idle"]
    /\ sent = [f \in Senders |-> 0]
    /\ batch = <<>>
    /\ unblock = <<>>
    /\ emitted = <<>>
    /\ accepted = <<>>
    /\ D!Init

At(f, where) == pc[f] = where
Goto(f, where) == pc' = [pc EXCEPT ![f] = where]

(* F.deferred(): the fiber's next operation has a Deferred of its own.     *)
Allocate(f) ==
    /\ cell' = [cell EXCEPT ![f] = [value |-> D!NoValue, readers |-> <<>>]]
    /\ UNCHANGED <<get, notify>>

(* The effect that modify returned: notifyStream(s.waiting), then where.   *)
NotifyThen(f, where) ==
    /\ waiting' = FALSE
    /\ Goto(f, IF waiting THEN "notify" ELSE where)
    /\ after' = [after EXCEPT ![f] = where]

-----------------------------------------------------------------------------
(* send(a).                                                                *)

SendClosed(f) ==
    /\ closed
    /\ Goto(f, "done")
    /\ UNCHANGED <<state, after, sent, accepted, deferredVars>>

(* Mutant: a sender uses the Deferred of its last send again.              *)
AcceptReusesDeferred(f, e) ==
    /\ sent' = [sent EXCEPT ![f] = @ + 1]
    /\ accepted' = Append(accepted, e)
    /\ UNCHANGED deferredVars

Accept(f, e) ==
    /\ sent' = [sent EXCEPT ![f] = @ + 1]
    /\ accepted' = Append(accepted, e)
    /\ Allocate(f)

(* Mutant: the consumer stays registered when an element is added.         *)
SendToBufferUnnoticed(f, e) ==
    /\ ~closed /\ size < capacity
    /\ values' = Append(values, e)
    /\ size' = size + 1
    /\ Goto(f, "idle")
    /\ Accept(f, e)
    /\ UNCHANGED <<waiting, after, producers, closed>>

SendToBuffer(f, e) ==
    /\ ~closed /\ size < capacity
    /\ values' = Append(values, e)
    /\ size' = size + 1
    /\ NotifyThen(f, "idle")
    /\ Accept(f, e)
    /\ UNCHANGED <<producers, closed>>

SendAndBlock(f, e) ==
    /\ ~closed /\ size >= capacity
    /\ producers' = Append(producers, e)
    /\ NotifyThen(f, "blocking")
    /\ Accept(f, e)
    /\ UNCHANGED <<values, size, closed>>

Send(f) ==
    /\ At(f, "idle") /\ sent[f] < MaxSends
    /\ LET e == <<f, sent[f] + 1>>
       IN SendClosed(f) \/ SendToBuffer(f, e) \/ SendAndBlock(f, e)
    /\ UNCHANGED <<capacity, gate, batch, unblock, emitted>>

-----------------------------------------------------------------------------
(* close: the last operation of sendAll, or of a fiber that only closes.   *)

Close(f) ==
    /\ At(f, "idle")
    /\ IF closed
         THEN Goto(f, "done") /\ UNCHANGED <<closed, waiting, after>>
         ELSE closed' = TRUE /\ NotifyThen(f, "signaling")
    /\ UNCHANGED <<capacity, values, size, producers, gate, sent, batch, unblock,
                   history, deferredVars>>

SignalClosure(f) ==
    /\ At(f, "signaling")
    /\ gate' = TRUE
    /\ Goto(f, "done")
    /\ UNCHANGED <<capacity, state, after, sent, batch, unblock, history, deferredVars>>

-----------------------------------------------------------------------------
(* notifyStream: completes the consumer's Deferred.                        *)

local == <<capacity, state, gate, after, sent, batch, unblock, history>>

NotifyStream(f) ==
    /\ At(f, "notify")
    /\ D!Complete(f, Consumer)
    /\ Goto(f, "notifying")
    /\ UNCHANGED local

Notified(f) ==
    /\ At(f, "notifying")
    /\ IF D!Notifying(f)
         THEN D!NotifyReader(f) /\ UNCHANGED pc
         ELSE Goto(f, after[f]) /\ UNCHANGED deferredVars
    /\ UNCHANGED local

-----------------------------------------------------------------------------
(* A wait on one's own Deferred: waitOnBound, and the consumer's.          *)

Block(f) ==
    /\ At(f, "blocking")
    /\ D!StartGet(f, f)
    /\ Goto(f, "awaiting")
    /\ UNCHANGED local

Await(f) ==
    /\ At(f, "awaiting")
    /\ D!GetStep(f)
    /\ UNCHANGED <<local, pc>>

Awaited(f) ==
    /\ At(f, "awaiting") /\ D!At(f, "got")
    /\ D!LeaveGet(f)
    /\ Goto(f, "idle")
    /\ UNCHANGED local

(* The onCancel of waitOnBound takes the canceled send off the producers.  *)
(* The consumer's wait has none.                                           *)
AwaitCanceled(f) ==
    /\ At(f, "awaiting") /\ D!At(f, "canceled")
    /\ D!LeaveGet(f)
    /\ Goto(f, "canceled")
    /\ IF f = Consumer
         THEN UNCHANGED <<producers, accepted>>
         ELSE LET e == <<f, sent[f]>>
              IN /\ producers' = Without(producers, e)
                 /\ accepted' = IF e \in ToSet(producers) THEN Without(accepted, e) ELSE accepted
    /\ UNCHANGED <<capacity, values, size, waiting, closed, gate, after, sent,
                   batch, unblock, emitted>>

-----------------------------------------------------------------------------
(* consumeLoop.                                                            *)

SendersOf(elements) == [i \in DOMAIN elements |-> elements[i][1]]

(* Mutant: blocked sends are emitted before the elements in the channel.   *)
TakeAllProducersFirst ==
    /\ values # <<>> \/ producers # <<>>
    /\ batch' = producers \o values
    /\ unblock' = SendersOf(producers)
    /\ values' = <<>> /\ size' = 0
    /\ waiting' = FALSE
    /\ producers' = <<>>
    /\ Goto(Consumer, "unblocking")
    /\ UNCHANGED <<closed, deferredVars>>

(* Mutant: the blocked sends are taken, and only the first is unblocked.   *)
TakeAllUnblocksOne ==
    /\ values # <<>> \/ producers # <<>>
    /\ batch' = values \o producers
    /\ unblock' = SelectSeq(SendersOf(producers), LAMBDA s : s = Head(producers)[1])
    /\ values' = <<>> /\ size' = 0
    /\ waiting' = FALSE
    /\ producers' = <<>>
    /\ Goto(Consumer, "unblocking")
    /\ UNCHANGED <<closed, deferredVars>>

(* Everything that is there is taken at once, blocked sends included.      *)
TakeAll ==
    /\ values # <<>> \/ producers # <<>>
    /\ batch' = values \o producers
    /\ unblock' = SendersOf(producers)
    /\ values' = <<>> /\ size' = 0
    /\ waiting' = FALSE
    /\ producers' = <<>>
    /\ Goto(Consumer, "unblocking")
    /\ UNCHANGED <<closed, deferredVars>>

TakeNothing ==
    /\ values = <<>> /\ producers = <<>>
    /\ waiting' = TRUE
    /\ Goto(Consumer, IF closed THEN "done" ELSE "blocking")
    /\ Allocate(Consumer)
    /\ UNCHANGED <<values, size, producers, closed, batch, unblock>>

Consume ==
    /\ At(Consumer, "idle")
    /\ TakeAll \/ TakeNothing
    /\ UNCHANGED <<capacity, gate, after, sent, history>>

Unblock ==
    /\ At(Consumer, "unblocking")
    /\ IF D!Notifying(Consumer)
         THEN D!NotifyReader(Consumer) /\ UNCHANGED unblock
         ELSE /\ unblock # <<>>
              /\ D!Complete(Consumer, Head(unblock))
              /\ unblock' = Tail(unblock)
    /\ UNCHANGED <<capacity, state, gate, pc, after, sent, batch, history>>

(* Pull.output(toEmit), then the loop again.                               *)
Emit ==
    /\ At(Consumer, "unblocking") /\ unblock = <<>> /\ ~D!Notifying(Consumer)
    /\ emitted' = emitted \o batch
    /\ batch' = <<>>
    /\ Goto(Consumer, "idle")
    /\ UNCHANGED <<capacity, state, gate, after, sent, unblock, accepted, deferredVars>>

-----------------------------------------------------------------------------
(* Cancelation. The effect of close() is masked, the one of send() is not. *)

Unmasked(f) ==
    \/ pc[f] \in {"blocking", "unblocking"}
    \/ f = Consumer /\ pc[f] = "idle"
    \/ pc[f] \in {"notify", "notifying"} /\ after[f] # "signaling"

Cancel(f) ==
    /\ f \in Cancelable /\ Unmasked(f)
    /\ Goto(f, IF At(f, "notify") \/ (At(f, "notifying") /\ D!Notifying(f))
               THEN "deserted" ELSE "canceled")
    /\ notify' = [notify EXCEPT ![f] = D!NobodyToNotify]
    /\ UNCHANGED <<local, cell, get>>

CancelAwait(f) ==
    /\ f \in Cancelable
    /\ At(f, "awaiting")
    /\ D!CancelGet(f)
    /\ UNCHANGED <<local, pc>>

Step(f) ==
    \/ NotifyStream(f) \/ Notified(f) \/ Block(f)
    \/ Await(f) \/ Awaited(f) \/ AwaitCanceled(f)
    \/ SignalClosure(f)

Loop == Consume \/ Unblock \/ Emit

Next ==
    \/ \E f \in Senders : Send(f) \/ Close(f)
    \/ Loop
    \/ \E f \in Fibers : Step(f) \/ Cancel(f) \/ CancelAwait(f)

Spec == Init /\ [][Next]_vars

(* Every fiber goes on with what it began; nobody has to send or to close. *)
FairSpec == Spec /\ WF_vars(Loop) /\ \A f \in Fibers : WF_vars(Step(f))

-----------------------------------------------------------------------------
(* Elements leave the channel in the order of their sends, those of        *)
(* blocked sends too, none twice and none lost: each is emitted, in the    *)
(* consumer's hands, in the channel or in a blocked send, unless its send  *)
(* was canceled while it was blocked.                                      *)
InOrder ==
    accepted = emitted \o batch \o values \o producers

(* A send blocks only on a full channel. The consumer waits only when      *)
(* there is nothing to take: whoever adds an element finds it registered,  *)
(* or another fiber is about to wake it. The exception is a sender that    *)
(* is canceled between its update and the notification it owes.            *)
ConsumerParked == pc[Consumer] = "blocking" \/ D!Parked(Consumer)

Deserted == \E f \in Senders : At(f, "deserted")

Owed == \E f \in Senders : At(f, "notify")

NoVainWait ==
    /\ size = Len(values) /\ size <= capacity
    /\ producers # <<>> => size = capacity
    /\ waiting => values = <<>> /\ producers = <<>>
    /\ ConsumerParked /\ ~D!IsSet(Consumer) => waiting \/ Owed \/ Deserted

(* Backpressure: a send that blocks goes on only when its element was      *)
(* taken, and once it was, it is released, or the consumer has still to do *)
(* it. No send blocks on the Deferred of an earlier one.                   *)
Blocked(f) ==
    \/ pc[f] \in {"blocking", "awaiting"}
    \/ pc[f] \in {"notify", "notifying"} /\ after[f] = "blocking"

InProducers(f) == <<f, sent[f]>> \in ToSet(producers)

SendersHeld ==
    \A f \in Senders : Blocked(f) =>
        /\ InProducers(f) \/ f \in ToSet(unblock) \/ D!IsSet(f)
        /\ InProducers(f) => f \notin ToSet(unblock) /\ ~D!IsSet(f)
        /\ f \in ToSet(unblock) => ~D!IsSet(f)

(* When everybody did what it could, a stream that was neither canceled    *)
(* nor deserted has emitted everything, has ended if the channel is        *)
(* closed, and has left no sender blocked, those included whose sends came *)
(* before close().                                                         *)
Drained ==
    <>[](\/ Deserted \/ At(Consumer, "canceled")
         \/ /\ values = <<>> /\ producers = <<>> /\ batch = <<>>
            /\ closed => At(Consumer, "done")
            /\ \A f \in Senders : ~At(f, "awaiting"))
=============================================================================
