------------------------------ MODULE Deferred ------------------------------
(***************************************************************************)
(* AsyncDeferred (effect/kernel/src/deferred.ts): cells that are set once, *)
(* and fibers that wait for them. A family of Deferreds, since the client  *)
(* modules allocate one for each waiting fiber. Every operation of the Ref *)
(* in a Deferred is one atomic step; between two of them any fiber may     *)
(* run, because the run loop may yield at every node.                      *)
(*                                                                         *)
(* get() passes through regions where a cancelation is seen (before the    *)
(* IO.async is entered, and between registering the reader and being       *)
(* resumed) and through a masked one (registering the reader). A fiber     *)
(* whose callback finds it parked in the async's `get` is resumed with the *)
(* value and unwinds into its caller without looking at the cancelation    *)
(* flag again: from then on the get has succeeded (IOFiber,                *)
(* AsyncContinueR).                                                        *)
(***************************************************************************)
EXTENDS Naturals, WaitingLists

CONSTANTS
    Fibers,         \* Fibers that get or complete a Deferred
    Interruptible,  \* Those that may be canceled while they complete one
    Deferreds       \* The Deferreds

NoValue == "NoValue"
Nowhere == "Nowhere"

ASSUME DeferredAssumption ==
    /\ Interruptible \subseteq Fibers
    /\ NoValue \notin Fibers
    /\ Nowhere \notin Deferreds

VARIABLES
    cell,       \* The State of each Deferred: its value, the fiber that
                \* completed it standing for what it was completed with, and
                \* the registered readers
    get,        \* Where each fiber is in the get() it runs, and on which Deferred
    notify      \* The Deferred each fiber completes, and the readers it still
                \* has to resume

vars == <<cell, get, notify>>

GetPCs ==
    {"reading",     \* Before this.state.get()
     "entering",    \* Saw UnsetState, about to add its reader
     "registered",  \* Its reader is added, the async's get not reached
     "fired",       \* Its callback was called, the async's get not reached
     "waiting",     \* Suspended in the async's get
     "resumed",     \* Its callback was called while it was suspended
     "got",         \* get() succeeded
     "deleting",    \* Canceled, about to run deleteReader
     "canceled"}    \* Canceled, and no finalizer of get() left

NotGetting == [pc |-> "none", on |-> Nowhere]   \* Not in a get()

NobodyToNotify == [on |-> Nowhere, readers |-> <<>>]

ToNotify(d, readers) ==
    IF readers = <<>> THEN NobodyToNotify ELSE [on |-> d, readers |-> readers]

TypeOK ==
    /\ cell \in [Deferreds ->
                   [value : Fibers \cup {NoValue}, readers : Seq(Fibers)]]
    /\ get \in [Fibers -> {NotGetting} \cup [pc : GetPCs, on : Deferreds]]
    /\ notify \in [Fibers -> {NobodyToNotify} \cup
                               [on : Deferreds, readers : Seq(Fibers) \ {<<>>}]]

Init ==
    /\ cell = [d \in Deferreds |-> [value |-> NoValue, readers |-> <<>>]]
    /\ get = [f \in Fibers |-> NotGetting]
    /\ notify = [f \in Fibers |-> NobodyToNotify]

IsSet(d) == cell[d].value # NoValue

-----------------------------------------------------------------------------
(* get().                                                                  *)

At(f, pc) == get[f].pc = pc
Goto(f, pc) == get' = [get EXCEPT ![f].pc = pc]

StartGet(f, d) ==
    /\ get[f] = NotGetting
    /\ get' = [get EXCEPT ![f] = [pc |-> "reading", on |-> d]]
    /\ UNCHANGED <<cell, notify>>

(* this.state.get(): a set cell is the result at once.                     *)
ReadState(f) ==
    /\ At(f, "reading")
    /\ Goto(f, IF IsSet(get[f].on) THEN "got" ELSE "entering")
    /\ UNCHANGED <<cell, notify>>

(* Mutant: registers the reader without another look at the cell.          *)
AddReaderUnchecked(f) ==
    /\ At(f, "entering")
    /\ Goto(f, "registered")
    /\ cell' = [cell EXCEPT ![get[f].on].readers = Append(@, f)]
    /\ UNCHANGED notify

(* addReader: a cell set in the meantime resumes the reader at once.       *)
AddReader(f) ==
    /\ At(f, "entering")
    /\ IF IsSet(get[f].on)
         THEN Goto(f, "fired") /\ UNCHANGED cell
         ELSE /\ Goto(f, "registered")
              /\ cell' = [cell EXCEPT ![get[f].on].readers = Append(@, f)]
    /\ UNCHANGED notify

(* The async's get: suspend, or use the result that is already there.      *)
Await(f) ==
    /\ get[f].pc \in {"registered", "fired"}
    /\ Goto(f, IF At(f, "fired") THEN "got" ELSE "waiting")
    /\ UNCHANGED <<cell, notify>>

(* Mutant: the fiber keeps its place in the Deferred it has left.          *)
LeaveGetStays(f) ==
    /\ get[f].pc \in {"got", "canceled"}
    /\ Goto(f, "none")
    /\ UNCHANGED <<cell, notify>>

(* The caller of get() has its result, or has seen the cancelation.        *)
LeaveGet(f) ==
    /\ get[f].pc \in {"got", "canceled"}
    /\ get' = [get EXCEPT ![f] = NotGetting]
    /\ UNCHANGED <<cell, notify>>

(* A resumed fiber runs.                                                   *)
Resume(f) ==
    /\ At(f, "resumed")
    /\ Goto(f, "got")
    /\ UNCHANGED <<cell, notify>>

(* A cancelation is seen: deleteReader is the finalizer of a fiber that    *)
(* registered its reader.                                                  *)
CancelGet(f) ==
    /\ get[f].pc \in {"reading", "entering", "registered", "fired", "waiting"}
    /\ Goto(f, IF get[f].pc \in {"reading", "entering"} THEN "canceled" ELSE "deleting")
    /\ UNCHANGED <<cell, notify>>

(* Mutant: the reader of a canceled fiber stays registered.                *)
DeleteReaderSkipped(f) ==
    /\ At(f, "deleting")
    /\ Goto(f, "canceled")
    /\ UNCHANGED <<cell, notify>>

DeleteReader(f) ==
    /\ At(f, "deleting")
    /\ Goto(f, "canceled")
    /\ cell' = IF IsSet(get[f].on) THEN cell
               ELSE [cell EXCEPT ![get[f].on].readers = Without(@, f)]
    /\ UNCHANGED notify

-----------------------------------------------------------------------------
(* complete(): the first one sets the cell and owes every reader a call.   *)

Notifying(f) == notify[f].readers # <<>>

(* Mutant: a later completion overwrites the value.                        *)
CompleteAgain(f, d) ==
    /\ ~Notifying(f)
    /\ notify' = [notify EXCEPT ![f] = ToNotify(d, cell[d].readers)]
    /\ cell' = [cell EXCEPT ![d] = [value |-> f, readers |-> <<>>]]
    /\ UNCHANGED get

Complete(f, d) ==
    /\ ~Notifying(f)
    /\ IF IsSet(d)
         THEN UNCHANGED <<cell, notify>>
         ELSE /\ notify' = [notify EXCEPT ![f] = ToNotify(d, cell[d].readers)]
              /\ cell' = [cell EXCEPT ![d] = [value |-> f, readers |-> <<>>]]
    /\ UNCHANGED get

(* Mutant: a callback resumes only a fiber that is suspended already.      *)
NotifyReaderSuspended(f) ==
    /\ Notifying(f)
    /\ LET r == Head(notify[f].readers)
       IN get' = [get EXCEPT ![r].pc =
                    IF @ = "waiting" /\ get[r].on = notify[f].on THEN "resumed" ELSE @]
    /\ notify' = [notify EXCEPT ![f] = ToNotify(@.on, Tail(@.readers))]
    /\ UNCHANGED cell

(* One step of notifyReaders. The callback of a fiber that was canceled    *)
(* is dropped.                                                             *)
NotifyReader(f) ==
    /\ Notifying(f)
    /\ LET r == Head(notify[f].readers)
       IN get' = IF get[r].on # notify[f].on THEN get
                 ELSE [get EXCEPT ![r].pc = CASE @ = "registered" -> "fired"
                                              [] @ = "waiting" -> "resumed"
                                              [] OTHER -> @]
    /\ notify' = [notify EXCEPT ![f] = ToNotify(@.on, Tail(@.readers))]
    /\ UNCHANGED cell

(* Nothing masks complete(): a completing fiber that is canceled leaves    *)
(* the readers it did not reach.                                           *)
CancelComplete(f) ==
    /\ f \in Interruptible
    /\ Notifying(f)
    /\ notify' = [notify EXCEPT ![f] = NobodyToNotify]
    /\ UNCHANGED <<cell, get>>

(* The steps of get() that need nobody else.                               *)
GetStep(f) ==
    \/ ReadState(f) \/ AddReader(f) \/ Await(f) \/ Resume(f) \/ DeleteReader(f)

(* A fiber completes a Deferred when it does not get one.                  *)
Idle(f) == get[f] = NotGetting

Next ==
    \E f \in Fibers :
        \/ \E d \in Deferreds : ~Notifying(f) /\ StartGet(f, d)
        \/ \E d \in Deferreds : Idle(f) /\ Complete(f, d)
        \/ GetStep(f) \/ LeaveGet(f) \/ CancelGet(f)
        \/ NotifyReader(f) \/ CancelComplete(f)

Spec == Init /\ [][Next]_vars

(* The run loop gives every runnable fiber its turn. No fiber has to start *)
(* a get() or a complete(), and none has to be canceled.                   *)
FairSpec ==
    /\ Spec
    /\ \A f \in Fibers : WF_vars(GetStep(f)) /\ WF_vars(NotifyReader(f))

-----------------------------------------------------------------------------
(* The readers of a cell are the fibers parked on it, or being canceled    *)
(* there, each once: get() that ends in any way leaves no callback behind. *)
ReadersAreParked ==
    \A d \in Deferreds :
        /\ IsInjective(cell[d].readers)
        /\ \A r \in ToSet(cell[d].readers) :
            get[r].on = d /\ get[r].pc \in {"registered", "waiting", "deleting"}

(* A fiber parked on a Deferred will hear of its completion: it is one of  *)
(* the readers until the cell is set, then on the list of the fiber that   *)
(* set it, unless that fiber was canceled while it went through the list.  *)
Parked(f) == get[f].pc \in {"registered", "waiting"}

ToNotifyOf(f, d) == IF notify[f].on = d THEN ToSet(notify[f].readers) ELSE {}

WillHear(f) ==
    LET d == get[f].on
    IN IF IsSet(d)
         THEN cell[d].value \in Interruptible \/ f \in ToNotifyOf(cell[d].value, d)
         ELSE f \in ToSet(cell[d].readers)

NoReaderForgotten == \A f \in Fibers : Parked(f) => WillHear(f)

(* A Deferred is written once: whatever a get() returns, and every later   *)
(* get() returns, is the value of the first complete().                    *)
WrittenOnce ==
    [][\A d \in Deferreds : IsSet(d) => cell'[d] = cell[d]]_vars

(* Every get() of a Deferred that is set by a fiber nobody cancels ends.   *)
GetReturns ==
    \A f \in Fibers : \A d \in Deferreds :
        get[f].on = d /\ cell[d].value \in Fibers \ Interruptible
            ~> get[f].pc \in {"none", "got", "canceled"}
=============================================================================
