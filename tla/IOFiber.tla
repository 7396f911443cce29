------------------------------ MODULE IOFiber ------------------------------
(***************************************************************************)
(* The run loop of one IOFiber (effect/core/src/io-fiber.ts), interpreting *)
(* an ARBITRARY program, together with everything that touches its fields  *)
(* from outside: fibers that cancel it, fibers that join it, and the       *)
(* callbacks of the asynchronous computations it waits for.                *)
(*                                                                         *)
(* The program is not fixed: whenever the loop asks for the next node (cur *)
(* is "any") every node the program could contain is possible, so one run  *)
(* covers every program of at most MaxNodes nodes over the alphabet Nodes. *)
(* The loop may hand its turn back at any iteration but the first of a     *)
(* turn, which covers every autoSuspendThreshold >= 1.                     *)
(***************************************************************************)
EXTENDS Integers, Sequences, FiniteSets, SequencesExt

CONSTANTS
    Cancelers,          \* Fibers that evaluate fiber.cancel
    Joiners,            \* Fibers that evaluate fiber.join
    Conts,              \* ContStates: one for each IOCont node that is run
    Nodes,              \* The nodes the program may use besides Pure and Fail
    MaxNodes,           \* Bound: how many nodes the program has
    RepeatedCallbacks,  \* May a callback be invoked more than once?
    PollInFinalizers,   \* May a finalizer use the poll of a region around it?
    ThrowingBodies      \* May the body of an uncancelable or an IOCont throw?

AllNodes ==
    {"Defer", "Map", "FlatMap", "Attempt", "HandleErrorWith", "OnCancel", "Canceled",
     "IOCont", "IOContGet", "Uncancelable", "UnmaskRunLoop", "ExecuteOn",
     "Suspend"}

ASSUME NodesAssumption ==
    /\ Nodes \subseteq AllNodes
    /\ MaxNodes \in Nat
    /\ {RepeatedCallbacks, PollInFinalizers, ThrowingBodies} \subseteq BOOLEAN

(* The continuation tags, each pushed by the node it is named for.         *)
Continuations ==
    {"MapK", "FlatMapK", "HandleErrorWithK", "AttemptK", "OnCancelK",
     "UncancelableK", "UnmaskK", "RunOnK", "CancelationLoopK", "TerminateK"}

(* How the next run() of the fiber picks up its work.                      *)
ResumeTags ==
    {"Exec", "AsyncContinueSuccessful", "AsyncContinueFailed",
     "AsyncContinueCanceled", "Suspend", "AutoSuspend", "Done"}

Outcomes == {"Success", "Failure", "Canceled"}
NotCompleted == "NotCompleted"

(* Whose JavaScript turn the loop runs in: its own (scheduled on the       *)
(* execution context) or the turn of the canceler that called this.run().  *)
NoTurn == "NoTurn"
OwnTurn == "OwnTurn"

NoCb == "NoCb"

(* The values of the loop's cur: an IO still to be interpreted (any node,  *)
(* a Pure or Fail built by the loop itself, the finalizer that `get` of a  *)
(* ContState pushes), or the loop being inside `continue`.                 *)
IOs == {"any", "pure", "error"} \cup Conts
Unwound == {"succeeded", "failed"}
NoIO == "NoIO"

(* The two results a callback can deliver, Right or Left.                  *)
Results == {"right", "left"}

ASSUME NamesAssumption ==
    /\ Cancelers \cap Joiners = {} /\ NoCb \notin Joiners
    /\ \A p \in Cancelers :
        p \notin {NoTurn, OwnTurn, NoCb, "value"} \cup Continuations
    /\ Conts \cap ({"any", "pure", "error", NoIO} \cup Unwound) = {}

VARIABLES
    outcome,      \* this.outcome
    canceled,     \* this.canceled
    finalizing,   \* this.finalizing
    masks,        \* this.masks
    suspended,    \* this.suspended
    stack,        \* this.stack, top last: a slot is named by the tag popping it
    conts,        \* this.conts, top last
    finalizers,   \* this.finalizers, top last
    callbacks,    \* this.callbacks
    resumeTag,    \* this.resumeTag
    cur,          \* The loop's cur, and this.resumeIO between two turns
    scheduled,    \* How many () => f.run() wait on the execution context
    turn,         \* Whose turn the loop runs in
    mayYield,     \* Has the loop interpreted a node in this turn?
    state,        \* The ContState of each IOCont that was run
    lastId,       \* The largest id handed to a poll
    pc,           \* Where each canceler and joiner is
    died,         \* Has an exception escaped from the run loop?
    impossible,   \* Branches taken that the code holds to be impossible
    fuel          \* Nodes the program has left

loopVars == <<resumeTag, cur, scheduled, turn, mayYield, suspended>>
frameVars == <<stack, conts, finalizers>>
maskVars == <<canceled, finalizing, masks, lastId>>
doneVars == <<outcome, callbacks, pc>>
ghostVars == <<died, impossible, fuel>>
vars == <<loopVars, frameVars, maskVars, doneVars, ghostVars, state>>

Phases == {"Unused", "Initial", "Waiting", "Result"}
ContState ==
    [phase : Phases, wasFinalizing : BOOLEAN, result : Results \cup {"none"}]

CancelerPCs ==
    {"idle", "owner", "awaiting", "joining", "joined", "done", "failed"}
JoinerPCs == {"idle", "joined", "abandoned", "done"}

ImpossibleBranches ==
    {"IllegalState", "WaitForGet", "CanceledWhileSuspended", "StaleStage"}

Init ==
    /\ outcome = NotCompleted
    /\ canceled = FALSE
    /\ finalizing = FALSE
    /\ masks = 0
    /\ suspended = FALSE
    /\ stack = <<>>
    /\ conts = <<>>
    /\ finalizers = <<>>
    /\ callbacks = <<>>
    /\ resumeTag = "Exec"
    /\ cur = "any"
    /\ scheduled = 1
    /\ turn = NoTurn
    /\ mayYield = FALSE
    /\ state = [c \in Conts |->
                  [phase |-> "Unused", wasFinalizing |-> FALSE, result |-> "none"]]
    /\ lastId = 0
    /\ pc = [p \in Cancelers \cup Joiners |-> "idle"]
    /\ died = FALSE
    /\ impossible = {}
    /\ fuel = MaxNodes

-----------------------------------------------------------------------------
(* Helpers of the run loop.                                                *)

IsUnmasked == masks = 0
ShouldFinalize == canceled /\ IsUnmasked

(* The turn ends and the fiber is left on the execution context.           *)
Schedule(tag, io) ==
    /\ resumeTag' = tag
    /\ cur' = io
    /\ scheduled' = scheduled + 1
    /\ turn' = NoTurn

(* complete(oc), after calling cb, the callback of a canceler, if there is *)
(* one: every listener is called in the same turn.                         *)
Complete(oc, cb) ==
    /\ outcome' = oc
    /\ pc' = [p \in DOMAIN pc |->
                IF p \in ToSet(callbacks) \cup {cb} THEN "done" ELSE pc[p]]
    /\ stack' = <<>>
    /\ conts' = <<>>
    /\ callbacks' = <<>>
    /\ finalizers' = <<>>
    /\ masks' = 0
    /\ suspended' = FALSE
    /\ resumeTag' = "Done"
    /\ cur' = NoIO
    /\ turn' = NoTurn
    /\ UNCHANGED <<finalizing, lastId>>

(* Mutant: the callback of the canceler is not kept on the fresh stack.    *)
PrepareForCancelationDropsCb(cb, ks, st) ==
    IF finalizers # <<>>
      THEN /\ finalizing' = TRUE
           /\ conts' = IF finalizing THEN ks ELSE <<"CancelationLoopK">>
           /\ stack' = IF finalizing THEN st ELSE <<>>
           /\ masks' = IF finalizing THEN masks ELSE masks + 1
           /\ cur' = Last(finalizers)
           /\ finalizers' = Front(finalizers)
           /\ turn' = IF cb # NoCb THEN cb
                      ELSE IF turn = NoTurn THEN OwnTurn ELSE turn
           /\ pc' = IF cb = NoCb THEN pc ELSE [pc EXCEPT ![cb] = "awaiting"]
           /\ UNCHANGED <<outcome, callbacks, lastId, resumeTag, suspended>>
      ELSE Complete("Canceled", cb)

(* Mutant: finalization starts without masking the fiber.                  *)
PrepareForCancelationUnmasked(cb, ks, st) ==
    IF finalizers # <<>>
      THEN /\ finalizing' = TRUE
           /\ conts' = IF finalizing THEN ks ELSE <<"CancelationLoopK">>
           /\ stack' = IF finalizing THEN st ELSE IF cb = NoCb THEN <<>> ELSE <<cb>>
           /\ masks' = masks
           /\ cur' = Last(finalizers)
           /\ finalizers' = Front(finalizers)
           /\ turn' = IF cb # NoCb THEN cb
                      ELSE IF turn = NoTurn THEN OwnTurn ELSE turn
           /\ pc' = IF cb = NoCb THEN pc ELSE [pc EXCEPT ![cb] = "awaiting"]
           /\ UNCHANGED <<outcome, callbacks, lastId, resumeTag, suspended>>
      ELSE Complete("Canceled", cb)

(* prepareForCancelation(cb), with ks and st the conts and the stack left  *)
(* by what its caller popped. A cb is the one of the canceler whose turn   *)
(* runs the loop, which awaits it from here on.                            *)
PrepareForCancelation(cb, ks, st) ==
    IF finalizers # <<>>
      THEN /\ finalizing' = TRUE
           /\ IF finalizing
                THEN conts' = ks /\ stack' = st /\ masks' = masks
                ELSE /\ conts' = <<"CancelationLoopK">>
                     /\ stack' = IF cb = NoCb THEN <<>> ELSE <<cb>>
                     /\ masks' = masks + 1
           /\ cur' = Last(finalizers)
           /\ finalizers' = Front(finalizers)
           /\ turn' = IF cb # NoCb THEN cb
                      ELSE IF turn = NoTurn THEN OwnTurn ELSE turn
           /\ pc' = IF cb = NoCb THEN pc ELSE [pc EXCEPT ![cb] = "awaiting"]
           /\ UNCHANGED <<outcome, callbacks, lastId, resumeTag, suspended>>
      ELSE Complete("Canceled", cb)

-----------------------------------------------------------------------------
(* Resumptions: run() picks the fiber up where resumeTag says. Done never  *)
(* meets a pending run() (RunLoopOwnership), so it has no case here.       *)

ExecR ==
    /\ resumeTag = "Exec"
    /\ IF canceled
         THEN Complete("Canceled", NoCb) /\ UNCHANGED canceled
         ELSE /\ conts' = <<"TerminateK">>
              /\ stack' = <<>>
              /\ finalizers' = <<>>
              /\ turn' = OwnTurn
              /\ UNCHANGED <<doneVars, maskVars, resumeTag, cur, suspended>>

AsyncContinueR ==
    /\ resumeTag \in {"AsyncContinueSuccessful", "AsyncContinueFailed"}
    /\ stack' = Front(stack)
    /\ cur' = IF resumeTag = "AsyncContinueSuccessful" THEN "succeeded" ELSE "failed"
    /\ turn' = OwnTurn
    /\ UNCHANGED <<doneVars, maskVars, conts, finalizers, resumeTag, suspended>>

SuspendR ==
    /\ resumeTag \in {"Suspend", "AutoSuspend"}
    /\ cur' = IF resumeTag = "Suspend" THEN "succeeded" ELSE cur
    /\ turn' = OwnTurn
    /\ UNCHANGED <<doneVars, maskVars, frameVars, resumeTag, suspended>>

AsyncContinueCanceledR ==
    /\ resumeTag = "AsyncContinueCanceled"
    /\ PrepareForCancelation(NoCb, conts, stack)
    /\ UNCHANGED canceled

(* Mutant: the fiber is run without having been scheduled.                 *)
RunUnscheduled ==
    /\ turn = NoTurn
    /\ outcome = NotCompleted
    /\ scheduled' = scheduled - 1
    /\ mayYield' = FALSE
    /\ CASE resumeTag = "Exec" -> ExecR
         [] resumeTag \in {"Suspend", "AutoSuspend"} -> SuspendR
         [] resumeTag = "AsyncContinueCanceled" -> AsyncContinueCanceledR
         [] OTHER -> AsyncContinueR
    /\ UNCHANGED <<state, ghostVars>>

Run ==
    /\ turn = NoTurn
    /\ scheduled > 0
    /\ scheduled' = scheduled - 1
    /\ mayYield' = FALSE
    /\ CASE resumeTag = "Exec" -> ExecR
         [] resumeTag \in {"Suspend", "AutoSuspend"} -> SuspendR
         [] resumeTag = "AsyncContinueCanceled" -> AsyncContinueCanceledR
         [] OTHER -> AsyncContinueR
    /\ UNCHANGED <<state, ghostVars>>

-----------------------------------------------------------------------------
(* The top of the loop.                                                    *)

AtTop == turn # NoTurn /\ cur \in IOs

(* `else if (this.shouldFinalize())`: a cancelation that became visible.   *)
Finalize ==
    /\ AtTop
    /\ ShouldFinalize
    /\ PrepareForCancelation(NoCb, conts, stack)
    /\ UNCHANGED <<canceled, scheduled, mayYield, state, ghostVars>>

(* `else if (nextAutoSuspend-- <= 0)`                                      *)
AutoSuspend ==
    /\ AtTop
    /\ ~ShouldFinalize
    /\ mayYield
    /\ Schedule("AutoSuspend", cur)
    /\ UNCHANGED <<frameVars, maskVars, doneVars, ghostVars, state, mayYield, suspended>>

(* What every interpreted node does to the loop.                           *)
Interpret ==
    /\ AtTop
    /\ ~ShouldFinalize
    /\ mayYield' = TRUE

Node(n) ==
    /\ Interpret
    /\ cur = "any"
    /\ n \in Nodes
    /\ fuel > 0
    /\ fuel' = fuel - 1

(* Pure, Delay, Realtime, Monotonic, ReadEC, Fork, a fused Map or Attempt  *)
(* over one of them: nodes that only yield a value.                        *)
Pure ==
    /\ Interpret
    /\ cur \in {"any", "pure"}
    /\ cur' = "succeeded"
    /\ UNCHANGED <<frameVars, maskVars, doneVars, ghostVars, state,
                   resumeTag, scheduled, turn, suspended>>

(* Defer, and a FlatMap fused with the value its function takes: the next  *)
(* node is the result of a call.                                           *)
Defer ==
    /\ Node("Defer")
    /\ UNCHANGED <<frameVars, maskVars, doneVars, state, died, impossible,
                   resumeTag, cur, scheduled, turn, suspended>>

(* Fail, and every thunk or function of a fused node that throws.          *)
Fail ==
    /\ Interpret
    /\ cur \in {"any", "error"}
    /\ cur' = "failed"
    /\ UNCHANGED <<frameVars, maskVars, doneVars, ghostVars, state,
                   resumeTag, scheduled, turn, suspended>>

(* Map, FlatMap and HandleErrorWith push their function and their tag,     *)
(* Attempt its tag alone.                                                  *)
PushTransformer(node, tag) ==
    /\ Node(node)
    /\ stack' = IF tag = "AttemptK" THEN stack ELSE Append(stack, tag)
    /\ conts' = Append(conts, tag)
    /\ UNCHANGED <<finalizers, maskVars, doneVars, state, died, impossible,
                   resumeTag, cur, scheduled, turn, suspended>>

Map == PushTransformer("Map", "MapK")
FlatMap == PushTransformer("FlatMap", "FlatMapK")
HandleErrorWith == PushTransformer("HandleErrorWith", "HandleErrorWithK")
Attempt == PushTransformer("Attempt", "AttemptK")

(* The finalizer is an arbitrary program, and so is the guarded IO.        *)
OnCancel ==
    /\ Node("OnCancel")
    /\ finalizers' = Append(finalizers, "any")
    /\ conts' = Append(conts, "OnCancelK")
    /\ UNCHANGED <<stack, maskVars, doneVars, state, died, impossible,
                   resumeTag, cur, scheduled, turn, suspended>>

(* IO.canceled: the fiber cancels itself, at once if it is unmasked.       *)
Canceled ==
    /\ Node("Canceled")
    /\ canceled' = TRUE
    /\ IF IsUnmasked
         THEN PrepareForCancelation(NoCb, conts, stack)
         ELSE /\ cur' = "succeeded"
              /\ UNCHANGED <<frameVars, doneVars, finalizing, masks, lastId,
                             resumeTag, turn, suspended>>
    /\ UNCHANGED <<scheduled, state, died, impossible>>

(* An exception leaves runLoop: the turn ends and nobody owns the loop. In *)
(* a canceler's turn it fails that canceler's IO.async_.                   *)
Die ==
    /\ died' = TRUE
    /\ turn' = NoTurn
    /\ cur' = NoIO
    /\ pc' = IF turn \in Cancelers /\ pc[turn] = "awaiting"
               THEN [pc EXCEPT ![turn] = "failed"] ELSE pc

(* IOCont: a fresh ContState, and the body runs with its callback and get. *)
IOCont ==
    /\ Node("IOCont")
    /\ \E c \in Conts :
        /\ state[c].phase = "Unused"
        /\ state' = [state EXCEPT ![c] = [phase |-> "Initial",
                        wasFinalizing |-> finalizing, result |-> "none"]]
    /\ \/ UNCHANGED <<cur, turn, died, pc>>
       \/ ThrowingBodies /\ Die
    /\ UNCHANGED <<frameVars, maskVars, outcome, callbacks, impossible,
                   resumeTag, scheduled, suspended>>

(* Mutant: get does not capture the finalization stage it suspends in.     *)
GetKeepsStage(c) ==
    CASE state[c].phase = "Initial" ->
           /\ state' = [state EXCEPT ![c].phase = "Waiting"]
           /\ suspended' = TRUE
           /\ turn' = NoTurn
           /\ cur' = NoIO
           /\ UNCHANGED <<pc, died, impossible>>
      [] OTHER ->
           /\ cur' = IF state[c].result = "right" THEN "succeeded" ELSE "failed"
           /\ UNCHANGED <<state, suspended, turn, pc, died, impossible>>

(* IOContGet: suspends the fiber unless the callback came first.           *)
Get(c) ==
    CASE state[c].phase = "Initial" ->
           /\ state' = [state EXCEPT ![c].phase = "Waiting",
                                     ![c].wasFinalizing = finalizing]
           /\ suspended' = TRUE
           /\ turn' = NoTurn
           /\ cur' = NoIO
           /\ UNCHANGED <<pc, died, impossible>>
      [] state[c].phase = "Waiting" ->
           /\ impossible' = impossible \cup {"IllegalState"}
           /\ Die
           /\ UNCHANGED <<state, suspended>>
      [] OTHER ->
           /\ cur' = IF state[c].result = "right" THEN "succeeded" ELSE "failed"
           /\ UNCHANGED <<state, suspended, turn, pc, died, impossible>>

IOContGet ==
    /\ Node("IOContGet")
    /\ \E c \in Conts :
        /\ state[c].phase # "Unused"
        /\ finalizers' = Append(finalizers, c)
        /\ conts' = Append(conts, "OnCancelK")
        /\ Get(c)
    /\ UNCHANGED <<stack, maskVars, outcome, callbacks, resumeTag, scheduled>>

(* Mutant: the finalizer of get leaves the ContState Waiting.              *)
ContFinalizerNoReset ==
    /\ Interpret
    /\ cur \in Conts
    /\ cur' = "succeeded"
    /\ UNCHANGED <<frameVars, maskVars, doneVars, ghostVars, state,
                   resumeTag, scheduled, turn, suspended>>

(* The finalizer that IOContGet pushed.                                    *)
ContFinalizer ==
    /\ Interpret
    /\ cur \in Conts
    /\ state' = IF state[cur].phase = "Waiting"
                  THEN [state EXCEPT ![cur].phase = "Initial"] ELSE state
    /\ cur' = "succeeded"
    /\ UNCHANGED <<frameVars, maskVars, doneVars, ghostVars,
                   resumeTag, scheduled, turn, suspended>>

(* Uncancelable: the poll handed to the body carries the new mask count.   *)
Uncancelable ==
    /\ Node("Uncancelable")
    /\ masks' = masks + 1
    /\ lastId' = IF masks + 1 > lastId THEN masks + 1 ELSE lastId
    /\ conts' = Append(conts, "UncancelableK")
    /\ \/ UNCHANGED <<cur, turn, died, pc>>
       \/ ThrowingBodies /\ Die
    /\ UNCHANGED <<stack, finalizers, canceled, finalizing, outcome, callbacks,
                   state, impossible, resumeTag, scheduled, suspended>>

(* poll(ioa): any poll handed out so far, in or out of its region. Unless  *)
(* PollInFinalizers, a finalizer never uses the poll with id 1, the mask   *)
(* count at which finalizers run.                                          *)
UnmaskRunLoop ==
    /\ Node("UnmaskRunLoop")
    /\ \E id \in 1..lastId :
        /\ finalizing /\ id = 1 => PollInFinalizers
        /\ IF masks = id
             THEN masks' = masks - 1 /\ conts' = Append(conts, "UnmaskK")
             ELSE UNCHANGED <<masks, conts>>
    /\ UNCHANGED <<stack, finalizers, canceled, finalizing, lastId, doneVars, state,
                   died, impossible, resumeTag, cur, scheduled, turn, suspended>>

(* ExecuteOn another execution context; on the current one it is a no-op.  *)
ExecuteOn ==
    /\ Node("ExecuteOn")
    /\ stack' = Append(stack, "RunOnK")
    /\ conts' = Append(conts, "RunOnK")
    /\ Schedule("AutoSuspend", cur)
    /\ UNCHANGED <<finalizers, maskVars, doneVars, state, died, impossible, suspended>>

(* IO.suspend (cede).                                                      *)
Suspend ==
    /\ Node("Suspend")
    /\ Schedule("Suspend", NoIO)
    /\ UNCHANGED <<frameVars, maskVars, doneVars, state, died, impossible, suspended>>

-----------------------------------------------------------------------------
(* `continue`: unwinding the continuations with a success or a failure.    *)
(* None of its steps looks at the cancelation flag but RunOnK's.           *)

Succeeded == cur = "succeeded"

PopCont(tag) ==
    /\ turn # NoTurn
    /\ cur \in Unwound
    /\ conts # <<>>
    /\ Last(conts) = tag
    /\ UNCHANGED <<scheduled, mayYield, state, ghostVars>>

(* What unwinding one continuation inside the loop leaves alone.           *)
Continue(tag) ==
    /\ PopCont(tag)
    /\ conts' = Front(conts)
    /\ UNCHANGED <<doneVars, canceled, finalizing, lastId, resumeTag, turn, suspended>>

(* The function may throw; past MaxStackSize frames its result goes back   *)
(* to the top of the loop as a Pure or a Fail.                             *)
ContinueMap ==
    /\ Continue("MapK")
    /\ stack' = Front(stack)
    /\ cur' \in IF Succeeded THEN {"succeeded", "failed", "pure", "error"} ELSE {"failed"}
    /\ UNCHANGED <<finalizers, masks>>

ContinueFlatMap ==
    /\ Continue("FlatMapK")
    /\ stack' = Front(stack)
    /\ cur' \in IF Succeeded THEN {"any", "failed"} ELSE {"failed"}
    /\ UNCHANGED <<finalizers, masks>>

(* Mutant: a success skips the handler's tag, not the handler.             *)
ContinueHandleErrorWithKeepsSlot ==
    /\ Continue("HandleErrorWithK")
    /\ stack' = IF Succeeded THEN stack ELSE Front(stack)
    /\ cur' \in IF Succeeded THEN {"succeeded"} ELSE {"any", "failed"}
    /\ UNCHANGED <<finalizers, masks>>

ContinueHandleErrorWith ==
    /\ Continue("HandleErrorWithK")
    /\ stack' = Front(stack)
    /\ cur' \in IF Succeeded THEN {"succeeded"} ELSE {"any", "failed"}
    /\ UNCHANGED <<finalizers, masks>>

ContinueAttempt ==
    /\ Continue("AttemptK")
    /\ cur' = "succeeded"
    /\ UNCHANGED <<stack, finalizers, masks>>

(* Mutant: a failure leaves the finalizer registered.                      *)
ContinueOnCancelKeepsOnFailure ==
    /\ Continue("OnCancelK")
    /\ finalizers' = IF Succeeded THEN Front(finalizers) ELSE finalizers
    /\ UNCHANGED <<stack, masks, cur>>

ContinueOnCancel ==
    /\ Continue("OnCancelK")
    /\ finalizers' = Front(finalizers)
    /\ UNCHANGED <<stack, masks, cur>>

(* Mutant: a failure leaves the uncancelable region without unmasking.     *)
ContinueUncancelableStaysMasked ==
    /\ Continue("UncancelableK")
    /\ masks' = IF Succeeded THEN masks - 1 ELSE masks
    /\ UNCHANGED <<stack, finalizers, cur>>

ContinueUncancelable ==
    /\ Continue("UncancelableK")
    /\ masks' = masks - 1
    /\ UNCHANGED <<stack, finalizers, cur>>

ContinueUnmask ==
    /\ Continue("UnmaskK")
    /\ masks' = masks + 1
    /\ UNCHANGED <<stack, finalizers, cur>>

(* executeOnSuccessK, executeOnFailureK: back to the previous execution    *)
(* context with the result, unless a cancelation is due.                   *)
ExecuteOnK ==
    /\ turn # NoTurn
    /\ cur \in Unwound
    /\ conts # <<>>
    /\ Last(conts) = "RunOnK"
    /\ IF ShouldFinalize
         THEN /\ PrepareForCancelation(NoCb, Front(conts), Front(stack))
              /\ UNCHANGED <<canceled, scheduled>>
         ELSE /\ conts' = Front(conts)
              /\ stack' = Append(Front(stack), "value")
              /\ Schedule(IF Succeeded THEN "AsyncContinueSuccessful"
                                       ELSE "AsyncContinueFailed", NoIO)
              /\ UNCHANGED <<finalizers, maskVars, doneVars, suspended>>
    /\ UNCHANGED <<mayYield, state, ghostVars>>

(* cancelationLoopSuccessK, cancelationLoopFailureK: a finalizer ended, in *)
(* whatever way; the next one, or the canceler's callback and the end.     *)
CancelationLoopK ==
    /\ PopCont("CancelationLoopK")
    /\ IF finalizers # <<>>
         THEN /\ cur' = Last(finalizers)
              /\ finalizers' = Front(finalizers)
              /\ UNCHANGED <<conts, stack, doneVars, finalizing, masks, lastId,
                             resumeTag, turn, suspended>>
         ELSE Complete("Canceled", IF stack = <<>> THEN NoCb ELSE Last(stack))
    /\ UNCHANGED canceled

(* Mutant: a fiber that succeeds at the last moment forgets that it was    *)
(* canceled.                                                               *)
TerminateKIgnoresCancel ==
    /\ PopCont("TerminateK")
    /\ Complete(IF Succeeded THEN "Success"
                ELSE IF canceled THEN "Canceled" ELSE "Failure", NoCb)
    /\ UNCHANGED canceled

(* terminateSuccessK, terminateFailureK.                                   *)
TerminateK ==
    /\ PopCont("TerminateK")
    /\ Complete(IF canceled THEN "Canceled"
                ELSE IF Succeeded THEN "Success" ELSE "Failure", NoCb)
    /\ UNCHANGED canceled

LoopStep ==
    \/ Finalize \/ AutoSuspend \/ Pure \/ Fail \/ Defer
    \/ Map \/ FlatMap \/ HandleErrorWith \/ Attempt
    \/ OnCancel \/ Canceled \/ IOCont \/ IOContGet \/ ContFinalizer
    \/ Uncancelable \/ UnmaskRunLoop \/ ExecuteOn \/ Suspend
    \/ ContinueMap \/ ContinueFlatMap \/ ContinueHandleErrorWith
    \/ ContinueAttempt \/ ContinueOnCancel
    \/ ContinueUncancelable \/ ContinueUnmask
    \/ ExecuteOnK \/ CancelationLoopK \/ TerminateK

-----------------------------------------------------------------------------
(* Canceling: fiber.cancel, run by the fiber of a canceler. Its steps      *)
(* belong to the canceler's own turns, so none happens while the loop of   *)
(* this fiber runs.                                                        *)

(* Mutant: a canceler that finds the fiber masked does not give the run    *)
(* loop back.                                                              *)
CancelKeepsLoop(k) ==
    /\ turn = NoTurn
    /\ pc[k] = "idle"
    /\ canceled' = TRUE
    /\ suspended' = FALSE
    /\ pc' = [pc EXCEPT ![k] = IF suspended /\ IsUnmasked THEN "owner" ELSE "joining"]
    /\ UNCHANGED <<outcome, callbacks, finalizing, masks, lastId, frameVars, state,
                   ghostVars, resumeTag, cur, scheduled, turn, mayYield>>

(* Mutant: the flag is set only by the canceler that takes the run loop.   *)
CancelSetsFlagLate(k) ==
    /\ turn = NoTurn
    /\ pc[k] = "idle"
    /\ IF suspended /\ IsUnmasked
         THEN /\ suspended' = FALSE
              /\ canceled' = TRUE
              /\ pc' = [pc EXCEPT ![k] = "owner"]
         ELSE /\ UNCHANGED <<suspended, canceled>>
              /\ pc' = [pc EXCEPT ![k] = "joining"]
    /\ UNCHANGED <<outcome, callbacks, finalizing, masks, lastId, frameVars, state,
                   ghostVars, resumeTag, cur, scheduled, turn, mayYield>>

(* The body of _cancel: resume() takes the run loop of a suspended fiber,  *)
(* and gives it back if the fiber is masked. A canceler that read the      *)
(* cancel of a fiber that completed since runs this body too.              *)
Cancel(k) ==
    /\ turn = NoTurn
    /\ pc[k] = "idle"
    /\ canceled' = TRUE
    /\ IF suspended /\ IsUnmasked
         THEN suspended' = FALSE /\ pc' = [pc EXCEPT ![k] = "owner"]
         ELSE suspended' = suspended /\ pc' = [pc EXCEPT ![k] = "joining"]
    /\ UNCHANGED <<outcome, callbacks, finalizing, masks, lastId, frameVars, state,
                   ghostVars, resumeTag, cur, scheduled, turn, mayYield>>

(* After complete(), _cancel is IO.unit.                                   *)
CancelCompleted(k) ==
    /\ turn = NoTurn
    /\ pc[k] = "idle"
    /\ outcome # NotCompleted
    /\ pc' = [pc EXCEPT ![k] = "done"]
    /\ UNCHANGED <<outcome, callbacks, maskVars, frameVars, state, ghostVars, loopVars>>

(* The IO.async_ of the owner: this.run() with its callback on the stack,  *)
(* that is asyncContinueCanceledWithFinalizerR.                            *)
RunFinalizers(k) ==
    /\ turn = NoTurn
    /\ pc[k] = "owner"
    /\ mayYield' = FALSE
    /\ PrepareForCancelation(k, conts, stack)
    /\ UNCHANGED <<canceled, scheduled, state, ghostVars>>

(* Mutant: onComplete registers its listener without looking at outcome.   *)
JoinIgnoresOutcome(p) ==
    /\ turn = NoTurn
    /\ pc[p] = "joining" \/ (p \in Joiners /\ pc[p] = "idle")
    /\ callbacks' = Append(callbacks, p)
    /\ pc' = [pc EXCEPT ![p] = "joined"]
    /\ UNCHANGED <<outcome, maskVars, frameVars, state, ghostVars, loopVars>>

(* onComplete(listener), by the join of a joiner or of a canceler.         *)
Join(p) ==
    /\ turn = NoTurn
    /\ pc[p] = "joining" \/ (p \in Joiners /\ pc[p] = "idle")
    /\ IF outcome = NotCompleted
         THEN /\ callbacks' = Append(callbacks, p)
              /\ pc' = [pc EXCEPT ![p] = "joined"]
         ELSE /\ pc' = [pc EXCEPT ![p] = "done"]
              /\ UNCHANGED callbacks
    /\ UNCHANGED <<outcome, maskVars, frameVars, state, ghostVars, loopVars>>

(* A joiner that is canceled filters its listener out, registered once (a  *)
(* canceler joins inside an uncancelable region).                          *)
AbandonJoin(j) ==
    /\ turn = NoTurn
    /\ pc[j] = "joined"
    /\ \E i \in DOMAIN callbacks :
        callbacks[i] = j /\ callbacks' = RemoveAt(callbacks, i)
    /\ pc' = [pc EXCEPT ![j] = "abandoned"]
    /\ UNCHANGED <<outcome, maskVars, frameVars, state, ghostVars, loopVars>>

-----------------------------------------------------------------------------
(* The callback of ContState c is invoked with result r, in a turn of its  *)
(* own or by a thunk of this very fiber. If the fiber waits in `get`, the  *)
(* callback's `loop` runs.                                                 *)

(* resume() succeeded: we own the run loop and put the fiber back on the   *)
(* execution context, or give the loop back to the finalizer that waits.   *)
ResumeWith(c, r) ==
    IF state[c].wasFinalizing = finalizing
      THEN /\ suspended' = FALSE
           /\ scheduled' = scheduled + 1
           /\ IF ShouldFinalize
                THEN /\ resumeTag' = "AsyncContinueCanceled"
                     /\ impossible' = impossible \cup {"CanceledWhileSuspended"}
                     /\ UNCHANGED stack
                ELSE /\ resumeTag' = IF r = "right" THEN "AsyncContinueSuccessful"
                                                    ELSE "AsyncContinueFailed"
                     /\ stack' = Append(stack, "value")
                     /\ UNCHANGED impossible
      ELSE /\ impossible' = impossible \cup {"StaleStage"}
           /\ UNCHANGED <<suspended, scheduled, resumeTag, stack>>

(* resume() failed: retry `loop` until `get` releases the run loop (we     *)
(* only record that this happened), or drop the result.                    *)
WaitOrDrop(c) ==
    /\ impossible' =
         IF /\ finalizing = state[c].wasFinalizing
            /\ ~ShouldFinalize
            /\ outcome = NotCompleted
         THEN impossible \cup {"WaitForGet"} ELSE impossible
    /\ UNCHANGED <<suspended, scheduled, resumeTag, stack>>

Callback(c, r) ==
    /\ state[c].phase \in IF RepeatedCallbacks THEN Phases \ {"Unused"}
                                               ELSE {"Initial", "Waiting"}
    /\ state' = [state EXCEPT ![c].phase = "Result", ![c].result = r]
    /\ IF state[c].phase = "Waiting"
         THEN IF suspended THEN ResumeWith(c, r) ELSE WaitOrDrop(c)
         ELSE UNCHANGED <<suspended, scheduled, resumeTag, stack, impossible>>
    /\ UNCHANGED <<conts, finalizers, maskVars, doneVars, died, fuel,
                   cur, turn, mayYield>>

-----------------------------------------------------------------------------
Next ==
    \/ Run
    \/ LoopStep
    \/ \E k \in Cancelers : Cancel(k) \/ CancelCompleted(k) \/ RunFinalizers(k)
    \/ \E p \in Cancelers \cup Joiners : Join(p)
    \/ \E j \in Joiners : AbandonJoin(j)
    \/ \E c \in Conts, r \in Results : Callback(c, r)

Spec == Init /\ [][Next]_vars

(* The event loop runs what is scheduled and a turn runs to its end. A     *)
(* callback is only owed to a fiber that waits for it in a masked region:  *)
(* anything else may wait for ever.                                        *)
Fairness ==
    /\ WF_vars(Run)
    /\ WF_vars(LoopStep)
    /\ \A k \in Cancelers : WF_vars(RunFinalizers(k)) /\ WF_vars(Join(k))
    /\ \A c \in Conts :
        WF_vars(~IsUnmasked /\ state[c].phase = "Waiting"
                  /\ \E r \in Results : Callback(c, r))

FairSpec == Spec /\ Fairness

-----------------------------------------------------------------------------
TypeOK ==
    /\ outcome \in Outcomes \cup {NotCompleted}
    /\ canceled \in BOOLEAN
    /\ finalizing \in BOOLEAN
    /\ masks \in Int
    /\ suspended \in BOOLEAN
    /\ stack \in Seq(Continuations \cup {"value"} \cup Cancelers)
    /\ conts \in Seq(Continuations)
    /\ finalizers \in Seq({"any"} \cup Conts)
    /\ callbacks \in Seq(Cancelers \cup Joiners)
    /\ resumeTag \in ResumeTags
    /\ cur \in IOs \cup Unwound \cup {NoIO}
    /\ scheduled \in Nat
    /\ turn \in {NoTurn, OwnTurn} \cup Cancelers
    /\ mayYield \in BOOLEAN
    /\ state \in [Conts -> ContState]
    /\ lastId \in Int
    /\ pc \in [Cancelers \cup Joiners -> CancelerPCs \cup JoinerPCs]
    /\ died \in BOOLEAN
    /\ impossible \subseteq ImpossibleBranches
    /\ fuel \in Nat

(* The run loop has one owner at a time: it is running, or scheduled once, *)
(* or suspended and free to be taken, or held by the one canceler that     *)
(* took it from a suspended fiber. Unless it ran out with an exception, a  *)
(* fiber that did not complete is always owned, so it cannot get lost; a   *)
(* completed one never runs again. (resume, suspend, schedule, _cancel and *)
(* the async callback hand the ownership over.)                            *)
IsOwner(p) == pc[p] = "owner"

AtMostOneOwner ==
    /\ suspended => scheduled = 0 /\ turn = NoTurn
    /\ scheduled > 0 => scheduled = 1 /\ turn = NoTurn
    /\ \A k \in Cancelers :
        IsOwner(k) => /\ ~suspended /\ scheduled = 0 /\ turn = NoTurn
                      /\ \A l \in Cancelers : IsOwner(l) => l = k

Owned ==
    suspended \/ scheduled > 0 \/ turn # NoTurn \/ \E k \in Cancelers : IsOwner(k)

RunLoopOwnership ==
    /\ AtMostOneOwner
    /\ outcome = NotCompleted /\ ~died => Owned
    /\ outcome # NotCompleted => ~Owned /\ resumeTag = "Done"

(* The mask count is the number of uncancelable regions the fiber is in,   *)
(* less those a poll lifted, plus one while it finalizes (the counters the *)
(* continuations restore agree with the continuations that are there).     *)
CountOf(tag) == Cardinality({i \in DOMAIN conts : conts[i] = tag})

MasksBalanced ==
    outcome = NotCompleted =>
        masks = CountOf("UncancelableK") - CountOf("UnmaskK")
                  + (IF finalizing THEN 1 ELSE 0)

(* Finalizers run masked: nothing cancels a fiber again once it finalizes  *)
(* (`do not allow further cancelations` in prepareForCancelation).         *)
FinalizersMasked ==
    finalizing /\ outcome = NotCompleted => masks > 0

(* Outside finalization the registered finalizers are exactly those whose  *)
(* OnCancelK is still to be unwound: a success or a failure of a guarded   *)
(* computation unregisters its finalizer and no other.                     *)
FinalizersBalanced ==
    outcome = NotCompleted /\ ~finalizing => Len(finalizers) = CountOf("OnCancelK")

(* Every continuation finds its own function or execution context on the   *)
(* stack, under the value an asynchronous resumption left there and above  *)
(* the callback of the canceler.                                           *)
HasSlot == {"MapK", "FlatMapK", "HandleErrorWithK", "RunOnK"}

SlotsTo(n) == Cardinality({i \in 1..n : conts[i] \in HasSlot})

Resuming ==
    scheduled > 0 /\ resumeTag \in {"AsyncContinueSuccessful", "AsyncContinueFailed"}

SlotsAbove(base) ==
    /\ Len(stack) = base + SlotsTo(Len(conts)) + (IF Resuming THEN 1 ELSE 0)
    /\ \A i \in DOMAIN conts : conts[i] \in HasSlot => stack[base + SlotsTo(i)] = conts[i]
    /\ Resuming => Last(stack) = "value"

StackMatchesConts ==
    \/ SlotsAbove(0)
    \/ finalizing /\ SlotsAbove(1) /\ Head(stack) \in Cancelers

(* A ContState is Waiting only while the fiber is parked on it, or while   *)
(* the cancelation that took the fiber has not yet run get's finalizer.    *)
WaitingIsParked ==
    \A c \in Conts : state[c].phase = "Waiting" =>
        \/ suspended /\ state[c].wasFinalizing = finalizing /\ ~ShouldFinalize
        \/ cur = c
        \/ /\ \E k \in Cancelers : IsOwner(k)
           /\ Last(finalizers) = c

(* The branches the code comments call impossible, or that only a race     *)
(* could reach, are never taken: the illegal state of IOContGet, and in    *)
(* the callback the retry loop, the canceled resumption and the result     *)
(* that meets another finalization stage.                                  *)
NothingImpossible == impossible = {}

(* Whoever waits is answered with the outcome: no joiner and no canceler   *)
(* is left waiting on a completed fiber, and none is answered before it.   *)
AnsweredWithOutcome ==
    \A p \in Cancelers \cup Joiners :
        /\ pc[p] = "done" => outcome # NotCompleted
        /\ pc[p] \in {"awaiting", "joined", "owner"} => outcome = NotCompleted

(* A fiber ends once, Canceled only if it was asked to, and never with a   *)
(* finalizer left to run.                                                  *)
EndsOnce ==
    [][outcome' # outcome =>
         /\ outcome = NotCompleted
         /\ outcome' = "Canceled" <=> canceled'
         /\ finalizers = <<>> \/ resumeTag = "Exec"]_vars

(* cancel returns, even from a fiber that waits for a callback that never  *)
(* comes: only callbacks awaited in masked regions are owed.               *)
CancelReturns ==
    \A k \in Cancelers : pc[k] \notin {"idle", "done"} ~> pc[k] = "done"

(* A callback's first result is the one that counts.                       *)
FirstResultWins ==
    [][\A c \in Conts :
         state[c].phase = "Result" => state'[c].result = state[c].result]_vars

(* The contract of a fiber (module Fiber), implemented: what the contract  *)
(* calls waiting is anything between the call and its answer.              *)
Contract == INSTANCE Fiber WITH
    pc <- [p \in Cancelers \cup Joiners |->
             IF pc[p] \in {"owner", "awaiting", "joining", "joined"}
             THEN "waiting" ELSE pc[p]]

(* Every step of the run loop and of its environment is a step of the      *)
(* contract or invisible to it (for bodies that do not throw).             *)
ImplementsContract == Contract!Spec

(* And with the event loop's fairness it keeps the contract's promise to   *)
(* answer those who cancel.                                                *)
ImplementsFairContract == Contract!FairSpec
=============================================================================
