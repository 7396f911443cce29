----------------------------- MODULE Dispatcher -----------------------------
(***************************************************************************)
(* Dispatcher (effect/std/src/dispatcher.ts): code outside of the effect   *)
(* system submits computations, and worker fibers run them under a         *)
(* Supervisor. Submitting and canceling are plain synchronous calls; each  *)
(* step of a worker is one effect, and any call or fiber may come between  *)
(* two of them. The timer that lazySet starts is a step of its own. The    *)
(* call cancelState = {.. pref: [.., p]} of cancel() reads the constant p  *)
(* before it is set: it throws inside the constructor of the promise,      *)
(* which is rejected, and cancelState remains "init".                      *)
(***************************************************************************)
EXTENDS Naturals, FiniteSets, Sequences, SequencesExt

CONSTANTS
    Calls,      \* The computations submitted by unsafeToPromiseCancelable
    Cancelable, \* Those whose cancel() somebody may call
    Cpus        \* The number of workers

Workers == 1..Cpus

(* The registrations: the calls, and their cancel tokens.                  *)
Actions == ({"run"} \X Calls) \cup ({"cancel"} \X Cancelable)

ASSUME DispatcherAssumption == Cpus \in Nat \ {0} /\ Cancelable \subseteq Calls

VARIABLES
    alive,          \* The alive Ref
    latch,          \* The latch of each worker: Noop, Open, or its callback
    state,          \* Its registrations, the latest first
    worker,         \* Where the worker is, and the registrations it took
    inactive,       \* The calls whose registration is no longer active
    timers,         \* The calls whose lazySet(false) has not come yet
    cancelTokens,   \* The calls whose cancelState holds a cancel token
    canceled,       \* The calls whose cancel() was called
    shutdown,       \* How far the release of the dispatcher is
    arrived,        \* All registrations of each worker, in their order
    tokens, fiber, done, asked, snapshot  \* The supervisor

queues == <<latch, state, arrived>>
calls == <<inactive, timers, cancelTokens, canceled>>
supervised == <<tokens, fiber, done, asked, snapshot>>
vars == <<alive, queues, worker, calls, shutdown, supervised>>

S == INSTANCE Supervisor

WorkerPCs ==
    {"reset",       \* About to set the latch to Noop
     "take",        \* About to take the registrations
     "park",        \* Took none, about to exchange its callback for Noop
     "parked",      \* Suspended
     "took",        \* Took some, about to traverse them
     "start",       \* Masked: about to start the first of rgs
     "insert", "check", "prepare",  \* In supervise(), and after it
     "stopped"}

TypeOK ==
    /\ alive \in BOOLEAN
    /\ latch \in [Workers -> {"Noop", "Open", "callback"}]
    /\ state \in [Workers -> Seq(Actions)]
    /\ worker \in [Workers -> [pc : WorkerPCs, rgs : Seq(Actions)]]
    /\ inactive \subseteq Calls /\ timers \subseteq Calls
    /\ cancelTokens \subseteq Calls /\ canceled \subseteq Calls
    /\ shutdown \in {"use", "workers", "alive", "supervisor", "cancels", "released"}
    /\ arrived \in [Workers -> Seq(Actions)]
    /\ S!TypeOK

Init ==
    /\ alive = TRUE
    /\ latch = [w \in Workers |-> "Noop"]
    /\ state = [w \in Workers |-> <<>>]
    /\ worker = [w \in Workers |-> [pc |-> "reset", rgs |-> <<>>]]
    /\ inactive = {} /\ timers = {} /\ cancelTokens = {} /\ canceled = {}
    /\ shutdown = "use"
    /\ arrived = [w \in Workers |-> <<>>]
    /\ S!Init

-----------------------------------------------------------------------------
(* unsafeToPromiseCancelable: enqueues the action with a worker chosen at  *)
(* random, and calls what the latch holds.                                 *)

Submitted(a) == \E w \in Workers : a \in ToSet(arrived[w])

(* Mutant: the latch is opened, and the callback it held is not called.    *)
EnqueueAsleep(a, w) ==
    /\ arrived' = [arrived EXCEPT ![w] = Append(@, a)]
    /\ state' = [state EXCEPT ![w] = <<a>> \o @]
    /\ latch' = [latch EXCEPT ![w] = "Open"]
    /\ UNCHANGED worker

Enqueue(a, w) ==
    /\ arrived' = [arrived EXCEPT ![w] = Append(@, a)]
    /\ state' = [state EXCEPT ![w] = <<a>> \o @]
    /\ latch' = [latch EXCEPT ![w] = "Open"]
    /\ worker' = IF latch[w] = "callback" /\ worker[w].pc = "parked"
                 THEN [worker EXCEPT ![w].pc = "reset"] ELSE worker

Call(c) ==
    /\ alive
    /\ ~Submitted(<<"run", c>>)
    /\ \E w \in Workers : Enqueue(<<"run", c>>, w)
    /\ UNCHANGED <<alive, calls, shutdown, supervised>>

(* cancel(), which may be called again, until it has submitted the token:  *)
(* without one all it does is to start the timer.                          *)
CancelCall(c) ==
    /\ Submitted(<<"run", c>>) /\ ~Submitted(<<"cancel", c>>)
    /\ c \in canceled => c \in cancelTokens /\ alive
    /\ canceled' = canceled \cup {c}
    /\ timers' = timers \cup {c}
    /\ IF c \in cancelTokens /\ alive
         THEN \E w \in Workers : Enqueue(<<"cancel", c>>, w)
         ELSE UNCHANGED <<queues, worker>>
    /\ UNCHANGED <<alive, inactive, cancelTokens, shutdown, supervised>>

(* The timer of lazySet(false).                                            *)
Timer(c) ==
    /\ c \in timers
    /\ timers' = timers \ {c}
    /\ inactive' = inactive \cup {c}
    /\ UNCHANGED <<alive, queues, worker, cancelTokens, canceled, shutdown, supervised>>

-----------------------------------------------------------------------------
(* dispatcher(latch, state), run by F.foreverM.                            *)

At(w, pc) == worker[w].pc = pc
Goto(w, pc) == worker' = [worker EXCEPT ![w].pc = pc]

ResetLatch(w) ==
    /\ At(w, "reset")
    /\ latch' = [latch EXCEPT ![w] = "Noop"]
    /\ Goto(w, "take")
    /\ UNCHANGED <<alive, state, arrived, calls, shutdown, supervised>>

(* Mutant: the registrations are taken in the order of the list.           *)
TakeUnreversed(w) ==
    /\ At(w, "take")
    /\ worker' = [worker EXCEPT ![w] =
                    [pc |-> IF state[w] = <<>> THEN "park" ELSE "took", rgs |-> state[w]]]
    /\ state' = [state EXCEPT ![w] = <<>>]
    /\ UNCHANGED <<alive, latch, arrived, calls, shutdown, supervised>>

Take(w) ==
    /\ At(w, "take")
    /\ worker' = [worker EXCEPT ![w] =
                    [pc |-> IF state[w] = <<>> THEN "park" ELSE "took",
                     rgs |-> Reverse(state[w])]]
    /\ state' = [state EXCEPT ![w] = <<>>]
    /\ UNCHANGED <<alive, latch, arrived, calls, shutdown, supervised>>

(* Mutant: the worker installs its callback without a look at the latch.   *)
ParkRegardless(w) ==
    /\ At(w, "park")
    /\ latch' = [latch EXCEPT ![w] = "callback"]
    /\ Goto(w, "parked")
    /\ UNCHANGED <<alive, state, arrived, calls, shutdown, supervised>>

(* A latch opened since it was reset calls the worker back at once.        *)
Park(w) ==
    /\ At(w, "park")
    /\ IF latch[w] = "Noop"
         THEN latch' = [latch EXCEPT ![w] = "callback"] /\ Goto(w, "parked")
         ELSE Goto(w, "reset") /\ UNCHANGED latch
    /\ UNCHANGED <<alive, state, arrived, calls, shutdown, supervised>>

(* F.uncancelable: until the last of rgs is started.                       *)
Mask(w) ==
    /\ At(w, "took")
    /\ Goto(w, "start")
    /\ UNCHANGED <<alive, queues, calls, shutdown, supervised>>

(* The first of rgs is skipped if it is no longer active. A cancel token   *)
(* always is.                                                              *)
Current(w) == Head(worker[w].rgs)

IsInactive(a) == a[1] = "run" /\ a[2] \in inactive

Advance(w) ==
    worker' = [worker EXCEPT ![w] =
                 [pc |-> IF Len(@.rgs) = 1 THEN "reset" ELSE "start", rgs |-> Tail(@.rgs)]]

Start(w) ==
    /\ At(w, "start")
    /\ IF IsInactive(Current(w))
         THEN Advance(w) /\ UNCHANGED supervised
         ELSE S!Fork(Current(w)) /\ Goto(w, "insert")
    /\ UNCHANGED <<alive, queues, calls, shutdown>>

Insert(w) ==
    /\ At(w, "insert")
    /\ S!Insert(Current(w))
    /\ Goto(w, "check")
    /\ UNCHANGED <<alive, queues, calls, shutdown>>

Check(w) ==
    /\ At(w, "check")
    /\ S!Check(Current(w))
    /\ Goto(w, "prepare")
    /\ UNCHANGED <<alive, queues, calls, shutdown>>

(* prepareCancel(f.cancel), registerCancel: nobody cancels a cancel token. *)
PrepareCancel(w) ==
    /\ At(w, "prepare")
    /\ cancelTokens' = IF Current(w)[1] = "run" THEN cancelTokens \cup {Current(w)[2]}
                       ELSE cancelTokens
    /\ Advance(w)
    /\ UNCHANGED <<alive, queues, inactive, timers, canceled, shutdown, supervised>>

WorkerStep(w) ==
    \/ ResetLatch(w) \/ Take(w) \/ Park(w) \/ Mask(w)
    \/ Start(w) \/ Insert(w) \/ Check(w) \/ PrepareCancel(w)

-----------------------------------------------------------------------------
(* The supervised fibers. The action of a cancel token asks the fiber of   *)
(* its call to end, and waits for it.                                      *)

unsupervised == <<alive, queues, worker, calls, shutdown>>

Target(a) == <<"run", a[2]>>

RunAction(a) == S!Run(a) /\ UNCHANGED unsupervised

CancelTarget(a) ==
    /\ a[1] = "cancel" /\ fiber[a] = "running"
    /\ S!Ask(Target(a))
    /\ UNCHANGED unsupervised

(* A submitted computation may end by itself.                              *)
EndAction(a) == a[1] = "run" /\ S!Leave(a) /\ UNCHANGED unsupervised

EndCanceled(a) ==
    /\ a \in asked \/ (a[1] = "cancel" /\ S!Ended(Target(a)))
    /\ S!Leave(a)
    /\ UNCHANGED unsupervised

FinalizeAction(a) == (S!SetDone(a) \/ S!Cleanup(a)) /\ UNCHANGED unsupervised

ActionStep(a) ==
    RunAction(a) \/ CancelTarget(a) \/ EndCanceled(a) \/ FinalizeAction(a)

-----------------------------------------------------------------------------
(* The release of the dispatcher, in the reverse order of its acquisition. *)

BeginShutdown ==
    /\ shutdown = "use"
    /\ shutdown' = "workers"
    /\ UNCHANGED <<alive, queues, worker, calls, supervised>>

(* Mutant: the workers are canceled in the middle of a supervise() too.    *)
StopWorkerUnmasked(w) ==
    /\ shutdown = "workers"
    /\ worker[w].pc # "stopped"
    /\ \A v \in Workers : v > w => At(v, "stopped")
    /\ worker' = [worker EXCEPT ![w] = [pc |-> "stopped", rgs |-> <<>>]]
    /\ UNCHANGED <<alive, queues, calls, shutdown, supervised>>

(* F.background: the last worker first. A worker canceled before it began  *)
(* to traverse the registrations it took forgets them.                     *)
StopWorker(w) ==
    /\ shutdown = "workers"
    /\ worker[w].pc \in {"reset", "take", "park", "parked", "took"}
    /\ \A v \in Workers : v > w => At(v, "stopped")
    /\ worker' = [worker EXCEPT ![w] = [pc |-> "stopped", rgs |-> <<>>]]
    /\ UNCHANGED <<alive, queues, calls, shutdown, supervised>>

WorkersStopped ==
    /\ shutdown = "workers"
    /\ \A w \in Workers : At(w, "stopped")
    /\ shutdown' = "alive"
    /\ UNCHANGED <<alive, queues, worker, calls, supervised>>

Die ==
    /\ shutdown = "alive"
    /\ alive' = FALSE
    /\ shutdown' = "supervisor"
    /\ UNCHANGED <<queues, worker, calls, supervised>>

ReadTokens ==
    /\ shutdown = "supervisor"
    /\ S!ReadTokens
    /\ shutdown' = "cancels"
    /\ UNCHANGED <<alive, queues, worker, calls>>

CancelToken(a) ==
    /\ shutdown = "cancels"
    /\ S!CancelToken(a)
    /\ UNCHANGED unsupervised

Released ==
    /\ shutdown = "cancels"
    /\ S!AllEnded
    /\ shutdown' = "released"
    /\ UNCHANGED <<alive, queues, worker, calls, supervised>>

Shutdown ==
    \/ WorkersStopped \/ Die \/ ReadTokens \/ Released
    \/ (\E w \in Workers : StopWorker(w))
    \/ (\E a \in Actions : CancelToken(a))

-----------------------------------------------------------------------------
Next ==
    \/ \E c \in Calls : Call(c)
    \/ \E c \in Cancelable : CancelCall(c) \/ Timer(c)
    \/ \E w \in Workers : WorkerStep(w)
    \/ \E a \in Actions : ActionStep(a) \/ EndAction(a)
    \/ BeginShutdown \/ Shutdown

Spec == Init /\ [][Next]_vars

(* The runtime resumes every fiber that can go on. Nobody has to call, to  *)
(* cancel or to release the dispatcher, and a computation need not end by  *)
(* itself.                                                                 *)
FairSpec ==
    /\ Spec
    /\ \A w \in Workers : WF_vars(WorkerStep(w))
    /\ \A a \in Actions : WF_vars(ActionStep(a))
    /\ WF_vars(Shutdown)

-----------------------------------------------------------------------------
(* Properties.                                                             *)

(* A worker starts its registrations in the order in which they were       *)
(* submitted: whatever it still has to start, of the ones it took and then *)
(* of the ones it did not, is an end of all that arrived.                  *)
StartsInOrder ==
    \A w \in Workers :
        LET rest == worker[w].rgs \o Reverse(state[w]) IN
        worker[w].pc # "stopped" => IsSuffix(rest, arrived[w])

(* No wake-up is lost: a submission that comes between the worker's look at*)
(* its list and its exchange of the latch, or while it sleeps, never leaves*)
(* it asleep beside a registration.                                        *)
NoWakeUpLost == \A w \in Workers : At(w, "parked") => state[w] = <<>>

(* The supervisor holds the token of a fiber exactly as long as the fiber  *)
(* lives (while the fiber removes it, it may be gone already): every fiber *)
(* can be canceled from the moment supervise() records it, and none leaves *)
(* its token behind, though it may end before it is recorded. One case     *)
(* does leave its token behind: a fiber canceled before its first node     *)
(* never installs the finalizer that removes it.                           *)
Recording(a) == \E w \in Workers : worker[w].rgs # <<>> /\ Current(w) = a
                                     /\ worker[w].pc \in {"insert", "check"}

NeverRan(a) == S!Ended(a) /\ a \notin done

TokensExact ==
    \A a \in Actions : ~Recording(a) /\ fiber[a] # "cleaning" =>
        (a \in tokens <=> fiber[a] \notin {"none", "ended"} \/ NeverRan(a))

(* No computation outlives the dispatcher, whichever step its release      *)
(* finds the workers and the fibers at. (A fiber that found its token      *)
(* removed by the worker may have its own removal left to run.)            *)
NothingOutlives ==
    shutdown = "released" =>
        \A a \in Actions : fiber[a] \in {"none", "cleaning", "ended"}

(* As long as the dispatcher is in use, every submitted computation is     *)
(* started, or skipped because it was canceled, and every submitted cancel *)
(* token ends its fiber; the release of the dispatcher always ends.        *)
Served(a) ==
    IF a[1] = "run" THEN fiber[a] # "none" \/ IsInactive(a)
    ELSE S!Ended(Target(a))

RegistrationsServed ==
    <>[](\/ shutdown = "released"
         \/ shutdown = "use" /\ \A a \in Actions : Submitted(a) => Served(a))
=============================================================================
