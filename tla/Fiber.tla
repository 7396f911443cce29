------------------------------- MODULE Fiber -------------------------------
(***************************************************************************)
(* What a fiber promises to the fibers that join or cancel it              *)
(* (effect/kernel/src/fiber.ts: join, cancel), with no word of run loops,  *)
(* masks or finalizers: it ends at most once; it ends Canceled exactly if  *)
(* a cancelation was requested before the end; join and cancel return only *)
(* after the end, and everybody who waited is answered.                    *)
(***************************************************************************)
EXTENDS Naturals

CONSTANTS
    Cancelers,  \* Fibers that call cancel
    Joiners     \* Fibers that call join

VARIABLES
    outcome,    \* How the fiber ended
    canceled,   \* Was a cancelation requested, by a canceler or by the fiber?
    pc          \* Where each caller is

vars == <<outcome, canceled, pc>>

Outcomes == {"Success", "Failure", "Canceled"}
NotCompleted == "NotCompleted"
Callers == Cancelers \cup Joiners

Init ==
    /\ outcome = NotCompleted
    /\ canceled = FALSE
    /\ pc = [p \in Callers |-> "idle"]

(* A call to cancel requests the cancelation at once.                      *)
Call(p) ==
    /\ pc[p] = "idle"
    /\ pc' = [pc EXCEPT ![p] = "waiting"]
    /\ canceled' = (canceled \/ p \in Cancelers)
    /\ UNCHANGED outcome

(* A caller that sees the fiber completed has nothing to request.          *)
CallCompleted(p) ==
    /\ pc[p] = "idle"
    /\ outcome # NotCompleted
    /\ pc' = [pc EXCEPT ![p] = "done"]
    /\ UNCHANGED <<outcome, canceled>>

(* The fiber cancels itself.                                               *)
SelfCancel ==
    /\ outcome = NotCompleted
    /\ canceled' = TRUE
    /\ UNCHANGED <<outcome, pc>>

(* The fiber ends, answering the callers it knows of.                      *)
Complete ==
    /\ outcome = NotCompleted
    /\ outcome' \in Outcomes
    /\ canceled' \in {canceled, TRUE}
    /\ outcome' = "Canceled" <=> canceled'
    /\ \E known \in SUBSET {p \in Callers : pc[p] = "waiting"} :
        pc' = [p \in Callers |-> IF p \in known THEN "done" ELSE pc[p]]

Answer(p) ==
    /\ pc[p] = "waiting"
    /\ outcome # NotCompleted
    /\ pc' = [pc EXCEPT ![p] = "done"]
    /\ UNCHANGED <<outcome, canceled>>

(* Only a joiner can be canceled while it waits.                           *)
Abandon(j) ==
    /\ pc[j] = "waiting"
    /\ pc' = [pc EXCEPT ![j] = "abandoned"]
    /\ UNCHANGED <<outcome, canceled>>

Next ==
    \/ SelfCancel
    \/ Complete
    \/ \E p \in Callers : Call(p) \/ CallCompleted(p) \/ Answer(p)
    \/ \E j \in Joiners : Abandon(j)

Spec == Init /\ [][Next]_vars

(* A canceled fiber ends, and whoever called cancel hears of it.           *)
FairSpec ==
    /\ Spec
    /\ WF_vars(canceled /\ Complete)
    /\ \A k \in Cancelers : WF_vars(Answer(k))
=============================================================================
