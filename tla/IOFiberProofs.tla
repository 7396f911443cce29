--------------------------- MODULE IOFiberProofs ---------------------------
(***************************************************************************)
(* Proofs about the run loop of IOFiber, for any number of cancelers,      *)
(* joiners, ContStates and program nodes.                                  *)
(***************************************************************************)
EXTENDS IOFiber, FiniteSetTheorems, SequenceTheorems, TLAPS

(* Popping a stack of elements of S, and looking at its top.               *)
LEMMA FrontLastType ==
    ASSUME NEW S, NEW s \in Seq(S)
    PROVE  /\ Front(s) \in Seq(S)
           /\ s # <<>> => Last(s) \in S
<1>1. Len(s) \in Nat /\ s \in [1..Len(s) -> S]
  OBVIOUS
<1>2. Front(s) \in Seq(S)
  <2>1. CASE Len(s) = 0
    BY <2>1 DEF Front
  <2>2. CASE Len(s) > 0
    BY <1>1, <2>2 DEF Front
  <2> QED BY <1>1, <2>1, <2>2
<1>3. s # <<>> => Last(s) \in S
  BY <1>1 DEF Last
<1> QED BY <1>2, <1>3

(* Taking one element out of a sequence.                                   *)
LEMMA RemoveAtType ==
    ASSUME NEW S, NEW s \in Seq(S), NEW i \in DOMAIN s
    PROVE  RemoveAt(s, i) \in Seq(S)
<1>1. i \in 1..Len(s) /\ Len(s) \in Nat
  OBVIOUS
<1>2. SubSeq(s, 1, i-1) \in Seq(S)
  BY <1>1
<1>3. SubSeq(s, i+1, Len(s)) \in Seq(S)
  BY <1>1
<1> QED BY <1>2, <1>3 DEF RemoveAt

-----------------------------------------------------------------------------
(* complete() keeps the types, whatever its caller does to the rest.       *)
LEMMA CompleteType ==
    ASSUME TypeOK, NEW oc \in Outcomes, NEW cb, Complete(oc, cb),
           canceled' \in BOOLEAN, scheduled' \in Nat, mayYield' \in BOOLEAN,
           fuel' \in Nat, UNCHANGED <<state, died, impossible>>
    PROVE  TypeOK'
<1>1. pc' \in [Cancelers \cup Joiners -> CancelerPCs \cup JoinerPCs]
  BY DEF TypeOK, Complete, CancelerPCs, JoinerPCs
<1>2. /\ stack' \in Seq(Continuations \cup {"value"} \cup Cancelers)
      /\ conts' \in Seq(Continuations)
      /\ finalizers' \in Seq({"any"} \cup Conts)
      /\ callbacks' \in Seq(Cancelers \cup Joiners)
  BY DEF Complete
<1>3. /\ outcome' \in Outcomes \cup {NotCompleted}
      /\ masks' \in Int
      /\ resumeTag' \in ResumeTags
      /\ cur' \in IOs \cup Unwound \cup {NoIO}
      /\ turn' \in {NoTurn, OwnTurn} \cup Cancelers
  BY DEF Complete, ResumeTags
<1>4. finalizing' \in BOOLEAN /\ lastId' \in Int /\ suspended' \in BOOLEAN
  BY DEF Complete, TypeOK
<1>5. /\ state' \in [Conts -> ContState]
      /\ died' \in BOOLEAN
      /\ impossible' \subseteq ImpossibleBranches
  BY DEF TypeOK
<1> QED
  BY <1>1, <1>2, <1>3, <1>4, <1>5 DEF TypeOK

(* So does prepareForCancelation.                                          *)
LEMMA PrepareForCancelationType ==
    ASSUME TypeOK, NEW cb \in Cancelers \cup {NoCb},
           NEW ks \in Seq(Continuations),
           NEW st \in Seq(Continuations \cup {"value"} \cup Cancelers),
           PrepareForCancelation(cb, ks, st),
           canceled' \in BOOLEAN, scheduled' \in Nat, mayYield' \in BOOLEAN,
           fuel' \in Nat, UNCHANGED <<state, died, impossible>>
    PROVE  TypeOK'
<1>1. CASE finalizers = <<>>
  BY <1>1, CompleteType DEF PrepareForCancelation, Outcomes
<1>2. CASE finalizers # <<>>
  <2>1. finalizers \in Seq({"any"} \cup Conts)
    BY DEF TypeOK
  <2>2. /\ finalizers' \in Seq({"any"} \cup Conts)
        /\ cur' \in IOs
    BY <1>2, <2>1, FrontLastType DEF PrepareForCancelation, IOs
  <2>3. conts' \in Seq(Continuations)
    <3>1. conts' = ks \/ conts' = <<"CancelationLoopK">>
      BY <1>2 DEF PrepareForCancelation
    <3>2. "CancelationLoopK" \in Continuations
      BY DEF Continuations
    <3>3. <<"CancelationLoopK">> \in Seq(Continuations)
      BY <3>2
    <3>4. CASE conts' = ks
      BY <3>4
    <3>5. CASE conts' = <<"CancelationLoopK">>
      BY <3>3, <3>5
    <3> QED BY <3>1, <3>4, <3>5
  <2>4. stack' \in Seq(Continuations \cup {"value"} \cup Cancelers)
    <3>1. stack' = st \/ stack' = <<>> \/ (cb # NoCb /\ stack' = <<cb>>)
      BY <1>2 DEF PrepareForCancelation
    <3>2. CASE stack' = st
      BY <3>2
    <3>3. CASE stack' = <<>>
      BY <3>3
    <3>4. CASE cb # NoCb /\ stack' = <<cb>>
      BY <3>4
    <3> QED BY <3>1, <3>2, <3>3, <3>4
  <2>5. pc' \in [Cancelers \cup Joiners -> CancelerPCs \cup JoinerPCs]
    BY <1>2 DEF PrepareForCancelation, TypeOK, CancelerPCs
  <2>6. turn' \in {NoTurn, OwnTurn} \cup Cancelers
    BY <1>2 DEF PrepareForCancelation, TypeOK
  <2> QED
    BY <1>2, <2>2, <2>3, <2>4, <2>5, <2>6 DEF PrepareForCancelation, TypeOK
<1> QED BY <1>1, <1>2

-----------------------------------------------------------------------------
(* The run loop keeps the types: one step per action.                      *)
LEMMA LoopStepType == TypeOK /\ LoopStep => TypeOK'
<1> SUFFICES ASSUME TypeOK, LoopStep PROVE TypeOK'
  OBVIOUS
<1> USE DEF loopVars, frameVars, maskVars, doneVars, ghostVars
<1>1. CASE Finalize
  <2>1. mayYield' \in BOOLEAN /\ scheduled' \in Nat /\ fuel' \in Nat /\ canceled' \in BOOLEAN
    BY <1>1 DEF Finalize, TypeOK
  <2>2. /\ conts \in Seq(Continuations)
        /\ stack \in Seq(Continuations \cup {"value"} \cup Cancelers)
    BY DEF TypeOK
  <2>3. PrepareForCancelation(NoCb, conts, stack) /\ UNCHANGED <<state, died, impossible>>
    BY <1>1 DEF Finalize
  <2> QED BY <2>1, <2>2, <2>3, PrepareForCancelationType
<1>2. CASE AutoSuspend
  BY <1>2 DEF AutoSuspend, Schedule, AtTop, IOs, ResumeTags, TypeOK
<1>3. CASE Pure
  BY <1>3 DEF Pure, Interpret, Unwound, TypeOK
<1>4. CASE Fail
  BY <1>4 DEF Fail, Interpret, Unwound, TypeOK
<1>28. CASE Defer
  BY <1>28 DEF Defer, Node, Interpret, TypeOK
<1>5. CASE Map
  BY <1>5 DEF Map, PushTransformer, Node, Interpret, Continuations, TypeOK
<1>6. CASE FlatMap
  BY <1>6 DEF FlatMap, PushTransformer, Node, Interpret, Continuations, TypeOK
<1>7. CASE HandleErrorWith
  BY <1>7 DEF HandleErrorWith, PushTransformer, Node, Interpret, Continuations, TypeOK
<1>8. CASE Attempt
  BY <1>8 DEF Attempt, PushTransformer, Node, Interpret, Continuations, TypeOK
<1>9. CASE OnCancel
  BY <1>9 DEF OnCancel, Node, Interpret, Continuations, TypeOK
<1>10. CASE Canceled
  <2>1. /\ mayYield' \in BOOLEAN /\ scheduled' \in Nat /\ fuel' \in Nat
        /\ canceled' \in BOOLEAN /\ UNCHANGED <<state, died, impossible>>
    BY <1>10 DEF Canceled, Node, Interpret, TypeOK
  <2>2. /\ conts \in Seq(Continuations)
        /\ stack \in Seq(Continuations \cup {"value"} \cup Cancelers)
    BY DEF TypeOK
  <2>3. CASE IsUnmasked
    <3>1. PrepareForCancelation(NoCb, conts, stack)
      BY <1>10, <2>3 DEF Canceled
    <3> QED BY <2>1, <2>2, <3>1, PrepareForCancelationType
  <2>4. CASE ~IsUnmasked
    BY <1>10, <2>1, <2>4 DEF Canceled, Unwound, TypeOK
  <2> QED BY <2>3, <2>4
<1>11. CASE IOCont
  <2>1. /\ mayYield' \in BOOLEAN /\ fuel' \in Nat
        /\ UNCHANGED <<frameVars, maskVars, outcome, callbacks, impossible,
                       resumeTag, scheduled, suspended>>
    BY <1>11 DEF IOCont, Node, Interpret, TypeOK
  <2>2. state' \in [Conts -> ContState]
    BY <1>11 DEF IOCont, TypeOK, ContState, Phases
  <2>3. \/ UNCHANGED <<cur, turn, died, pc>>
        \/ Die
    BY <1>11 DEF IOCont
  <2>4. /\ cur' \in IOs \cup Unwound \cup {NoIO}
        /\ turn' \in {NoTurn, OwnTurn} \cup Cancelers
        /\ died' \in BOOLEAN
        /\ pc' \in [Cancelers \cup Joiners -> CancelerPCs \cup JoinerPCs]
    BY <2>3 DEF Die, TypeOK, CancelerPCs
  <2> QED BY <2>1, <2>2, <2>4 DEF TypeOK
<1>12. CASE IOContGet
  <2>1. /\ mayYield' \in BOOLEAN /\ fuel' \in Nat
        /\ UNCHANGED <<stack, maskVars, outcome, callbacks, resumeTag, scheduled>>
    BY <1>12 DEF IOContGet, Node, Interpret, TypeOK
  <2>2. PICK c \in Conts : /\ finalizers' = Append(finalizers, c)
                            /\ conts' = Append(conts, "OnCancelK")
                            /\ Get(c)
    BY <1>12 DEF IOContGet
  <2>3. /\ finalizers' \in Seq({"any"} \cup Conts)
        /\ conts' \in Seq(Continuations)
    BY <2>2 DEF TypeOK, Continuations
  <2>4. state' \in [Conts -> ContState] /\ suspended' \in BOOLEAN
    <3>1. \/ UNCHANGED <<state, suspended>>
          \/ /\ state' = [state EXCEPT ![c].phase = "Waiting",
                                       ![c].wasFinalizing = finalizing]
             /\ suspended' = TRUE
      BY <2>2 DEF Get
    <3>2. CASE UNCHANGED <<state, suspended>>
      BY <3>2 DEF TypeOK
    <3>3. CASE /\ state' = [state EXCEPT ![c].phase = "Waiting",
                                        ![c].wasFinalizing = finalizing]
               /\ suspended' = TRUE
      BY <3>3 DEF TypeOK, ContState, Phases
    <3> QED BY <3>1, <3>2, <3>3
  <2>5. /\ cur' \in IOs \cup Unwound \cup {NoIO}
        /\ turn' \in {NoTurn, OwnTurn} \cup Cancelers
        /\ pc' \in [Cancelers \cup Joiners -> CancelerPCs \cup JoinerPCs]
    BY <2>2 DEF Get, Die, TypeOK, Unwound, CancelerPCs
  <2>6. died' \in BOOLEAN /\ impossible' \subseteq ImpossibleBranches
    BY <2>2 DEF Get, Die, TypeOK, ImpossibleBranches
  <2> QED BY <2>1, <2>3, <2>4, <2>5, <2>6 DEF TypeOK
<1>13. CASE ContFinalizer
  BY <1>13 DEF ContFinalizer, Interpret, Unwound, ContState, Phases, TypeOK
<1>14. CASE Uncancelable
  <2>1. /\ mayYield' \in BOOLEAN /\ fuel' \in Nat
        /\ UNCHANGED <<stack, finalizers, canceled, finalizing, outcome, callbacks,
                       state, impossible, resumeTag, scheduled, suspended>>
    BY <1>14 DEF Uncancelable, Node, Interpret, TypeOK
  <2>2. masks' \in Int /\ lastId' \in Int
    BY <1>14 DEF Uncancelable, TypeOK
  <2>3. conts' \in Seq(Continuations)
    BY <1>14 DEF Uncancelable, TypeOK, Continuations
  <2>4. \/ UNCHANGED <<cur, turn, died, pc>>
        \/ Die
    BY <1>14 DEF Uncancelable
  <2>5. /\ cur' \in IOs \cup Unwound \cup {NoIO}
        /\ turn' \in {NoTurn, OwnTurn} \cup Cancelers
        /\ died' \in BOOLEAN
        /\ pc' \in [Cancelers \cup Joiners -> CancelerPCs \cup JoinerPCs]
    BY <2>4 DEF Die, TypeOK, CancelerPCs
  <2> QED BY <2>1, <2>2, <2>3, <2>5 DEF TypeOK
<1>15. CASE UnmaskRunLoop
  <2>1. /\ mayYield' \in BOOLEAN /\ fuel' \in Nat
        /\ UNCHANGED <<stack, finalizers, canceled, finalizing, lastId, doneVars, state,
                       died, impossible, resumeTag, cur, scheduled, turn, suspended>>
    BY <1>15 DEF UnmaskRunLoop, Node, Interpret, TypeOK
  <2>2. masks' \in Int
    BY <1>15 DEF UnmaskRunLoop, TypeOK
  <2>3. conts' \in Seq(Continuations)
    <3>1. conts' = conts \/ conts' = Append(conts, "UnmaskK")
      BY <1>15 DEF UnmaskRunLoop
    <3>2. conts \in Seq(Continuations) /\ Append(conts, "UnmaskK") \in Seq(Continuations)
      BY DEF TypeOK, Continuations
    <3> QED BY <3>1, <3>2
  <2> QED BY <2>1, <2>2, <2>3 DEF TypeOK
<1>16. CASE ExecuteOn
  BY <1>16 DEF ExecuteOn, Node, Interpret, Schedule, Continuations, ResumeTags, TypeOK
<1>17. CASE Suspend
  BY <1>17 DEF Suspend, Node, Interpret, Schedule, ResumeTags, TypeOK
<1>18. CASE ContinueMap
  BY <1>18, FrontLastType DEF ContinueMap, Continue, PopCont, Unwound, IOs, TypeOK
<1>19. CASE ContinueFlatMap
  BY <1>19, FrontLastType DEF ContinueFlatMap, Continue, PopCont, Unwound, IOs, TypeOK
<1>20. CASE ContinueHandleErrorWith
  BY <1>20, FrontLastType DEF ContinueHandleErrorWith, Continue, PopCont, Unwound, IOs, TypeOK
<1>21. CASE ContinueAttempt
  BY <1>21, FrontLastType DEF ContinueAttempt, Continue, PopCont, Unwound, IOs, TypeOK
<1>22. CASE ContinueOnCancel
  <2>1. finalizers' \in Seq({"any"} \cup Conts) /\ conts' \in Seq(Continuations)
    BY <1>22, FrontLastType DEF ContinueOnCancel, Continue, TypeOK
  <2> QED BY <1>22, <2>1 DEF ContinueOnCancel, Continue, PopCont, TypeOK
<1>23. CASE ContinueUncancelable
  BY <1>23, FrontLastType DEF ContinueUncancelable, Continue, PopCont, Unwound, IOs, TypeOK
<1>24. CASE ContinueUnmask
  BY <1>24, FrontLastType DEF ContinueUnmask, Continue, PopCont, Unwound, IOs, TypeOK
<1>25. CASE ExecuteOnK
  <2>1. /\ mayYield' \in BOOLEAN /\ fuel' \in Nat /\ scheduled' \in Nat
        /\ canceled' \in BOOLEAN /\ UNCHANGED <<state, died, impossible>>
    BY <1>25 DEF ExecuteOnK, Schedule, TypeOK
  <2>2. /\ Front(conts) \in Seq(Continuations)
        /\ Front(stack) \in Seq(Continuations \cup {"value"} \cup Cancelers)
    BY FrontLastType DEF TypeOK
  <2>3. CASE ShouldFinalize
    <3>1. PrepareForCancelation(NoCb, Front(conts), Front(stack))
      BY <1>25, <2>3 DEF ExecuteOnK
    <3> QED BY <2>1, <2>2, <3>1, PrepareForCancelationType
  <2>4. CASE ~ShouldFinalize
    <3>1. stack' \in Seq(Continuations \cup {"value"} \cup Cancelers)
      BY <1>25, <2>2, <2>4 DEF ExecuteOnK
    <3>2. resumeTag' \in ResumeTags /\ cur' = NoIO /\ turn' = NoTurn
      BY <1>25, <2>4 DEF ExecuteOnK, Schedule, ResumeTags
    <3> QED BY <1>25, <2>1, <2>2, <2>4, <3>1, <3>2 DEF ExecuteOnK, TypeOK
  <2> QED BY <2>3, <2>4
<1>26. CASE CancelationLoopK
  <2>1. /\ mayYield' \in BOOLEAN /\ fuel' \in Nat /\ scheduled' \in Nat
        /\ canceled' \in BOOLEAN /\ UNCHANGED <<state, died, impossible, mayYield, fuel, scheduled, canceled>>
    BY <1>26 DEF CancelationLoopK, PopCont, TypeOK
  <2>2. CASE finalizers # <<>>
    <3>1. finalizers \in Seq({"any"} \cup Conts)
      BY DEF TypeOK
    <3>2. cur' \in IOs /\ finalizers' \in Seq({"any"} \cup Conts)
      BY <1>26, <2>2, <3>1, FrontLastType DEF CancelationLoopK, IOs
    <3> QED BY <1>26, <2>1, <2>2, <3>2 DEF CancelationLoopK, TypeOK
  <2>3. CASE finalizers = <<>>
    <3>1. PICK cb : Complete("Canceled", cb)
      BY <1>26, <2>3 DEF CancelationLoopK
    <3> QED BY <2>1, <3>1, CompleteType DEF Outcomes
  <2> QED BY <2>2, <2>3
<1>27. CASE TerminateK
  <2>1. /\ mayYield' \in BOOLEAN /\ fuel' \in Nat /\ scheduled' \in Nat
        /\ canceled' \in BOOLEAN /\ UNCHANGED <<state, died, impossible>>
    BY <1>27 DEF TerminateK, PopCont, TypeOK
  <2>2. PICK oc \in Outcomes : Complete(oc, NoCb)
    BY <1>27 DEF TerminateK, Outcomes
  <2> QED BY <2>1, <2>2, CompleteType
<1> QED
  BY <1>1, <1>2, <1>3, <1>4, <1>5, <1>6, <1>7, <1>8, <1>9, <1>10, <1>11, <1>12, <1>13, <1>14, <1>15, <1>16, <1>17, <1>18, <1>19, <1>20, <1>21, <1>22, <1>23, <1>24, <1>25, <1>26, <1>27, <1>28 DEF LoopStep

(* So do the resumptions,                                                  *)
LEMMA RunType == TypeOK /\ Run => TypeOK'
<1> SUFFICES ASSUME TypeOK, Run PROVE TypeOK'
  OBVIOUS
<1> USE DEF loopVars, frameVars, maskVars, doneVars, ghostVars
<1>1. /\ mayYield' \in BOOLEAN /\ fuel' \in Nat /\ scheduled' \in Nat
      /\ UNCHANGED <<state, died, impossible, fuel>>
  <2>1. scheduled > 0 /\ scheduled' = scheduled - 1 /\ mayYield' = FALSE
        /\ UNCHANGED <<state, ghostVars>>
    BY DEF Run
  <2>2. scheduled' \in Nat
    BY <2>1 DEF TypeOK
  <2> QED BY <2>1, <2>2 DEF TypeOK
<1>2. ExecR \/ SuspendR \/ AsyncContinueCanceledR \/ AsyncContinueR
  BY DEF Run
<1>3. CASE ExecR
  <2>1. CASE canceled
    BY <1>1, <1>3, <2>1, CompleteType DEF ExecR, Outcomes, TypeOK
  <2>2. CASE ~canceled
    <3>1. "TerminateK" \in Continuations
      BY DEF Continuations
    <3>2. <<"TerminateK">> \in Seq(Continuations)
      BY <3>1
    <3>4. /\ conts' = <<"TerminateK">> /\ stack' = <<>>
          /\ finalizers' = <<>> /\ turn' = OwnTurn
      BY <1>3, <2>2 DEF ExecR
    <3>5. /\ conts' \in Seq(Continuations)
          /\ stack' \in Seq(Continuations \cup {"value"} \cup Cancelers)
          /\ finalizers' \in Seq({"any"} \cup Conts)
      BY <3>2, <3>4
    <3>3. UNCHANGED <<doneVars, maskVars, resumeTag, cur, suspended>>
      BY <1>3, <2>2 DEF ExecR
    <3> QED BY <1>1, <3>3, <3>4, <3>5 DEF TypeOK
  <2> QED BY <2>1, <2>2
<1>4. CASE SuspendR
  BY <1>1, <1>4 DEF SuspendR, TypeOK, Unwound
<1>5. CASE AsyncContinueCanceledR
  <2>1. /\ conts \in Seq(Continuations)
        /\ stack \in Seq(Continuations \cup {"value"} \cup Cancelers)
        /\ canceled' \in BOOLEAN
    BY <1>5 DEF AsyncContinueCanceledR, TypeOK
  <2> QED
    BY <1>1, <1>5, <2>1, PrepareForCancelationType DEF AsyncContinueCanceledR
<1>6. CASE AsyncContinueR
  BY <1>1, <1>6, FrontLastType DEF AsyncContinueR, TypeOK, Unwound
<1> QED BY <1>2, <1>3, <1>4, <1>5, <1>6

(* and what cancelers, joiners and callbacks do to the fiber.              *)
LEMMA CancelType ==
    ASSUME TypeOK, NEW k \in Cancelers,
           Cancel(k) \/ CancelCompleted(k) \/ RunFinalizers(k)
    PROVE  TypeOK'
<1> USE DEF loopVars, frameVars, maskVars, doneVars, ghostVars
<1>1. CASE Cancel(k)
  BY <1>1 DEF Cancel, TypeOK, CancelerPCs
<1>2. CASE CancelCompleted(k)
  BY <1>2 DEF CancelCompleted, TypeOK, CancelerPCs
<1>3. CASE RunFinalizers(k)
  <2>1. /\ mayYield' \in BOOLEAN /\ fuel' \in Nat /\ scheduled' \in Nat
        /\ canceled' \in BOOLEAN /\ UNCHANGED <<state, died, impossible>>
    BY <1>3 DEF RunFinalizers, TypeOK
  <2>2. /\ conts \in Seq(Continuations)
        /\ stack \in Seq(Continuations \cup {"value"} \cup Cancelers)
        /\ PrepareForCancelation(k, conts, stack)
    BY <1>3 DEF RunFinalizers, TypeOK
  <2> QED BY <2>1, <2>2, PrepareForCancelationType
<1> QED BY <1>1, <1>2, <1>3

(* and the steps of those who join,                                        *)
LEMMA JoinType ==
    ASSUME TypeOK, NEW p \in Cancelers \cup Joiners, Join(p)
    PROVE  TypeOK'
<1>1. callbacks' \in Seq(Cancelers \cup Joiners)
  <2>1. callbacks' = Append(callbacks, p) \/ callbacks' = callbacks
    BY DEF Join
  <2>2. /\ callbacks \in Seq(Cancelers \cup Joiners)
        /\ Append(callbacks, p) \in Seq(Cancelers \cup Joiners)
    BY DEF TypeOK
  <2> QED BY <2>1, <2>2
<1>2. pc' \in [Cancelers \cup Joiners -> CancelerPCs \cup JoinerPCs]
  BY DEF Join, TypeOK, CancelerPCs, JoinerPCs
<1> QED
  BY <1>1, <1>2 DEF Join, TypeOK, loopVars, frameVars, maskVars, ghostVars

(* those who give up joining,                                              *)
LEMMA AbandonJoinType ==
    ASSUME TypeOK, NEW j \in Joiners, AbandonJoin(j)
    PROVE  TypeOK'
<1> USE DEF loopVars, frameVars, maskVars, doneVars, ghostVars
<1>1. callbacks' \in Seq(Cancelers \cup Joiners)
  BY RemoveAtType DEF AbandonJoin, TypeOK
<1> QED BY <1>1 DEF AbandonJoin, TypeOK, JoinerPCs

(* and the callbacks of asynchronous computations.                         *)
LEMMA CallbackType ==
    ASSUME TypeOK, NEW c \in Conts, NEW r \in Results, Callback(c, r)
    PROVE  TypeOK'
<1> USE DEF loopVars, frameVars, maskVars, doneVars, ghostVars
<1>1. UNCHANGED <<conts, finalizers, maskVars, doneVars, died, fuel, cur, turn, mayYield>>
  BY DEF Callback
<1>2. state' \in [Conts -> ContState]
  BY DEF Callback, TypeOK, ContState, Phases, Results
<1>3. \/ ResumeWith(c, r) \/ WaitOrDrop(c)
      \/ UNCHANGED <<suspended, scheduled, resumeTag, stack, impossible>>
  BY DEF Callback
<1>4. suspended' \in BOOLEAN /\ resumeTag' \in ResumeTags
  <2>1. suspended' = suspended \/ suspended' = FALSE
    BY <1>3 DEF ResumeWith, WaitOrDrop
  <2>2. resumeTag' = resumeTag \/ resumeTag' \in ResumeTags
    BY <1>3 DEF ResumeWith, WaitOrDrop, ResumeTags
  <2> QED BY <2>1, <2>2 DEF TypeOK
<1>7. scheduled' \in Nat
  <2>1. scheduled' = scheduled \/ scheduled' = scheduled + 1
    BY <1>3 DEF ResumeWith, WaitOrDrop
  <2> QED BY <2>1 DEF TypeOK
<1>5. impossible' \subseteq ImpossibleBranches
  BY <1>3 DEF ResumeWith, WaitOrDrop, TypeOK, ImpossibleBranches
<1>6. stack' \in Seq(Continuations \cup {"value"} \cup Cancelers)
  <2>1. stack' = stack \/ stack' = Append(stack, "value")
    BY <1>3 DEF ResumeWith, WaitOrDrop
  <2>2. stack \in Seq(Continuations \cup {"value"} \cup Cancelers)
    BY DEF TypeOK
  <2>3. Append(stack, "value") \in Seq(Continuations \cup {"value"} \cup Cancelers)
    BY <2>2
  <2> QED BY <2>1, <2>2, <2>3
<1> QED BY <1>1, <1>2, <1>4, <1>5, <1>6, <1>7 DEF TypeOK

(* Every field of the fiber keeps its type: in particular the run loop     *)
(* never pops a continuation or a slot of the wrong sort.                  *)
THEOREM TypeCorrect == Spec => []TypeOK
<1>1. Init => TypeOK
  <2> SUFFICES ASSUME Init PROVE TypeOK
    OBVIOUS
  <2>1. state \in [Conts -> ContState]
    BY DEF Init, ContState, Phases
  <2>2. /\ stack \in Seq(Continuations \cup {"value"} \cup Cancelers)
        /\ conts \in Seq(Continuations)
        /\ finalizers \in Seq({"any"} \cup Conts)
        /\ callbacks \in Seq(Cancelers \cup Joiners)
    BY DEF Init
  <2>3. pc \in [Cancelers \cup Joiners -> CancelerPCs \cup JoinerPCs]
    BY DEF Init, CancelerPCs
  <2>4. /\ canceled \in BOOLEAN /\ finalizing \in BOOLEAN /\ suspended \in BOOLEAN
        /\ mayYield \in BOOLEAN /\ died \in BOOLEAN
    BY DEF Init
  <2>5. /\ outcome \in Outcomes \cup {NotCompleted}
        /\ resumeTag \in ResumeTags
        /\ cur \in IOs
        /\ turn \in {NoTurn, OwnTurn} \cup Cancelers
        /\ impossible \subseteq ImpossibleBranches
    BY DEF Init, ResumeTags, IOs
  <2>6. masks \in Int /\ scheduled \in Nat /\ lastId \in Int /\ fuel \in Nat
    BY NodesAssumption DEF Init
  <2> QED BY <2>1, <2>2, <2>3, <2>4, <2>5, <2>6 DEF TypeOK
<1>2. TypeOK /\ [Next]_vars => TypeOK'
  <2> SUFFICES ASSUME TypeOK, [Next]_vars PROVE TypeOK'
    OBVIOUS
  <2>1. CASE Run
    BY <2>1, RunType
  <2>2. CASE LoopStep
    BY <2>2, LoopStepType
  <2>3. CASE UNCHANGED vars
    BY <2>3 DEF vars, loopVars, frameVars, maskVars, doneVars, ghostVars, TypeOK
  <2>4. ASSUME NEW k \in Cancelers, Cancel(k) \/ CancelCompleted(k) \/ RunFinalizers(k)
        PROVE  TypeOK'
    BY <2>4, CancelType
  <2>5. ASSUME NEW p \in Cancelers \cup Joiners, Join(p) PROVE TypeOK'
    BY <2>5, JoinType
  <2>6. ASSUME NEW j \in Joiners, AbandonJoin(j) PROVE TypeOK'
    BY <2>6, AbandonJoinType
  <2>7. ASSUME NEW c \in Conts, NEW r \in Results, Callback(c, r) PROVE TypeOK'
    BY <2>7, CallbackType
  <2> QED
    BY <2>1, <2>2, <2>3, <2>4, <2>5, <2>6, <2>7 DEF Next
<1> QED
  BY <1>1, <1>2, PTL DEF Spec

-----------------------------------------------------------------------------
(* The ownership of the run loop. What a step of the loop may do with it:  *)
(* keep the turn, end the turn by scheduling or suspending the fiber, die, *)
(* or complete. It never makes a canceler the owner.                       *)
NoNewOwner == \A k \in Cancelers : pc'[k] = "owner" => pc[k] = "owner"

KeepsTurn ==
    outcome' = outcome /\ suspended' = suspended /\ scheduled' = scheduled /\ turn' = turn

EndsTurn ==
    /\ outcome' = outcome
    /\ turn' = NoTurn
    /\ \/ suspended' = suspended /\ scheduled' = scheduled + 1
       \/ suspended' = TRUE /\ scheduled' = scheduled
       \/ suspended' = suspended /\ scheduled' = scheduled /\ died'

Completes ==
    /\ outcome' # NotCompleted
    /\ ~suspended'
    /\ scheduled' = scheduled
    /\ turn' = NoTurn
    /\ resumeTag' = "Done"

(* complete() completes, and makes nobody the owner.                       *)
LEMMA CompleteEffect ==
    ASSUME TypeOK, NEW oc \in Outcomes, NEW cb, Complete(oc, cb), scheduled' = scheduled
    PROVE  Completes /\ NoNewOwner
<1>1. NoNewOwner
  BY DEF Complete, NoNewOwner, TypeOK
<1>2. oc # NotCompleted
  BY DEF Outcomes, NotCompleted
<1> QED BY <1>1, <1>2 DEF Completes, Complete

(* prepareForCancelation in a turn of the loop goes on in the same turn    *)
(* with a finalizer, or completes.                                         *)
LEMMA PrepareForCancelationEffect ==
    ASSUME TypeOK, NEW ks, NEW st, PrepareForCancelation(NoCb, ks, st),
           scheduled' = scheduled, turn # NoTurn
    PROVE  (KeepsTurn \/ Completes) /\ NoNewOwner
<1>1. CASE finalizers = <<>>
  <2>1. Complete("Canceled", NoCb) /\ "Canceled" \in Outcomes
    BY <1>1 DEF PrepareForCancelation, Outcomes
  <2> QED BY <2>1, CompleteEffect
<1>2. CASE finalizers # <<>>
  BY <1>2 DEF PrepareForCancelation, KeepsTurn, NoNewOwner
<1> QED BY <1>1, <1>2

(* So every step of the run loop is one of those.                          *)
LEMMA LoopEffect ==
    ASSUME TypeOK, LoopStep
    PROVE  turn # NoTurn /\ (KeepsTurn \/ EndsTurn \/ Completes) /\ NoNewOwner
<1> USE DEF loopVars, frameVars, maskVars, doneVars, ghostVars, NoNewOwner
<1>1. CASE Finalize
  BY <1>1, PrepareForCancelationEffect DEF Finalize, AtTop
<1>2. CASE AutoSuspend
  BY <1>2 DEF AutoSuspend, AtTop, Schedule, EndsTurn
<1>3. CASE Pure \/ Fail \/ Defer \/ ContFinalizer
  BY <1>3 DEF Pure, Fail, Defer, ContFinalizer, Node, Interpret, AtTop, KeepsTurn
<1>4. CASE Map \/ FlatMap \/ HandleErrorWith \/ Attempt \/ OnCancel \/ UnmaskRunLoop
  BY <1>4 DEF Map, FlatMap, HandleErrorWith, Attempt, PushTransformer, OnCancel,
              UnmaskRunLoop, Node, Interpret, AtTop, KeepsTurn
<1>5. CASE Canceled
  <2>1. turn # NoTurn /\ scheduled' = scheduled
    BY <1>5 DEF Canceled, Node, Interpret, AtTop
  <2>2. CASE IsUnmasked
    BY <1>5, <2>1, <2>2, PrepareForCancelationEffect DEF Canceled
  <2>3. CASE ~IsUnmasked
    BY <1>5, <2>1, <2>3 DEF Canceled, KeepsTurn
  <2> QED BY <2>2, <2>3
<1>6. CASE IOCont \/ Uncancelable
  <2>1. turn # NoTurn /\ scheduled' = scheduled /\ suspended' = suspended /\ outcome' = outcome
    BY <1>6 DEF IOCont, Uncancelable, Node, Interpret, AtTop
  <2>2. \/ UNCHANGED <<cur, turn, died, pc>>
        \/ Die
    BY <1>6 DEF IOCont, Uncancelable
  <2>3. CASE UNCHANGED <<cur, turn, died, pc>>
    BY <2>1, <2>3 DEF KeepsTurn
  <2>4. CASE Die
    BY <2>1, <2>4 DEF Die, EndsTurn, TypeOK
  <2> QED BY <2>2, <2>3, <2>4
<1>7. CASE IOContGet
  <2>1. turn # NoTurn /\ scheduled' = scheduled /\ outcome' = outcome
    BY <1>7 DEF IOContGet, Node, Interpret, AtTop
  <2>2. PICK c \in Conts : Get(c)
    BY <1>7 DEF IOContGet
  <2>3. \/ suspended' = TRUE /\ turn' = NoTurn /\ pc' = pc
        \/ Die /\ suspended' = suspended
        \/ UNCHANGED <<suspended, turn, pc>>
    BY <2>2 DEF Get
  <2>4. CASE Die /\ suspended' = suspended
    BY <2>1, <2>4 DEF Die, EndsTurn, TypeOK
  <2> QED BY <2>1, <2>3, <2>4 DEF EndsTurn, KeepsTurn
<1>8. CASE ExecuteOn \/ Suspend
  BY <1>8 DEF ExecuteOn, Suspend, Schedule, Node, Interpret, AtTop, EndsTurn
<1>9. CASE \/ ContinueMap \/ ContinueFlatMap \/ ContinueHandleErrorWith
          \/ ContinueAttempt \/ ContinueOnCancel
          \/ ContinueUncancelable \/ ContinueUnmask
  BY <1>9 DEF ContinueMap, ContinueFlatMap, ContinueHandleErrorWith,
              ContinueAttempt, ContinueOnCancel, ContinueUncancelable,
              ContinueUnmask, Continue, PopCont, KeepsTurn
<1>10. CASE ExecuteOnK
  <2>1. turn # NoTurn
    BY <1>10 DEF ExecuteOnK
  <2>2. CASE ShouldFinalize
    BY <1>10, <2>1, <2>2, PrepareForCancelationEffect DEF ExecuteOnK
  <2>3. CASE ~ShouldFinalize
    BY <1>10, <2>1, <2>3 DEF ExecuteOnK, Schedule, EndsTurn
  <2> QED BY <2>2, <2>3
<1>11. CASE CancelationLoopK
  <2>1. turn # NoTurn /\ scheduled' = scheduled
    BY <1>11 DEF CancelationLoopK, PopCont
  <2>2. CASE finalizers # <<>>
    BY <1>11, <2>1, <2>2 DEF CancelationLoopK, KeepsTurn
  <2>3. CASE finalizers = <<>>
    <3>1. PICK cb : Complete("Canceled", cb)
      BY <1>11, <2>3 DEF CancelationLoopK
    <3> QED BY <2>1, <3>1, CompleteEffect DEF Outcomes
  <2> QED BY <2>2, <2>3
<1>12. CASE TerminateK
  <2>1. turn # NoTurn /\ scheduled' = scheduled
    BY <1>12 DEF TerminateK, PopCont
  <2>2. PICK oc \in Outcomes : Complete(oc, NoCb)
    BY <1>12 DEF TerminateK, Outcomes
  <2> QED BY <2>1, <2>2, CompleteEffect
<1> QED
  BY <1>1, <1>2, <1>3, <1>4, <1>5, <1>6, <1>7, <1>8, <1>9, <1>10, <1>11, <1>12 DEF LoopStep

(* Hence a step of the run loop hands the ownership over correctly.        *)
LEMMA LoopOwnership == TypeOK /\ RunLoopOwnership /\ LoopStep => RunLoopOwnership'
<1> SUFFICES ASSUME TypeOK, RunLoopOwnership, LoopStep PROVE RunLoopOwnership'
  OBVIOUS
<1>1. turn # NoTurn /\ (KeepsTurn \/ EndsTurn \/ Completes) /\ NoNewOwner
  BY LoopEffect
<1>2. /\ ~suspended /\ scheduled = 0 /\ outcome = NotCompleted
      /\ \A k \in Cancelers : pc[k] # "owner"
  BY <1>1 DEF RunLoopOwnership, AtMostOneOwner, Owned, IsOwner, TypeOK
<1>3. \A k \in Cancelers : pc'[k] # "owner"
  BY <1>1, <1>2 DEF NoNewOwner
<1>4. CASE KeepsTurn
  BY <1>1, <1>2, <1>3, <1>4 DEF KeepsTurn, RunLoopOwnership, AtMostOneOwner, Owned, IsOwner
<1>5. CASE EndsTurn
  BY <1>2, <1>3, <1>5 DEF EndsTurn, RunLoopOwnership, AtMostOneOwner, Owned, IsOwner
<1>6. CASE Completes
  BY <1>2, <1>3, <1>6 DEF Completes, RunLoopOwnership, AtMostOneOwner, Owned, IsOwner
<1> QED BY <1>1, <1>4, <1>5, <1>6

(* A run() takes the fiber from the execution context and keeps the turn,  *)
(* or completes.                                                           *)
LEMMA RunOwnership == TypeOK /\ RunLoopOwnership /\ Run => RunLoopOwnership'
<1> SUFFICES ASSUME TypeOK, RunLoopOwnership, Run PROVE RunLoopOwnership'
  OBVIOUS
<1>1. /\ scheduled = 1 /\ scheduled' = 0 /\ ~suspended /\ outcome = NotCompleted
      /\ \A k \in Cancelers : pc[k] # "owner"
  <2>1. scheduled > 0 /\ scheduled' = scheduled - 1
    BY DEF Run
  <2> QED BY <2>1 DEF RunLoopOwnership, AtMostOneOwner, Owned, IsOwner, TypeOK
<1>2. ExecR \/ SuspendR \/ AsyncContinueCanceledR \/ AsyncContinueR
  BY DEF Run
<1>3. \/ /\ outcome' = outcome /\ suspended' = suspended
         /\ turn' = OwnTurn /\ pc' = pc
      \/ \E oc \in Outcomes : Complete(oc, NoCb)
  <2>1. CASE ExecR
    BY <2>1 DEF ExecR, Outcomes, doneVars
  <2>2. CASE SuspendR
    BY <2>2 DEF SuspendR, doneVars
  <2>3. CASE AsyncContinueCanceledR
    <3>1. turn = NoTurn
      BY DEF Run
    <3>2. CASE finalizers = <<>>
      BY <2>3, <3>2 DEF AsyncContinueCanceledR, PrepareForCancelation, Outcomes
    <3>3. CASE finalizers # <<>>
      BY <2>3, <3>1, <3>3 DEF AsyncContinueCanceledR, PrepareForCancelation
    <3> QED BY <3>2, <3>3
  <2>4. CASE AsyncContinueR
    BY <2>4 DEF AsyncContinueR, doneVars
  <2> QED BY <1>2, <2>1, <2>2, <2>3, <2>4
<1>4. CASE /\ outcome' = outcome /\ suspended' = suspended
           /\ turn' = OwnTurn /\ pc' = pc
  BY <1>1, <1>4 DEF RunLoopOwnership, AtMostOneOwner, Owned, IsOwner, OwnTurn, NoTurn
<1>5. ASSUME NEW oc \in Outcomes, Complete(oc, NoCb) PROVE RunLoopOwnership'
  <2>1. /\ outcome' # NotCompleted /\ ~suspended' /\ turn' = NoTurn
        /\ resumeTag' = "Done"
    BY <1>5 DEF Complete, Outcomes, NotCompleted
  <2>2. \A k \in Cancelers : pc'[k] # "owner"
    BY <1>1, <1>5 DEF Complete, TypeOK
  <2> QED
    BY <1>1, <2>1, <2>2 DEF RunLoopOwnership, AtMostOneOwner, Owned, IsOwner
<1> QED BY <1>3, <1>4, <1>5

(* A canceler becomes the owner only of a suspended fiber, and its own run *)
(* of the finalizers ends its ownership.                                   *)
LEMMA CancelOwnership ==
    ASSUME TypeOK, RunLoopOwnership, NEW k \in Cancelers,
           Cancel(k) \/ CancelCompleted(k) \/ RunFinalizers(k)
    PROVE  RunLoopOwnership'
<1> USE DEF RunLoopOwnership, AtMostOneOwner, Owned, IsOwner
<1>1. CASE Cancel(k)
  <2>1. CASE suspended /\ IsUnmasked
    BY <1>1, <2>1 DEF Cancel, TypeOK
  <2>2. CASE ~(suspended /\ IsUnmasked)
    <3>1. /\ UNCHANGED <<outcome, suspended, died, resumeTag, scheduled, turn>>
          /\ pc' = [pc EXCEPT ![k] = "joining"]
          /\ pc[k] = "idle"
      BY <1>1, <2>2 DEF Cancel, ghostVars
    <3>2. \A l \in Cancelers : pc'[l] = "owner" <=> pc[l] = "owner"
      BY <3>1 DEF TypeOK
    <3> QED BY <3>1, <3>2
  <2> QED BY <2>1, <2>2
<1>2. CASE CancelCompleted(k)
  BY <1>2 DEF CancelCompleted, TypeOK, loopVars, ghostVars
<1>3. CASE RunFinalizers(k)
  <2>1. /\ pc[k] = "owner" /\ ~suspended /\ scheduled = 0 /\ scheduled' = scheduled
        /\ outcome = NotCompleted
        /\ \A l \in Cancelers : l # k => pc[l] # "owner"
    BY <1>3 DEF RunFinalizers
  <2>2. k # NoCb /\ k # NoTurn
    BY NamesAssumption
  <2>3. CASE finalizers = <<>>
    <3>1. Complete("Canceled", k)
      BY <1>3, <2>3 DEF RunFinalizers, PrepareForCancelation
    <3>2. /\ outcome' # NotCompleted /\ ~suspended' /\ turn' = NoTurn
          /\ resumeTag' = "Done"
      BY <3>1 DEF Complete, NotCompleted
    <3>3. \A l \in Cancelers : pc'[l] # "owner"
      BY <2>1, <3>1 DEF Complete, TypeOK
    <3> QED BY <2>1, <3>2, <3>3
  <2>4. CASE finalizers # <<>>
    <3>1. /\ turn' = k /\ outcome' = outcome /\ suspended' = suspended
          /\ pc' = [pc EXCEPT ![k] = "awaiting"]
      BY <1>3, <2>2, <2>4 DEF RunFinalizers, PrepareForCancelation
    <3>2. \A l \in Cancelers : pc'[l] # "owner"
      BY <2>1, <3>1 DEF TypeOK
    <3> QED BY <2>1, <2>2, <3>1, <3>2
  <2> QED BY <2>3, <2>4
<1> QED BY <1>1, <1>2, <1>3

(* Joining does not touch the ownership.                                   *)
LEMMA JoinOwnership ==
    ASSUME TypeOK, RunLoopOwnership, NEW p \in Cancelers \cup Joiners,
           Join(p) \/ (p \in Joiners /\ AbandonJoin(p))
    PROVE  RunLoopOwnership'
<1>1. /\ UNCHANGED <<outcome, loopVars, ghostVars>>
      /\ \A k \in Cancelers : pc'[k] = "owner" <=> pc[k] = "owner"
  BY DEF Join, AbandonJoin, TypeOK
<1> QED
  BY <1>1 DEF RunLoopOwnership, AtMostOneOwner, Owned, IsOwner, loopVars, ghostVars

(* A callback that finds the fiber suspended schedules it.                 *)
LEMMA CallbackOwnership ==
    ASSUME TypeOK, RunLoopOwnership, NEW c \in Conts, NEW r \in Results, Callback(c, r)
    PROVE  RunLoopOwnership'
<1>1. UNCHANGED <<outcome, pc, died, turn>>
  BY DEF Callback, doneVars
<1>2. \/ UNCHANGED <<suspended, scheduled, resumeTag>>
      \/ suspended /\ suspended' = FALSE /\ scheduled' = scheduled + 1
  BY DEF Callback, ResumeWith, WaitOrDrop
<1> QED
  BY <1>1, <1>2 DEF RunLoopOwnership, AtMostOneOwner, Owned, IsOwner, TypeOK

(* The run loop of a fiber has at most one owner, in every interleaving of *)
(* its turns, its callbacks and its cancelers; a fiber is never lost while *)
(* its run loop is alive, and never runs after it completed.               *)
THEOREM OneOwner == Spec => []RunLoopOwnership
<1>1. Init => RunLoopOwnership
  BY DEF Init, RunLoopOwnership, AtMostOneOwner, Owned, IsOwner
<1>2. TypeOK /\ RunLoopOwnership /\ [Next]_vars => RunLoopOwnership'
  <2> SUFFICES ASSUME TypeOK, RunLoopOwnership, [Next]_vars PROVE RunLoopOwnership'
    OBVIOUS
  <2>1. CASE Run
    BY <2>1, RunOwnership
  <2>2. CASE LoopStep
    BY <2>2, LoopOwnership
  <2>3. CASE UNCHANGED vars
    BY <2>3 DEF vars, loopVars, doneVars, ghostVars, RunLoopOwnership, AtMostOneOwner,
                Owned, IsOwner
  <2>4. ASSUME NEW k \in Cancelers, Cancel(k) \/ CancelCompleted(k) \/ RunFinalizers(k)
        PROVE  RunLoopOwnership'
    BY <2>4, CancelOwnership
  <2>5. ASSUME NEW p \in Cancelers \cup Joiners, Join(p) PROVE RunLoopOwnership'
    BY <2>5, JoinOwnership
  <2>6. ASSUME NEW j \in Joiners, AbandonJoin(j) PROVE RunLoopOwnership'
    BY <2>6, JoinOwnership
  <2>7. ASSUME NEW c \in Conts, NEW r \in Results, Callback(c, r) PROVE RunLoopOwnership'
    BY <2>7, CallbackOwnership
  <2> QED
    BY <2>1, <2>2, <2>3, <2>4, <2>5, <2>6, <2>7 DEF Next
<1> QED
  BY <1>1, <1>2, TypeCorrect, PTL DEF Spec

-----------------------------------------------------------------------------
(* Counting the continuations of a kind among the first n.                 *)
Count(s, n, T) == Cardinality({i \in 1..n : s[i] \in T})

(* The count of tags over the first n continuations is between 0 and n,    *)
(* none over no continuation, and grows by one where a tag is one of       *)
(* those counted.                                                          *)
LEMMA CountFacts ==
    ASSUME NEW s, NEW n \in Nat, NEW T
    PROVE  /\ Count(s, n, T) \in 0..n
           /\ Count(s, 0, T) = 0
           /\ s[n + 1] \in T => Count(s, n + 1, T) = Count(s, n, T) + 1
           /\ s[n + 1] \notin T => Count(s, n + 1, T) = Count(s, n, T)
<1> DEFINE P(m) == {i \in 1..m : s[i] \in T}
<1>1. /\ IsFiniteSet(1..n) /\ Cardinality(1..n) = n
      /\ P(n) \subseteq 1..n
  <2>1. n = 0 \/ n >= 1
    OBVIOUS
  <2>2. IsFiniteSet(1..n) /\ Cardinality(1..n) = IF 1 > n THEN 0 ELSE n - 1 + 1
    BY FS_Interval
  <2> QED BY <2>1, <2>2
<1>2. IsFiniteSet(P(n)) /\ Cardinality(P(n)) \in Nat /\ Cardinality(P(n)) <= n
  <2>1. IsFiniteSet(P(n)) /\ Cardinality(P(n)) <= Cardinality(1..n)
    BY <1>1, FS_Subset
  <2>2. Cardinality(P(n)) \in Nat
    BY <2>1, FS_CardinalityType
  <2> QED BY <1>1, <2>1, <2>2
<1>3. Cardinality(P(0)) = 0
  <2>1. P(0) = {}
    OBVIOUS
  <2> QED BY <2>1, FS_EmptySet
<1>4. /\ s[n + 1] \in T => Cardinality(P(n + 1)) = Cardinality(P(n)) + 1
      /\ s[n + 1] \notin T => Cardinality(P(n + 1)) = Cardinality(P(n))
  <2>1. CASE s[n + 1] \in T
    <3>1. P(n + 1) = P(n) \cup {n + 1} /\ n + 1 \notin P(n)
      BY <2>1
    <3>2. Cardinality(P(n) \cup {n + 1}) = Cardinality(P(n)) + 1
      BY <1>2, <3>1, FS_AddElement
    <3> QED BY <2>1, <3>1, <3>2
  <2>2. CASE s[n + 1] \notin T
    <3>1. P(n + 1) = P(n)
      BY <2>2
    <3>2. Cardinality(P(n + 1)) = Cardinality(P(n)) /\ Cardinality(P(n)) \in Nat
      BY <1>2, <3>1
    <3> QED BY <2>2, <3>2
  <2> QED BY <2>1, <2>2
<1> QED BY <1>2, <1>3, <1>4 DEF Count

(* Sequences that agree on their first n elements count the same.          *)
LEMMA CountSame ==
    ASSUME NEW s, NEW t, NEW n \in Nat, \A i \in 1..n : s[i] = t[i], NEW T
    PROVE  Count(s, n, T) = Count(t, n, T)
<1>1. {i \in 1..n : s[i] \in T} = {i \in 1..n : t[i] \in T}
  OBVIOUS
<1> QED BY <1>1 DEF Count

(* A sequence t that has one more element than s.                          *)
LEMMA CountOneMore ==
    ASSUME NEW s, NEW t, Len(s) \in Nat, Len(t) = Len(s) + 1,
           \A i \in 1..Len(s) : t[i] = s[i], NEW T
    PROVE  /\ \A n \in 0..Len(s) : Count(t, n, T) = Count(s, n, T)
           /\ t[Len(t)] \in T => Count(t, Len(t), T) = Count(s, Len(s), T) + 1
           /\ t[Len(t)] \notin T => Count(t, Len(t), T) = Count(s, Len(s), T)
<1>1. ASSUME NEW n \in 0..Len(s) PROVE Count(t, n, T) = Count(s, n, T)
  <2>1. n \in Nat /\ \A i \in 1..n : t[i] = s[i]
    OBVIOUS
  <2> QED BY ONLY <2>1, CountSame
<1>2. /\ t[Len(s) + 1] \in T => Count(t, Len(s) + 1, T) = Count(t, Len(s), T) + 1
      /\ t[Len(s) + 1] \notin T => Count(t, Len(s) + 1, T) = Count(t, Len(s), T)
  BY CountFacts
<1>3. Count(t, Len(s), T) = Count(s, Len(s), T)
  BY <1>1
<1> QED BY <1>1, <1>2, <1>3

(* A continuation is pushed, or popped.                                    *)
LEMMA PushFacts ==
    ASSUME NEW S, NEW s \in Seq(S), NEW e \in S, NEW t, t = Append(s, e)
    PROVE  /\ t \in Seq(S) /\ Len(s) \in Nat /\ Len(t) = Len(s) + 1 /\ t # <<>>
           /\ \A i \in 1..Len(s) : t[i] = s[i]
           /\ t[Len(s) + 1] = e /\ t[Len(t)] = e /\ Last(t) = e
<1>1. /\ t \in Seq(S) /\ Len(s) \in Nat /\ Len(t) = Len(s) + 1 /\ t # <<>>
      /\ \A i \in 1..Len(s) : t[i] = s[i]
      /\ t[Len(s) + 1] = e
  OBVIOUS
<1>2. Last(t) = e
  BY <1>1 DEF Last
<1> QED BY <1>1, <1>2

(* Popping leaves everything below the top.                                *)
LEMMA PopFacts ==
    ASSUME NEW S, NEW s \in Seq(S), s # <<>>, NEW t, t = Front(s)
    PROVE  /\ t \in Seq(S) /\ Len(t) \in Nat /\ Len(s) = Len(t) + 1
           /\ \A i \in 1..Len(t) : t[i] = s[i]
           /\ Last(s) = s[Len(s)] /\ Last(s) = s[Len(t) + 1] /\ Last(s) \in S
<1>1. Len(s) \in Nat \ {0} /\ s \in [1..Len(s) -> S]
  OBVIOUS
<1>2. /\ t \in Seq(S) /\ Len(t) = Len(s) - 1
      /\ \A i \in 1..Len(t) : t[i] = s[i]
  BY <1>1 DEF Front
<1>3. Len(t) \in Nat /\ Len(s) = Len(t) + 1 /\ Last(s) = s[Len(s)] /\ Last(s) \in S
  BY <1>1, <1>2 DEF Last
<1> QED BY <1>2, <1>3

-----------------------------------------------------------------------------
(* The frames of the run loop: its continuations, the slots on its stack,  *)
(* its finalizers and its mask count, which every step changes together.   *)
Slots == Continuations \cup {"value"} \cup Cancelers

Bottoms == {"TerminateK", "CancelationLoopK"}

Starting == resumeTag = "Exec" /\ scheduled > 0

(* A program that has not started is neither masked nor finalizing.        *)
Unstarted == Starting => ~finalizing /\ masks = 0

(* At the bottom of the continuations is the one that ends the program, or *)
(* the cancelation loop, and nowhere else.                                 *)
Bottom ==
    \A i \in 1..Len(conts) :
        IF i = 1 THEN conts[i] = IF finalizing THEN "CancelationLoopK" ELSE "TerminateK"
                 ELSE conts[i] \notin Bottoms

NotEmpty == outcome = NotCompleted => conts # <<>> \/ Starting

FramesInv ==
    Unstarted /\ Bottom /\ NotEmpty /\ MasksBalanced /\ FinalizersBalanced
      /\ StackMatchesConts

(* A cancelation was requested of a fiber that finalizes, and is due in    *)
(* one whose owner is a canceler.                                          *)
Requested ==
    /\ finalizing => canceled
    /\ \A k \in Cancelers : IsOwner(k) => ShouldFinalize
    /\ resumeTag = "AsyncContinueCanceled" /\ scheduled > 0 => ShouldFinalize

(* What a step may do to the frames.                                       *)
MaskOf(tag) == IF tag = "UncancelableK" THEN 1 ELSE IF tag = "UnmaskK" THEN -1 ELSE 0

KeepsFrames ==
    /\ UNCHANGED <<outcome, stack, conts, masks, finalizing>>
    /\ ~finalizing => finalizers' = finalizers
    /\ Resuming' <=> Resuming
    /\ Starting' <=> Starting

Quiet == ~Starting /\ ~Resuming /\ ~Starting'

PushesFrame(tag) ==
    /\ Quiet /\ ~Resuming'
    /\ outcome = NotCompleted /\ conts # <<>>
    /\ tag \in Continuations \ Bottoms
    /\ conts' = Append(conts, tag)
    /\ stack' = IF tag \in HasSlot THEN Append(stack, tag) ELSE stack
    /\ IF tag = "OnCancelK"
         THEN \E f \in {"any"} \cup Conts : finalizers' = Append(finalizers, f)
         ELSE finalizers' = finalizers
    /\ masks' = masks + MaskOf(tag)
    /\ tag = "UnmaskK" /\ finalizing /\ ~PollInFinalizers => masks > 1
    /\ UNCHANGED <<outcome, finalizing>>

PopsFrame(tag) ==
    /\ Quiet
    /\ conts # <<>> /\ Last(conts) = tag
    /\ tag \notin Bottoms
    /\ conts' = Front(conts)
    /\ \E st : /\ st = IF tag \in HasSlot THEN Front(stack) ELSE stack
               /\ \/ ~Resuming' /\ stack' = st
                  \/ Resuming' /\ stack' = Append(st, "value")
    /\ ~finalizing => finalizers' = IF tag = "OnCancelK" THEN Front(finalizers) ELSE finalizers
    /\ masks' = masks - MaskOf(tag)
    /\ UNCHANGED <<outcome, finalizing>>

LeavesValue ==
    /\ Quiet /\ Resuming'
    /\ stack' = Append(stack, "value")
    /\ UNCHANGED <<outcome, conts, finalizers, masks, finalizing>>

TakesValue ==
    /\ Resuming /\ ~Resuming' /\ ~Starting /\ ~Starting'
    /\ stack' = Front(stack)
    /\ UNCHANGED <<outcome, conts, finalizers, masks, finalizing>>

StartsProgram ==
    /\ Starting /\ ~Starting' /\ ~Resuming'
    /\ conts' = <<"TerminateK">> /\ stack' = <<>> /\ finalizers' = <<>>
    /\ UNCHANGED <<outcome, masks, finalizing>>

StartsFinalizing ==
    /\ ~Starting' /\ ~Resuming'
    /\ ~finalizing /\ finalizing'
    /\ masks = 0 /\ masks' = 1
    /\ conts' = <<"CancelationLoopK">>
    /\ \/ stack' = <<>> /\ pc' = pc
       \/ \E k \in Cancelers : /\ pc[k] = "owner"
                               /\ stack' = <<k>>
                               /\ pc' = [pc EXCEPT ![k] = "awaiting"]
    /\ outcome = NotCompleted /\ canceled'
    /\ UNCHANGED <<outcome, callbacks>>

(* The canceler that is called when the fiber ends: its owner, or the one  *)
(* at the bottom of the stack when the last finalizer is done.             *)
EndsFor(cb) ==
    /\ \A k \in Cancelers : pc[k] = "owner" => k = cb
    /\ \/ (~finalizing \/ masks = 0) /\ (cb = NoCb \/ pc[cb] = "owner")
       \/ /\ finalizing /\ conts # <<>> /\ Last(conts) = "CancelationLoopK" /\ ~Resuming
          /\ cb = IF stack = <<>> THEN NoCb ELSE Last(stack)

EndsFrames ==
    /\ ~Starting' /\ ~Resuming'
    /\ outcome = NotCompleted
    /\ finalizers = <<>> \/ resumeTag = "Exec"
    /\ \E oc \in Outcomes, cb \in Slots \cup {NoCb} :
        /\ oc = "Canceled" <=> canceled'
        /\ Complete(oc, cb) /\ EndsFor(cb)

FrameStep ==
    \/ KeepsFrames
    \/ \E tag \in Continuations : PushesFrame(tag) \/ PopsFrame(tag)
    \/ LeavesValue \/ TakesValue
    \/ StartsProgram \/ StartsFinalizing \/ EndsFrames

(* The counts of the invariants are those of Count.                        *)
LEMMA CountsAreCount ==
    ASSUME TypeOK
    PROVE  /\ Len(conts) \in Nat
           /\ \A tag : CountOf(tag) = Count(conts, Len(conts), {tag})
           /\ \A tag : CountOf(tag) \in 0..Len(conts)
           /\ \A n \in 0..Len(conts) : SlotsTo(n) = Count(conts, n, HasSlot)
           /\ \A n \in 0..Len(conts) : SlotsTo(n) \in 0..n
<1>1. Len(conts) \in Nat /\ DOMAIN conts = 1..Len(conts)
  BY DEF TypeOK
<1>2. ASSUME NEW tag PROVE CountOf(tag) = Count(conts, Len(conts), {tag})
  <2>1. {i \in DOMAIN conts : conts[i] = tag} = {i \in 1..Len(conts) : conts[i] \in {tag}}
    BY <1>1
  <2> QED BY <2>1 DEF CountOf, Count
<1>3. ASSUME NEW tag PROVE CountOf(tag) \in 0..Len(conts)
  <2>1. Count(conts, Len(conts), {tag}) \in 0..Len(conts)
    BY <1>1, CountFacts
  <2> QED BY <1>2, <2>1
<1>4. \A n \in 0..Len(conts) : SlotsTo(n) = Count(conts, n, HasSlot)
  BY DEF SlotsTo, Count
<1>5. ASSUME NEW n \in 0..Len(conts) PROVE SlotsTo(n) \in 0..n
  <2>1. n \in Nat
    BY <1>1
  <2>2. Count(conts, n, HasSlot) \in 0..n
    BY <2>1, CountFacts
  <2> QED BY <1>4, <2>2
<1> QED BY <1>1, <1>2, <1>3, <1>4, <1>5

(* The same for the continuations after a step.                            *)
LEMMA CountsAreCountNext ==
    ASSUME TypeOK'
    PROVE  /\ Len(conts') \in Nat
           /\ \A tag : CountOf(tag)' = Count(conts', Len(conts'), {tag})
           /\ \A n \in 0..Len(conts') : SlotsTo(n)' = Count(conts', n, HasSlot)
<1>1. Len(conts') \in Nat /\ DOMAIN conts' = 1..Len(conts')
  BY DEF TypeOK
<1>2. ASSUME NEW tag PROVE CountOf(tag)' = Count(conts', Len(conts'), {tag})
  <2>1. {i \in DOMAIN conts' : conts'[i] = tag} = {i \in 1..Len(conts') : conts'[i] \in {tag}}
    BY <1>1
  <2> QED BY <2>1 DEF CountOf, Count
<1>4. \A n \in 0..Len(conts') : SlotsTo(n)' = Count(conts', n, HasSlot)
  BY DEF SlotsTo, Count
<1> QED BY <1>1, <1>2, <1>4

(* Counts grow with the prefix, and are positive past an element counted.  *)
LEMMA CountMonotone ==
    ASSUME NEW s, NEW n \in Nat, NEW i \in 0..n, NEW T
    PROVE  /\ Count(s, i, T) <= Count(s, n, T)
           /\ i > 0 /\ s[i] \in T => Count(s, i, T) >= 1
<1> DEFINE P(m) == {j \in 1..m : s[j] \in T}
<1>1. IsFiniteSet(P(n))
  <2>1. IsFiniteSet(1..n)
    BY FS_Interval
  <2> QED BY <2>1, FS_Subset
<1>2. P(i) \subseteq P(n)
  OBVIOUS
<1>3. /\ IsFiniteSet(P(i))
      /\ Cardinality(P(i)) <= Cardinality(P(n))
  BY <1>1, <1>2, FS_Subset
<1>4. ASSUME i > 0, s[i] \in T PROVE Cardinality(P(i)) >= 1
  <2>1. i \in P(i)
    BY <1>4
  <2>2. Cardinality({i}) = 1 /\ {i} \subseteq P(i)
    BY <2>1, FS_Singleton
  <2>3. Cardinality({i}) <= Cardinality(P(i))
    BY <1>3, <2>2, FS_Subset
  <2>4. Cardinality(P(i)) \in Nat
    BY <1>3, FS_CardinalityType
  <2> QED BY <2>2, <2>3, <2>4
<1> QED BY <1>3, <1>4 DEF Count

(* The slots of s are those of the continuations c, above base others.     *)
Matches(c, s, base) ==
    /\ Len(s) = base + Count(c, Len(c), HasSlot)
    /\ \A i \in 1..Len(c) : c[i] \in HasSlot => s[base + Count(c, i, HasSlot)] = c[i]

(* The slot of a continuation is in the stack.                             *)
LEMMA SlotsInStack ==
    ASSUME NEW c \in Seq(Continuations), NEW s \in Seq(Slots), NEW base \in {0, 1},
           Len(s) >= base + Count(c, Len(c), HasSlot)
    PROVE  /\ Len(c) \in Nat /\ Len(s) \in Nat /\ Count(c, Len(c), HasSlot) \in Nat
           /\ \A i \in 1..Len(c) :
                c[i] \in HasSlot => base + Count(c, i, HasSlot) \in 1..(base + Count(c, Len(c), HasSlot))
<1>1. Len(c) \in Nat /\ Len(s) \in Nat
  OBVIOUS
<1> DEFINE n == Len(c)
<1>2. n \in Nat
  BY <1>1
<1> HIDE DEF n
<1>3. Count(c, n, HasSlot) \in 0..n
  BY <1>2, CountFacts
<1>4. ASSUME NEW i \in 1..n, c[i] \in HasSlot
      PROVE  base + Count(c, i, HasSlot) \in 1..(base + Count(c, n, HasSlot))
  <2>1. i \in 0..n /\ i > 0 /\ i \in Nat
    BY <1>2
  <2>2. Count(c, i, HasSlot) <= Count(c, n, HasSlot) /\ Count(c, i, HasSlot) >= 1
    BY <1>2, <1>4, <2>1, CountMonotone
  <2>3. Count(c, i, HasSlot) \in 0..i
    BY <2>1, CountFacts
  <2> QED BY <1>2, <1>3, <2>1, <2>2, <2>3
<1>5. Count(c, n, HasSlot) \in Nat
  BY <1>2, <1>3
<1> QED BY <1>1, <1>4, <1>5 DEF n

(* The value of an asynchronous resumption lies above the slots.           *)
LEMMA SlotsAboveMatches ==
    ASSUME NEW c \in Seq(Continuations), NEW s \in Seq(Slots), NEW base \in {0, 1},
           NEW extra \in {0, 1}
    PROVE  (/\ Len(s) = base + Count(c, Len(c), HasSlot) + extra
            /\ \A i \in 1..Len(c) : c[i] \in HasSlot => s[base + Count(c, i, HasSlot)] = c[i]
            /\ extra = 1 => Last(s) = "value")
           <=> (IF extra = 1
                  THEN s # <<>> /\ Last(s) = "value" /\ Matches(c, Front(s), base)
                  ELSE Matches(c, s, base))
<1>1. Len(c) \in Nat /\ Len(s) \in Nat
  OBVIOUS
<1> DEFINE m == Count(c, Len(c), HasSlot)
           k(i) == base + Count(c, i, HasSlot)
<1>2. m \in Nat
  <2>1. m \in 0..Len(c)
    BY <1>1, CountFacts
  <2> QED BY <1>1, <2>1
<1>3. CASE extra = 0
  BY <1>1, <1>2, <1>3 DEF Matches
<1>4. CASE extra = 1 /\ s = <<>>
  BY <1>1, <1>2, <1>4
<1>5. CASE extra = 1 /\ s # <<>>
  <2> DEFINE f == Front(s)
  <2>1. Len(f) \in Nat /\ f \in Seq(Slots) /\ Len(s) = Len(f) + 1 /\ \A j \in 1..Len(f) : f[j] = s[j]
    BY <1>5, PopFacts
  <2>2. Len(s) = base + m + extra <=> Len(f) = base + m
    BY <1>2, <1>5, <2>1
  <2>3. ASSUME Len(f) = base + m
        PROVE  \A i \in 1..Len(c) : c[i] \in HasSlot => s[k(i)] = f[k(i)]
    <3>1. Len(s) >= base + m
      BY <1>2, <2>1, <2>3
    <3>2. \A i \in 1..Len(c) : c[i] \in HasSlot => k(i) \in 1..(base + m)
      BY <3>1, SlotsInStack
    <3> QED BY <2>1, <2>3, <3>2
  <2>4. (\A i \in 1..Len(c) : c[i] \in HasSlot => s[k(i)] = c[i]) /\ Len(f) = base + m
          <=> (\A i \in 1..Len(c) : c[i] \in HasSlot => f[k(i)] = c[i]) /\ Len(f) = base + m
    BY <2>3
  <2> QED BY <1>5, <2>2, <2>4 DEF Matches
<1> QED BY <1>3, <1>4, <1>5

(* The sequence t is s with e at its end.                                  *)
Extends(t, s, e) ==
    Len(t) = Len(s) + 1 /\ (\A i \in 1..Len(s) : t[i] = s[i]) /\ t[Len(t)] = e

(* Pushing and popping a continuation with its slot keeps the match, and   *)
(* what is below the slots.                                                *)
LEMMA PushMatches ==
    ASSUME NEW c \in Seq(Continuations), NEW s \in Seq(Slots), NEW base \in {0, 1},
           Matches(c, s, base), NEW tag \in Continuations,
           NEW d, Extends(d, c, tag),
           NEW t, tag \in HasSlot => Extends(t, s, tag), tag \notin HasSlot => t = s
    PROVE  Matches(d, t, base) /\ (base = 1 => t[1] = s[1])
<1> DEFINE n == Len(c)
<1>1. /\ n \in Nat /\ Len(d) = n + 1
      /\ \A i \in 1..n : d[i] = c[i]
      /\ d[n + 1] = tag
      /\ \A i \in 0..n : Count(d, i, HasSlot) = Count(c, i, HasSlot)
      /\ tag \in HasSlot => Count(d, Len(d), HasSlot) = Count(c, n, HasSlot) + 1
      /\ tag \notin HasSlot => Count(d, Len(d), HasSlot) = Count(c, n, HasSlot)
  <2>1. /\ n \in Nat /\ Len(d) = n + 1
        /\ \A i \in 1..n : d[i] = c[i]
        /\ d[n + 1] = tag
    BY DEF Extends
  <2>2. /\ \A i \in 0..n : Count(d, i, HasSlot) = Count(c, i, HasSlot)
        /\ d[Len(d)] \in HasSlot => Count(d, Len(d), HasSlot) = Count(c, n, HasSlot) + 1
        /\ d[Len(d)] \notin HasSlot => Count(d, Len(d), HasSlot) = Count(c, n, HasSlot)
    BY ONLY <2>1, CountOneMore
  <2> QED BY <2>1, <2>2
<1>2. /\ Len(s) \in Nat /\ Len(s) = base + Count(c, n, HasSlot)
      /\ Count(c, n, HasSlot) \in Nat
      /\ \A i \in 1..n : c[i] \in HasSlot => base + Count(c, i, HasSlot) \in 1..Len(s)
      /\ \A i \in 1..n : c[i] \in HasSlot => s[base + Count(c, i, HasSlot)] = c[i]
  <2>1. Len(s) = base + Count(c, n, HasSlot)
    BY DEF Matches
  <2>2. Len(s) >= base + Count(c, n, HasSlot)
    BY <2>1
  <2> QED BY <2>1, <2>2, SlotsInStack DEF Matches
<1>3. /\ \A i \in 1..Len(s) : t[i] = s[i]
      /\ tag \in HasSlot => Len(t) = Len(s) + 1 /\ t[Len(s) + 1] = tag
      /\ tag \notin HasSlot => Len(t) = Len(s)
  <2>1. Len(s) \in Nat
    OBVIOUS
  <2> QED BY <2>1 DEF Extends
<1> HIDE DEF n
<1>4. Len(t) = base + Count(d, Len(d), HasSlot)
  BY <1>1, <1>2, <1>3
<1>5. ASSUME NEW i \in 1..(n + 1), d[i] \in HasSlot
      PROVE  t[base + Count(d, i, HasSlot)] = d[i]
  <2>1. CASE i = n + 1
    <3>1. tag \in HasSlot /\ base + Count(d, i, HasSlot) = Len(s) + 1
      BY <1>1, <1>2, <1>5, <2>1
    <3> QED BY <1>1, <1>3, <2>1, <3>1
  <2>2. CASE i # n + 1
    <3>1. i \in 1..n /\ i \in 0..n
      BY <1>1, <2>2
    <3>2. d[i] = c[i] /\ Count(d, i, HasSlot) = Count(c, i, HasSlot)
      BY <1>1, <3>1
    <3>3. base + Count(c, i, HasSlot) \in 1..Len(s) /\ s[base + Count(c, i, HasSlot)] = c[i]
      BY <1>2, <1>5, <3>1, <3>2
    <3> QED BY <1>3, <3>2, <3>3
  <2> QED BY <2>1, <2>2
<1>6. Matches(d, t, base)
  BY <1>1, <1>4, <1>5 DEF Matches
<1>7. base = 1 => t[1] = s[1]
  BY <1>2, <1>3
<1> QED BY <1>6, <1>7

(* Popping the last continuation with its slot keeps the match.            *)
LEMMA PopMatches ==
    ASSUME NEW c \in Seq(Continuations), c # <<>>, NEW s \in Seq(Slots), NEW base \in {0, 1},
           Matches(c, s, base),
           NEW d, d = Front(c),
           NEW t, t = IF Last(c) \in HasSlot THEN Front(s) ELSE s
    PROVE  /\ Matches(d, t, base) /\ (base = 1 => t[1] = s[1])
           /\ t \in Seq(Slots)
           /\ Last(c) \in HasSlot => s # <<>> /\ Last(s) = Last(c)
<1> DEFINE n == Len(d)
           tag == Last(c)
<1>1. /\ d \in Seq(Continuations) /\ n \in Nat /\ Len(c) = n + 1
      /\ \A i \in 1..n : d[i] = c[i]
      /\ c[n + 1] = tag
      /\ \A i \in 0..n : Count(d, i, HasSlot) = Count(c, i, HasSlot)
      /\ tag \in HasSlot => Count(c, Len(c), HasSlot) = Count(d, n, HasSlot) + 1
      /\ tag \notin HasSlot => Count(c, Len(c), HasSlot) = Count(d, n, HasSlot)
  <2>1. /\ d \in Seq(Continuations) /\ n \in Nat /\ Len(c) = n + 1
        /\ \A i \in 1..n : d[i] = c[i]
        /\ c[n + 1] = tag
    BY PopFacts
  <2>2. /\ \A i \in 0..n : Count(c, i, HasSlot) = Count(d, i, HasSlot)
        /\ c[Len(c)] \in HasSlot => Count(c, Len(c), HasSlot) = Count(d, n, HasSlot) + 1
        /\ c[Len(c)] \notin HasSlot => Count(c, Len(c), HasSlot) = Count(d, n, HasSlot)
    BY ONLY <2>1, CountOneMore
  <2> QED BY <2>1, <2>2
<1>2. /\ Len(s) \in Nat /\ Len(s) = base + Count(c, n + 1, HasSlot)
      /\ \A i \in 1..(n + 1) : c[i] \in HasSlot => s[base + Count(c, i, HasSlot)] = c[i]
  BY <1>1 DEF Matches
<1>3. Count(d, n, HasSlot) \in Nat
  <2>1. Count(d, n, HasSlot) \in 0..n
    BY <1>1, CountFacts
  <2> QED BY <1>1, <2>1
<1>4. Count(c, n + 1, HasSlot) = Count(c, Len(c), HasSlot)
  BY <1>1
<1>5. /\ \A i \in 1..Len(t) : t[i] = s[i]
      /\ t \in Seq(Slots) /\ Len(t) = base + Count(d, n, HasSlot)
      /\ tag \in HasSlot => s # <<>> /\ Last(s) = tag
  <2>1. CASE tag \in HasSlot
    <3>1. s # <<>> /\ t = Front(s)
      BY <1>1, <1>2, <1>3, <1>4, <2>1
    <3>2. /\ t \in Seq(Slots) /\ Len(t) \in Nat /\ Len(s) = Len(t) + 1
          /\ \A i \in 1..Len(t) : t[i] = s[i]
          /\ Last(s) = s[Len(t) + 1]
      BY ONLY <3>1, s \in Seq(Slots), PopFacts
    <3>3. s[base + Count(c, n + 1, HasSlot)] = tag
      BY <1>1, <1>2, <2>1
    <3>4. base + Count(c, n + 1, HasSlot) = Len(t) + 1
      BY <1>2, <3>2
    <3> QED BY <1>1, <1>2, <1>3, <1>4, <2>1, <3>1, <3>2, <3>3, <3>4
  <2>2. CASE tag \notin HasSlot
    BY <1>1, <1>2, <1>3, <1>4, <2>2
  <2> QED BY <2>1, <2>2
<1> HIDE DEF n
<1>6. ASSUME NEW i \in 1..n, d[i] \in HasSlot
      PROVE  t[base + Count(d, i, HasSlot)] = d[i]
  <2>1. i \in 1..(n + 1) /\ i \in 0..n
    BY <1>1
  <2>2. d[i] = c[i] /\ Count(d, i, HasSlot) = Count(c, i, HasSlot)
    BY <1>1, <2>1
  <2>3. s[base + Count(d, i, HasSlot)] = d[i]
    BY <1>2, <1>6, <2>1, <2>2
  <2>4. base + Count(d, i, HasSlot) \in 1..Len(t)
    <3>1. Len(t) >= base + Count(d, Len(d), HasSlot)
      BY <1>3, <1>5 DEF n
    <3>2. \A j \in 1..Len(d) : d[j] \in HasSlot =>
             base + Count(d, j, HasSlot) \in 1..(base + Count(d, Len(d), HasSlot))
      BY <1>1, <1>5, <3>1, SlotsInStack
    <3> QED BY <1>5, <1>6, <3>2 DEF n
  <2> QED BY <1>5, <2>3, <2>4
<1>7. Matches(d, t, base)
  BY <1>5, <1>6 DEF Matches, n
<1>8. base = 1 => t[1] = s[1]
  BY <1>3, <1>5
<1> QED BY <1>5, <1>7, <1>8

Matched(base) ==
    IF Resuming
      THEN stack # <<>> /\ Last(stack) = "value" /\ Matches(conts, Front(stack), base)
      ELSE Matches(conts, stack, base)

(* SlotsAbove, the way the invariant states it, is the match of the stack  *)
(* below the value an asynchronous resumption left.                        *)
LEMMA SlotsAreMatched ==
    ASSUME TypeOK, NEW base \in {0, 1}
    PROVE  SlotsAbove(base) <=> Matched(base)
<1> DEFINE extra == IF Resuming THEN 1 ELSE 0
<1>1. conts \in Seq(Continuations) /\ stack \in Seq(Slots) /\ extra \in {0, 1}
  BY DEF TypeOK, Slots
<1>2. /\ SlotsTo(Len(conts)) = Count(conts, Len(conts), HasSlot)
      /\ \A i \in 1..Len(conts) : SlotsTo(i) = Count(conts, i, HasSlot)
      /\ DOMAIN conts = 1..Len(conts)
  BY <1>1 DEF SlotsTo, Count
<1>3. SlotsAbove(base) <=>
        /\ Len(stack) = base + Count(conts, Len(conts), HasSlot) + extra
        /\ \A i \in 1..Len(conts) :
             conts[i] \in HasSlot => stack[base + Count(conts, i, HasSlot)] = conts[i]
        /\ extra = 1 => Last(stack) = "value"
  BY <1>2 DEF SlotsAbove
<1>4. Matched(base) <=>
        IF extra = 1
          THEN stack # <<>> /\ Last(stack) = "value" /\ Matches(conts, Front(stack), base)
          ELSE Matches(conts, stack, base)
  BY DEF Matched
<1> HIDE DEF extra
<1> QED BY ONLY <1>1, <1>3, <1>4, SlotsAboveMatches, base \in {0, 1}

(* The same after a step.                                                  *)
LEMMA SlotsAreMatchedNext ==
    ASSUME TypeOK', NEW base \in {0, 1}
    PROVE  SlotsAbove(base)' <=> Matched(base)'
<1> DEFINE extra == IF Resuming' THEN 1 ELSE 0
<1>1. conts' \in Seq(Continuations) /\ stack' \in Seq(Slots) /\ extra \in {0, 1}
  BY DEF TypeOK, Slots
<1>2. /\ SlotsTo(Len(conts))' = Count(conts', Len(conts'), HasSlot)
      /\ \A i \in 1..Len(conts') : SlotsTo(i)' = Count(conts', i, HasSlot)
      /\ DOMAIN conts' = 1..Len(conts')
  BY <1>1 DEF SlotsTo, Count
<1>3. SlotsAbove(base)' <=>
        /\ Len(stack') = base + Count(conts', Len(conts'), HasSlot) + extra
        /\ \A i \in 1..Len(conts') :
             conts'[i] \in HasSlot => stack'[base + Count(conts', i, HasSlot)] = conts'[i]
        /\ extra = 1 => Last(stack') = "value"
  BY <1>2 DEF SlotsAbove
<1>4. Matched(base)' <=>
        IF extra = 1
          THEN stack' # <<>> /\ Last(stack') = "value" /\ Matches(conts', Front(stack'), base)
          ELSE Matches(conts', stack', base)
  BY DEF Matched
<1> HIDE DEF extra
<1> QED BY ONLY <1>1, <1>3, <1>4, SlotsAboveMatches, base \in {0, 1}

(* Putting a value on the stack and taking it again.                       *)
LEMMA ValueOnTop ==
    ASSUME NEW s \in Seq(Slots), NEW t, t = Append(s, "value")
    PROVE  /\ t # <<>> /\ Last(t) = "value" /\ Front(t) = s
           /\ s # <<>> => t[1] = s[1]
<1>1. /\ Len(s) \in Nat /\ Len(t) = Len(s) + 1 /\ t # <<>> /\ Last(t) = "value"
      /\ \A i \in 1..Len(s) : t[i] = s[i]
      /\ t \in Seq(Slots)
  <2>1. "value" \in Slots
    BY DEF Slots
  <2>2. /\ Len(s) \in Nat /\ Len(t) = Len(s) + 1 /\ t # <<>>
        /\ \A i \in 1..Len(s) : t[i] = s[i]
        /\ t \in Seq(Slots) /\ t[Len(t)] = "value"
    BY <2>1
  <2> QED BY <2>2 DEF Last
<1>2. Front(t) \in Seq(Slots) /\ Len(Front(t)) = Len(s) /\ \A i \in 1..Len(s) : Front(t)[i] = s[i]
  <2>1. /\ Front(t) \in Seq(Slots) /\ Len(Front(t)) \in Nat /\ Len(t) = Len(Front(t)) + 1
        /\ \A i \in 1..Len(Front(t)) : Front(t)[i] = t[i]
    BY ONLY <1>1, PopFacts
  <2> QED BY ONLY <1>1, <2>1
<1>3. Front(t) = s
  BY ONLY <1>1, <1>2, s \in Seq(Slots)
<1>4. s # <<>> => t[1] = s[1]
  BY <1>1
<1> QED BY <1>1, <1>3, <1>4

(* A stack with something below its slots is not empty.                    *)
LEMMA BaseIsThere ==
    ASSUME NEW c \in Seq(Continuations), NEW s \in Seq(Slots), Matches(c, s, 1)
    PROVE  s # <<>>
<1>1. Len(c) \in Nat
  OBVIOUS
<1>2. Count(c, Len(c), HasSlot) \in 0..Len(c)
  BY <1>1, CountFacts
<1> QED BY <1>1, <1>2 DEF Matches

(* A step that pushes, pops, leaves or takes a value keeps the slots       *)
(* matched, and what is at the bottom of the stack.                        *)
LEMMA FramesKeepSlots ==
    ASSUME TypeOK, TypeOK', NEW base \in {0, 1}, SlotsAbove(base),
           \/ KeepsFrames \/ LeavesValue \/ TakesValue
           \/ \E tag \in Continuations : PushesFrame(tag) \/ PopsFrame(tag)
    PROVE  SlotsAbove(base)' /\ (base = 1 => stack # <<>> /\ stack' # <<>> /\ stack'[1] = stack[1])
<1>1. conts \in Seq(Continuations) /\ stack \in Seq(Slots) /\ conts' \in Seq(Continuations) /\ stack' \in Seq(Slots)
  BY DEF TypeOK, Slots
<1>2. Matched(base)
  BY SlotsAreMatched
<1>3. SUFFICES Matched(base)' /\ (base = 1 => stack # <<>> /\ stack' # <<>> /\ stack'[1] = stack[1])
  BY SlotsAreMatchedNext
<1>4. CASE KeepsFrames
  <2>1. Matched(base)' /\ stack' = stack /\ conts' = conts
    BY <1>2, <1>4 DEF KeepsFrames, Matched
  <2>2. base = 1 => stack # <<>>
    <3>1. CASE Resuming
      BY <1>2, <3>1 DEF Matched
    <3>2. CASE ~Resuming /\ base = 1
      BY <1>1, <1>2, <3>2, BaseIsThere DEF Matched
    <3> QED BY <3>1, <3>2
  <2> QED BY <2>1, <2>2
<1>5. CASE LeavesValue
  <2>1. Matches(conts, stack, base) /\ conts' = conts /\ Resuming' /\ stack' = Append(stack, "value")
    BY <1>2, <1>5 DEF LeavesValue, Quiet, Matched
  <2>2. stack' # <<>> /\ Last(stack') = "value" /\ Front(stack') = stack /\ (stack # <<>> => stack'[1] = stack[1])
    BY <1>1, <2>1, ValueOnTop
  <2>3. Matched(base)'
    BY <2>1, <2>2 DEF Matched
  <2>4. base = 1 => stack # <<>>
    BY <1>1, <2>1, BaseIsThere
  <2> QED BY <2>2, <2>3, <2>4
<1>6. CASE TakesValue
  <2>1. /\ stack # <<>> /\ Matches(conts, Front(stack), base) /\ conts' = conts /\ ~Resuming'
        /\ stack' = Front(stack)
    BY <1>2, <1>6 DEF TakesValue, Matched
  <2>2. Matched(base)'
    BY <2>1 DEF Matched
  <2>3. base = 1 => stack' # <<>>
    BY <1>1, <2>1, BaseIsThere
  <2>4. stack' # <<>> => stack'[1] = stack[1]
    <3>1. Len(stack') \in Nat /\ \A i \in 1..Len(stack') : stack'[i] = stack[i]
      BY <1>1, <2>1, PopFacts
    <3> QED BY <1>1, <3>1
  <2> QED BY <2>1, <2>2, <2>3, <2>4
<1>7. ASSUME NEW tag \in Continuations, PushesFrame(tag)
      PROVE  Matched(base)' /\ (base = 1 => stack # <<>> /\ stack' # <<>> /\ stack'[1] = stack[1])
  <2>1. /\ ~Resuming /\ ~Resuming' /\ conts' = Append(conts, tag)
        /\ stack' = IF tag \in HasSlot THEN Append(stack, tag) ELSE stack
    BY <1>7 DEF PushesFrame, Quiet
  <2>2. Matches(conts, stack, base)
    BY <1>2, <2>1 DEF Matched
  <2>3. Matches(conts', stack', base) /\ (base = 1 => stack'[1] = stack[1])
    <3>1. Extends(conts', conts, tag)
      BY <1>1, <2>1 DEF Extends
    <3>2. tag \in HasSlot => Extends(stack', stack, tag)
      BY <1>1, <2>1 DEF Extends, Slots
    <3>3. tag \notin HasSlot => stack' = stack
      BY <2>1
    <3> QED BY <1>1, <2>2, <3>1, <3>2, <3>3, PushMatches
  <2>4. base = 1 => stack # <<>> /\ stack' # <<>>
    BY <1>1, <2>2, <2>3, BaseIsThere
  <2> QED BY <2>1, <2>3, <2>4 DEF Matched
<1>8. ASSUME NEW tag \in Continuations, PopsFrame(tag)
      PROVE  Matched(base)' /\ (base = 1 => stack # <<>> /\ stack' # <<>> /\ stack'[1] = stack[1])
  <2>1. PICK st : /\ st = IF tag \in HasSlot THEN Front(stack) ELSE stack
                  /\ \/ ~Resuming' /\ stack' = st
                     \/ Resuming' /\ stack' = Append(st, "value")
    BY <1>8 DEF PopsFrame
  <2>2. /\ ~Resuming /\ conts # <<>> /\ tag = Last(conts) /\ conts' = Front(conts)
    BY <1>8 DEF PopsFrame, Quiet
  <2>3. Matches(conts, stack, base)
    BY <1>2, <2>2 DEF Matched
  <2>4. Matches(conts', st, base) /\ (base = 1 => st[1] = stack[1]) /\ st \in Seq(Slots)
    BY ONLY <1>1, <2>1, <2>2, <2>3, base \in {0, 1}, PopMatches
  <2>5. base = 1 => stack # <<>> /\ st # <<>>
    BY <1>1, <2>3, <2>4, BaseIsThere
  <2>6. CASE ~Resuming' /\ stack' = st
    BY <2>4, <2>5, <2>6 DEF Matched
  <2>7. CASE Resuming' /\ stack' = Append(st, "value")
    <3>1. stack' # <<>> /\ Last(stack') = "value" /\ Front(stack') = st /\ (st # <<>> => stack'[1] = st[1])
      BY <2>4, <2>7, ValueOnTop
    <3> QED BY <2>4, <2>5, <2>7, <3>1 DEF Matched
  <2> QED BY <2>1, <2>6, <2>7
<1> QED BY <1>4, <1>5, <1>6, <1>7, <1>8

(* What pushing a continuation does to the counts of the invariants,       *)
LEMMA PushCounts ==
    ASSUME TypeOK, TypeOK', NEW tag \in Continuations, PushesFrame(tag), NEW x
    PROVE  /\ CountOf(x) \in Nat
           /\ tag = x => CountOf(x)' = CountOf(x) + 1
           /\ tag # x => CountOf(x)' = CountOf(x)
<1>1. CountOf(x) = Count(conts, Len(conts), {x}) /\ CountOf(x)' = Count(conts', Len(conts'), {x})
  BY CountsAreCount, CountsAreCountNext
<1>2. Extends(conts', conts, tag) /\ Len(conts) \in Nat
  BY DEF PushesFrame, TypeOK, Extends
<1>3. /\ tag \in {x} => Count(conts', Len(conts'), {x}) = Count(conts, Len(conts), {x}) + 1
      /\ tag \notin {x} => Count(conts', Len(conts'), {x}) = Count(conts, Len(conts), {x})
  BY ONLY <1>2, CountOneMore DEF Extends
<1>4. CountOf(x) \in Nat
  <2>1. CountOf(x) \in 0..Len(conts)
    BY CountsAreCount
  <2> QED BY <1>2, <2>1
<1> QED BY <1>1, <1>3, <1>4

(* and popping one.                                                        *)
LEMMA PopCounts ==
    ASSUME TypeOK, TypeOK', NEW tag \in Continuations, PopsFrame(tag), NEW x
    PROVE  /\ CountOf(x) \in Nat /\ CountOf(x)' \in Nat
           /\ tag = x => CountOf(x) = CountOf(x)' + 1
           /\ tag # x => CountOf(x) = CountOf(x)'
<1>1. CountOf(x) = Count(conts, Len(conts), {x}) /\ CountOf(x)' = Count(conts', Len(conts'), {x})
  BY CountsAreCount, CountsAreCountNext
<1>2. Extends(conts, conts', tag) /\ Len(conts') \in Nat /\ Len(conts) \in Nat
  <2>1. conts \in Seq(Continuations) /\ conts # <<>> /\ conts' = Front(conts) /\ Last(conts) = tag
    BY DEF PopsFrame, TypeOK
  <2>2. /\ Len(conts') \in Nat /\ Len(conts) = Len(conts') + 1
        /\ \A i \in 1..Len(conts') : conts'[i] = conts[i]
        /\ conts[Len(conts)] = tag
    BY ONLY <2>1, PopFacts
  <2> QED BY <2>2 DEF Extends
<1>3. /\ tag \in {x} => Count(conts, Len(conts), {x}) = Count(conts', Len(conts'), {x}) + 1
      /\ tag \notin {x} => Count(conts, Len(conts), {x}) = Count(conts', Len(conts'), {x})
  BY ONLY <1>2, CountOneMore DEF Extends
<1>4. CountOf(x) \in Nat /\ CountOf(x)' \in Nat
  <2>1. CountOf(x) \in 0..Len(conts)
    BY CountsAreCount
  <2>2. Count(conts', Len(conts'), {x}) \in 0..Len(conts')
    BY <1>2, CountFacts
  <2> QED BY <1>1, <1>2, <2>1, <2>2
<1> QED BY <1>1, <1>3, <1>4

(* A single continuation.                                                  *)
LEMMA OneCont ==
    ASSUME NEW c, conts' = <<c>>
    PROVE  /\ \A x : c # x => CountOf(x)' = 0
           /\ Len(conts') = 1 /\ conts'[1] = c
<1>1. Len(conts') = 1 /\ conts'[1] = c /\ DOMAIN conts' = {1}
  OBVIOUS
<1>2. ASSUME NEW x, c # x PROVE CountOf(x)' = 0
  <2>1. {i \in DOMAIN conts' : conts'[i] = x} = {}
    BY <1>1, <1>2
  <2> QED BY <2>1, FS_EmptySet DEF CountOf
<1> QED BY <1>1, <1>2

(* Each kind of step keeps the frames right.                               *)
LEMMA PushKeepsFrames ==
    ASSUME TypeOK, TypeOK', FramesInv, NEW tag \in Continuations, PushesFrame(tag)
    PROVE  Unstarted' /\ Bottom' /\ NotEmpty' /\ MasksBalanced' /\ FinalizersBalanced'
<1>1. Unstarted' /\ NotEmpty'
  BY DEF PushesFrame, Quiet, Unstarted, NotEmpty, TypeOK
<1>2. Bottom'
  <2>1. Extends(conts', conts, tag) /\ Len(conts) \in Nat \ {0} /\ tag \notin Bottoms
        /\ finalizing' = finalizing
    BY DEF PushesFrame, TypeOK, Extends
  <2> QED BY <2>1 DEF FramesInv, Bottom, Extends
<1>3. MasksBalanced'
  <2>1. /\ CountOf("UncancelableK") \in Nat
        /\ tag = "UncancelableK" => CountOf("UncancelableK")' = CountOf("UncancelableK") + 1
        /\ tag # "UncancelableK" => CountOf("UncancelableK")' = CountOf("UncancelableK")
    BY PushCounts
  <2>2. /\ CountOf("UnmaskK") \in Nat
        /\ tag = "UnmaskK" => CountOf("UnmaskK")' = CountOf("UnmaskK") + 1
        /\ tag # "UnmaskK" => CountOf("UnmaskK")' = CountOf("UnmaskK")
    BY PushCounts
  <2>3. masks' = masks + MaskOf(tag) /\ finalizing' = finalizing /\ outcome' = outcome
    BY DEF PushesFrame
  <2>4. masks \in Int /\ MasksBalanced
    BY DEF TypeOK, FramesInv
  <2>5. CASE tag = "UncancelableK"
    BY <2>1, <2>2, <2>3, <2>4, <2>5 DEF MasksBalanced, MaskOf
  <2>6. CASE tag = "UnmaskK"
    BY <2>1, <2>2, <2>3, <2>4, <2>6 DEF MasksBalanced, MaskOf
  <2>7. CASE tag \notin {"UncancelableK", "UnmaskK"}
    BY <2>1, <2>2, <2>3, <2>4, <2>7 DEF MasksBalanced, MaskOf
  <2> QED BY <2>5, <2>6, <2>7
<1>4. FinalizersBalanced'
  <2>1. /\ CountOf("OnCancelK") \in Nat
        /\ tag = "OnCancelK" => CountOf("OnCancelK")' = CountOf("OnCancelK") + 1
        /\ tag # "OnCancelK" => CountOf("OnCancelK")' = CountOf("OnCancelK")
    BY PushCounts
  <2>2. /\ tag = "OnCancelK" => Len(finalizers') = Len(finalizers) + 1
        /\ tag # "OnCancelK" => finalizers' = finalizers
    BY DEF PushesFrame, TypeOK
  <2>3. finalizing' = finalizing /\ outcome' = outcome
    BY DEF PushesFrame
  <2> QED BY <2>1, <2>2, <2>3 DEF FramesInv, FinalizersBalanced
<1> QED BY <1>1, <1>2, <1>3, <1>4

(* Popping a frame keeps the invariant of the frames.                      *)
LEMMA PopKeepsFrames ==
    ASSUME TypeOK, TypeOK', FramesInv, NEW tag \in Continuations, PopsFrame(tag)
    PROVE  Unstarted' /\ Bottom' /\ NotEmpty' /\ MasksBalanced' /\ FinalizersBalanced'
<1>1. /\ Len(conts') \in Nat /\ Len(conts) = Len(conts') + 1
      /\ \A i \in 1..Len(conts') : conts'[i] = conts[i]
      /\ conts[Len(conts)] = tag
  <2>1. conts \in Seq(Continuations) /\ conts # <<>> /\ conts' = Front(conts) /\ Last(conts) = tag
    BY DEF PopsFrame, TypeOK
  <2> QED BY ONLY <2>1, PopFacts
<1>2. Len(conts') # 0
  <2>1. ASSUME Len(conts') = 0 PROVE FALSE
    <3>1. 1 \in 1..Len(conts) /\ conts[1] = tag
      BY <1>1, <2>1
    <3>2. tag \in Bottoms
      BY <3>1 DEF FramesInv, Bottom, Bottoms
    <3> QED BY <3>2 DEF PopsFrame
  <2> QED BY <2>1
<1>3. Unstarted' /\ NotEmpty'
  BY <1>2 DEF PopsFrame, Quiet, Unstarted, NotEmpty
<1>4. Bottom'
  BY <1>1 DEF FramesInv, Bottom, PopsFrame
<1>5. MasksBalanced'
  <2>1. /\ CountOf("UncancelableK") \in Nat /\ CountOf("UncancelableK")' \in Nat
        /\ tag = "UncancelableK" => CountOf("UncancelableK") = CountOf("UncancelableK")' + 1
        /\ tag # "UncancelableK" => CountOf("UncancelableK") = CountOf("UncancelableK")'
    BY PopCounts
  <2>2. /\ CountOf("UnmaskK") \in Nat /\ CountOf("UnmaskK")' \in Nat
        /\ tag = "UnmaskK" => CountOf("UnmaskK") = CountOf("UnmaskK")' + 1
        /\ tag # "UnmaskK" => CountOf("UnmaskK") = CountOf("UnmaskK")'
    BY PopCounts
  <2>3. masks' = masks - MaskOf(tag) /\ finalizing' = finalizing /\ outcome' = outcome
    BY DEF PopsFrame
  <2>4. masks \in Int /\ MasksBalanced
    BY DEF TypeOK, FramesInv
  <2>5. CASE tag = "UncancelableK"
    BY <2>1, <2>2, <2>3, <2>4, <2>5 DEF MasksBalanced, MaskOf
  <2>6. CASE tag = "UnmaskK"
    BY <2>1, <2>2, <2>3, <2>4, <2>6 DEF MasksBalanced, MaskOf
  <2>7. CASE tag \notin {"UncancelableK", "UnmaskK"}
    BY <2>1, <2>2, <2>3, <2>4, <2>7 DEF MasksBalanced, MaskOf
  <2> QED BY <2>5, <2>6, <2>7
<1>6. FinalizersBalanced'
  <2>1. /\ CountOf("OnCancelK") \in Nat /\ CountOf("OnCancelK")' \in Nat
        /\ tag = "OnCancelK" => CountOf("OnCancelK") = CountOf("OnCancelK")' + 1
        /\ tag # "OnCancelK" => CountOf("OnCancelK") = CountOf("OnCancelK")'
    BY PopCounts
  <2>2. finalizing' = finalizing /\ outcome' = outcome
    BY DEF PopsFrame
  <2>3. CASE outcome = NotCompleted /\ ~finalizing
    <3>1. Len(finalizers) = CountOf("OnCancelK")
      BY <2>3 DEF FramesInv, FinalizersBalanced
    <3>2. CASE tag = "OnCancelK"
      <4>1. finalizers' = Front(finalizers) /\ finalizers \in Seq({"any"} \cup Conts)
        BY <2>3, <3>2 DEF PopsFrame, TypeOK
      <4>2. finalizers # <<>>
        BY <2>1, <3>1, <3>2
      <4>3. Len(finalizers) = Len(finalizers') + 1 /\ Len(finalizers') \in Nat
        BY ONLY <4>1, <4>2, PopFacts
      <4> QED BY <2>1, <3>1, <3>2, <4>3 DEF FinalizersBalanced
    <3>3. CASE tag # "OnCancelK"
      <4>1. finalizers' = finalizers
        BY <2>3, <3>3 DEF PopsFrame
      <4> QED BY <2>1, <3>1, <3>3, <4>1 DEF FinalizersBalanced
    <3> QED BY <3>2, <3>3
  <2>4. CASE ~(outcome = NotCompleted /\ ~finalizing)
    BY <2>2, <2>4 DEF FinalizersBalanced
  <2> QED BY <2>3, <2>4
<1> QED BY <1>3, <1>4, <1>5, <1>6

(* So every kind of step keeps the frames right.                           *)
LEMMA FrameStepKeepsFrames ==
    ASSUME TypeOK, TypeOK', FramesInv, FrameStep
    PROVE  FramesInv'
<1>1. ASSUME \/ KeepsFrames \/ LeavesValue \/ TakesValue
             \/ \E tag \in Continuations : PushesFrame(tag) \/ PopsFrame(tag)
      PROVE  StackMatchesConts'
  <2>0. finalizing' = finalizing
    BY <1>1 DEF KeepsFrames, LeavesValue, TakesValue, PushesFrame, PopsFrame
  <2>1. CASE SlotsAbove(0)
    <3>1. SlotsAbove(0)'
      BY <1>1, <2>1, FramesKeepSlots
    <3> QED BY <3>1 DEF StackMatchesConts
  <2>2. CASE finalizing /\ SlotsAbove(1) /\ Head(stack) \in Cancelers
    <3>1. SlotsAbove(1)' /\ stack # <<>> /\ stack' # <<>> /\ stack'[1] = stack[1]
      BY <1>1, <2>2, FramesKeepSlots
    <3>2. Head(stack) = stack[1] /\ Head(stack') = stack'[1]
      BY <3>1 DEF TypeOK
    <3> QED BY <2>0, <2>2, <3>1, <3>2 DEF StackMatchesConts
  <2> QED BY <2>1, <2>2 DEF FramesInv, StackMatchesConts
<1>2. CASE KeepsFrames \/ LeavesValue \/ TakesValue
  <2>1. /\ UNCHANGED <<outcome, conts, masks, finalizing>>
        /\ ~finalizing => finalizers' = finalizers
        /\ Starting' <=> Starting
    BY <1>2 DEF KeepsFrames, LeavesValue, TakesValue, Quiet
  <2>2. Unstarted' /\ NotEmpty' /\ Bottom'
    BY <2>1 DEF FramesInv, Unstarted, NotEmpty, Bottom
  <2>3. MasksBalanced' /\ FinalizersBalanced'
    BY <2>1 DEF FramesInv, MasksBalanced, FinalizersBalanced, CountOf
  <2> QED BY <1>1, <1>2, <2>2, <2>3 DEF FramesInv
<1>3. ASSUME NEW tag \in Continuations, PushesFrame(tag) PROVE FramesInv'
  BY <1>1, <1>3, PushKeepsFrames DEF FramesInv
<1>4. ASSUME NEW tag \in Continuations, PopsFrame(tag) PROVE FramesInv'
  BY <1>1, <1>4, PopKeepsFrames DEF FramesInv
<1>5. CASE StartsProgram
  <2>1. /\ conts' = <<"TerminateK">> /\ stack' = <<>> /\ finalizers' = <<>>
        /\ ~Starting' /\ ~Resuming' /\ ~finalizing' /\ masks' = 0
    BY <1>5 DEF StartsProgram, FramesInv, Unstarted
  <2>2. /\ Len(conts') = 1 /\ conts'[1] = "TerminateK" /\ DOMAIN conts' = {1}
        /\ CountOf("UncancelableK")' = 0 /\ CountOf("UnmaskK")' = 0 /\ CountOf("OnCancelK")' = 0
    BY <2>1, OneCont
  <2>3. SlotsAbove(0)'
    <3>1. Count(conts', 1, HasSlot) = 0
      <4>1. {i \in 1..1 : conts'[i] \in HasSlot} = {}
        BY <2>2 DEF HasSlot
      <4> QED BY <4>1, FS_EmptySet DEF Count
    <3>2. Matches(conts', stack', 0)
      BY <2>1, <2>2, <3>1 DEF Matches, HasSlot
    <3>3. Matched(0)'
      BY <2>1, <3>2 DEF Matched
    <3> QED BY <3>3, SlotsAreMatchedNext
  <2>4. Unstarted' /\ NotEmpty' /\ Bottom'
    BY <2>1, <2>2 DEF Unstarted, NotEmpty, Bottom
  <2>5. MasksBalanced' /\ FinalizersBalanced'
    BY <2>1, <2>2 DEF MasksBalanced, FinalizersBalanced
  <2> QED BY <2>3, <2>4, <2>5 DEF FramesInv, StackMatchesConts
<1>6. CASE StartsFinalizing
  <2>1. /\ conts' = <<"CancelationLoopK">>
        /\ stack' = <<>> \/ \E k \in Cancelers : stack' = <<k>>
        /\ ~Starting' /\ ~Resuming' /\ finalizing' /\ masks' = 1
    BY <1>6 DEF StartsFinalizing
  <2>2. /\ Len(conts') = 1 /\ conts'[1] = "CancelationLoopK" /\ DOMAIN conts' = {1}
        /\ CountOf("UncancelableK")' = 0 /\ CountOf("UnmaskK")' = 0
    BY <2>1, OneCont
  <2>3. StackMatchesConts'
    <3>1. Count(conts', 1, HasSlot) = 0
      <4>1. {i \in 1..1 : conts'[i] \in HasSlot} = {}
        BY <2>2 DEF HasSlot
      <4> QED BY <4>1, FS_EmptySet DEF Count
    <3>2. CASE stack' = <<>>
      <4>1. Matches(conts', stack', 0)
        BY <2>2, <3>1, <3>2 DEF Matches, HasSlot
      <4>2. Matched(0)'
        BY <2>1, <4>1 DEF Matched
      <4> QED BY <4>2, SlotsAreMatchedNext DEF StackMatchesConts
    <3>3. ASSUME NEW k \in Cancelers, stack' = <<k>> PROVE StackMatchesConts'
      <4>0. Len(stack') = 1 /\ Head(stack') = k
        BY <3>3
      <4>1. Matches(conts', stack', 1)
        BY <2>2, <3>1, <4>0 DEF Matches, HasSlot
      <4>2. Matched(1)'
        BY <2>1, <4>1 DEF Matched
      <4>3. SlotsAbove(1)'
        BY <4>2, SlotsAreMatchedNext
      <4> QED BY <2>1, <4>0, <4>3 DEF StackMatchesConts
    <3> QED BY <2>1, <3>2, <3>3
  <2>4. Unstarted' /\ NotEmpty' /\ Bottom'
    BY <2>1, <2>2 DEF Unstarted, NotEmpty, Bottom
  <2>5. MasksBalanced' /\ FinalizersBalanced'
    BY <2>1, <2>2 DEF MasksBalanced, FinalizersBalanced
  <2> QED BY <2>3, <2>4, <2>5 DEF FramesInv
<1>7. CASE EndsFrames
  <2>1. outcome' # NotCompleted /\ conts' = <<>> /\ stack' = <<>> /\ ~Starting' /\ ~Resuming'
    BY <1>7 DEF EndsFrames, Complete, Outcomes, NotCompleted
  <2>2. Unstarted' /\ NotEmpty' /\ Bottom' /\ MasksBalanced' /\ FinalizersBalanced'
    BY <2>1 DEF Unstarted, NotEmpty, Bottom, MasksBalanced, FinalizersBalanced
  <2>3. SlotsAbove(0)'
    <3>1. Count(conts', 0, HasSlot) = 0 /\ Len(conts') = 0 /\ Len(stack') = 0
      BY <2>1, CountFacts
    <3>2. Matches(conts', stack', 0)
      BY <3>1 DEF Matches
    <3>3. Matched(0)'
      BY <2>1, <3>2 DEF Matched
    <3> QED BY <3>3, SlotsAreMatchedNext
  <2> QED BY <2>2, <2>3 DEF FramesInv, StackMatchesConts
<1> QED BY <1>2, <1>3, <1>4, <1>5, <1>6, <1>7 DEF FrameStep

(* What holds while the loop runs.                                         *)
LEMMA InTurn ==
    ASSUME TypeOK, RunLoopOwnership, FramesInv, turn # NoTurn
    PROVE  /\ scheduled = 0 /\ ~suspended /\ outcome = NotCompleted
           /\ ~Resuming /\ ~Starting /\ conts # <<>>
           /\ \A k \in Cancelers : pc[k] # "owner"
<1>1. /\ scheduled = 0 /\ ~suspended /\ outcome = NotCompleted
      /\ \A k \in Cancelers : pc[k] # "owner"
  BY DEF RunLoopOwnership, AtMostOneOwner, Owned, IsOwner, TypeOK
<1>2. ~Resuming /\ ~Starting
  BY <1>1 DEF Resuming, Starting
<1> QED BY <1>1, <1>2 DEF FramesInv, NotEmpty

(* The continuation that ends the program or a finalizer is alone when it  *)
(* is reached.                                                             *)
LEMMA LastAtBottom ==
    ASSUME TypeOK, Bottom, conts # <<>>, Last(conts) \in Bottoms
    PROVE  Len(conts) = 1 /\ Last(conts) = IF finalizing THEN "CancelationLoopK" ELSE "TerminateK"
<1>1. Len(conts) \in 1..Len(conts) /\ Last(conts) = conts[Len(conts)]
  BY DEF TypeOK, Last
<1> QED BY <1>1 DEF Bottom

(* prepareForCancelation starts the finalization, goes on with it, or ends *)
(* the fiber.                                                              *)
LEMMA PrepareFrames ==
    ASSUME TypeOK, NEW cb \in Cancelers \cup {NoCb}, NEW ks, NEW st,
           PrepareForCancelation(cb, ks, st), scheduled' = 0, masks = 0,
           outcome = NotCompleted, canceled', cb = NoCb \/ pc[cb] = "owner",
           \A k \in Cancelers : pc[k] = "owner" => k = cb
    PROVE  \/ EndsFrames
           \/ StartsFinalizing
           \/ /\ finalizing /\ conts' = ks /\ stack' = st
              /\ UNCHANGED <<outcome, masks, finalizing>>
<1>1. ~Starting' /\ ~Resuming'
  BY DEF Starting, Resuming
<1>2. CASE finalizers = <<>>
  <2>1. Complete("Canceled", cb) /\ "Canceled" \in Outcomes
    BY <1>2 DEF PrepareForCancelation, Outcomes
  <2>2. cb \in Slots \cup {NoCb} /\ EndsFor(cb)
    BY DEF Slots, EndsFor
  <2> QED BY <1>1, <1>2, <2>1, <2>2 DEF EndsFrames
<1>3. CASE finalizers # <<>> /\ finalizing
  BY <1>3 DEF PrepareForCancelation, TypeOK
<1>4. CASE finalizers # <<>> /\ ~finalizing
  <2>1. /\ finalizing' /\ masks' = masks + 1
        /\ UNCHANGED <<outcome, callbacks>>
        /\ conts' = <<"CancelationLoopK">>
        /\ stack' = IF cb = NoCb THEN <<>> ELSE <<cb>>
        /\ pc' = IF cb = NoCb THEN pc ELSE [pc EXCEPT ![cb] = "awaiting"]
    BY <1>4 DEF PrepareForCancelation
  <2>2. CASE cb = NoCb
    BY <1>1, <1>4, <2>1, <2>2 DEF StartsFinalizing
  <2>3. CASE cb # NoCb
    <3>1. /\ cb \in Cancelers /\ pc[cb] = "owner" /\ stack' = <<cb>>
          /\ pc' = [pc EXCEPT ![cb] = "awaiting"]
      BY <2>1, <2>3
    <3>2. \E k \in Cancelers : /\ pc[k] = "owner"
                               /\ stack' = <<k>>
                               /\ pc' = [pc EXCEPT ![k] = "awaiting"]
      BY ONLY <3>1
    <3>3. masks' = 1 /\ conts' = <<"CancelationLoopK">> /\ finalizing'
      BY <2>1
    <3>4. StartsFinalizing
      BY ONLY <1>1, <1>4, <2>1, <3>2, <3>3, masks = 0, outcome = NotCompleted, canceled' DEF StartsFinalizing
    <3> QED BY <3>4
  <2> QED BY <2>2, <2>3
<1> QED BY <1>2, <1>3, <1>4

(* Every step of the run loop is a step of the frames: each node pushes    *)
(* what its continuation pops.                                             *)
LEMMA LoopFrames ==
    ASSUME TypeOK, RunLoopOwnership, FramesInv, Requested, LoopStep
    PROVE  FrameStep
<1>0. /\ turn # NoTurn /\ scheduled = 0 /\ ~Resuming /\ ~Starting
      /\ conts # <<>> /\ outcome = NotCompleted
      /\ \A k \in Cancelers : pc[k] # "owner"
  BY LoopEffect, InTurn
<1>00. ASSUME UNCHANGED <<resumeTag, scheduled>> PROVE ~Resuming' /\ ~Starting'
  BY <1>0, <1>00 DEF Resuming, Starting
<1>000. \A tag : tag \notin {"UncancelableK", "UnmaskK"} => masks + MaskOf(tag) = masks
  BY DEF TypeOK, MaskOf
<1> USE DEF loopVars, frameVars, maskVars, doneVars
<1>1. CASE Finalize
  <2>1. PrepareForCancelation(NoCb, conts, stack) /\ scheduled' = 0 /\ masks = 0 /\ canceled'
    BY <1>0, <1>1 DEF Finalize, ShouldFinalize, IsUnmasked
  <2>2. \/ EndsFrames \/ StartsFinalizing
        \/ finalizing /\ UNCHANGED <<conts, stack, outcome, masks, finalizing>>
    BY <1>0, <2>1, PrepareFrames
  <2>3. ~Resuming' /\ ~Starting'
    BY <2>1 DEF Resuming, Starting
  <2> QED BY <1>0, <2>2, <2>3 DEF FrameStep, KeepsFrames
<1>2. CASE AutoSuspend \/ Suspend
  <2>1. ~Resuming' /\ ~Starting'
    BY <1>2 DEF AutoSuspend, Suspend, Schedule, Resuming, Starting
  <2> QED BY <1>0, <1>2, <2>1 DEF AutoSuspend, Suspend, FrameStep, KeepsFrames
<1>3. CASE Pure \/ Fail \/ Defer \/ ContFinalizer
  BY <1>0, <1>00, <1>3 DEF Pure, Fail, Defer, ContFinalizer, FrameStep, KeepsFrames
<1>4. CASE IOCont
  BY <1>0, <1>00, <1>4 DEF IOCont, FrameStep, KeepsFrames
<1>5. ASSUME NEW node, NEW tag \in {"MapK", "FlatMapK", "HandleErrorWithK", "AttemptK"},
             PushTransformer(node, tag)
      PROVE  FrameStep
  <2>1. /\ masks + MaskOf(tag) = masks /\ tag \in Continuations \ Bottoms
        /\ tag \in HasSlot <=> tag # "AttemptK"
        /\ tag # "OnCancelK" /\ tag # "UnmaskK"
    BY <1>000 DEF Continuations, Bottoms, HasSlot
  <2>2. PushesFrame(tag)
    BY <1>0, <1>00, <1>5, <2>1 DEF PushTransformer, PushesFrame, Quiet
  <2> QED BY <2>1, <2>2 DEF FrameStep
<1>6. CASE Map \/ FlatMap \/ HandleErrorWith \/ Attempt
  BY <1>5, <1>6 DEF Map, FlatMap, HandleErrorWith, Attempt
<1>7. CASE OnCancel
  <2>1. /\ masks + MaskOf("OnCancelK") = masks /\ "OnCancelK" \in Continuations \ Bottoms
        /\ "OnCancelK" \notin HasSlot
    BY <1>000 DEF Continuations, Bottoms, HasSlot
  <2>2. PushesFrame("OnCancelK")
    BY <1>0, <1>00, <1>7, <2>1 DEF OnCancel, PushesFrame, Quiet
  <2> QED BY <2>1, <2>2 DEF FrameStep
<1>8. CASE IOContGet
  <2>1. UNCHANGED <<stack, maskVars, outcome, resumeTag, scheduled>>
    BY <1>8 DEF IOContGet
  <2>2. PICK c \in Conts : finalizers' = Append(finalizers, c) /\ conts' = Append(conts, "OnCancelK")
    BY <1>8 DEF IOContGet
  <2>3. /\ masks + MaskOf("OnCancelK") = masks /\ "OnCancelK" \in Continuations \ Bottoms
        /\ "OnCancelK" \notin HasSlot
    BY <1>000 DEF Continuations, Bottoms, HasSlot
  <2>4. PushesFrame("OnCancelK")
    BY <1>0, <1>00, <2>1, <2>2, <2>3 DEF PushesFrame, Quiet
  <2> QED BY <2>3, <2>4 DEF FrameStep
<1>9. CASE Canceled
  <2>1. CASE IsUnmasked
    <3>1. PrepareForCancelation(NoCb, conts, stack) /\ scheduled' = 0 /\ masks = 0 /\ canceled'
      BY <1>0, <1>9, <2>1 DEF Canceled, IsUnmasked
    <3>2. \/ EndsFrames \/ StartsFinalizing
          \/ finalizing /\ UNCHANGED <<conts, stack, outcome, masks, finalizing>>
      BY <1>0, <3>1, PrepareFrames
    <3>3. ~Resuming' /\ ~Starting'
      BY <3>1 DEF Resuming, Starting
    <3> QED BY <1>0, <3>2, <3>3 DEF FrameStep, KeepsFrames
  <2>2. CASE ~IsUnmasked
    BY <1>0, <1>00, <1>9, <2>2 DEF Canceled, FrameStep, KeepsFrames
  <2> QED BY <2>1, <2>2
<1>10. CASE Uncancelable
  <2>1. PushesFrame("UncancelableK")
    BY <1>0, <1>00, <1>10 DEF Uncancelable, PushesFrame, Quiet, HasSlot, Bottoms, Continuations, MaskOf
  <2> QED BY <2>1 DEF FrameStep, Continuations
<1>11. CASE UnmaskRunLoop
  <2>1. UNCHANGED <<stack, finalizers, finalizing, outcome, resumeTag, scheduled>>
    BY <1>11 DEF UnmaskRunLoop
  <2>2. PICK id \in 1..lastId :
          /\ finalizing /\ id = 1 => PollInFinalizers
          /\ IF masks = id
               THEN masks' = masks - 1 /\ conts' = Append(conts, "UnmaskK")
               ELSE UNCHANGED <<masks, conts>>
    BY <1>11 DEF UnmaskRunLoop
  <2>3. CASE masks = id
    <3>1. masks \in Int /\ masks + (-1) = masks - 1 /\ masks >= 1 /\ lastId \in Int
      BY <2>3 DEF TypeOK
    <3>2. finalizing /\ ~PollInFinalizers => masks > 1
      BY <2>2, <2>3, <3>1
    <3>3. /\ masks' = masks + MaskOf("UnmaskK") /\ conts' = Append(conts, "UnmaskK")
          /\ "UnmaskK" \notin HasSlot /\ "UnmaskK" \in Continuations \ Bottoms
      BY <2>2, <2>3, <3>1 DEF MaskOf, HasSlot, Continuations, Bottoms
    <3>4. PushesFrame("UnmaskK")
      BY <1>0, <1>00, <2>1, <3>2, <3>3 DEF PushesFrame, Quiet
    <3> QED BY <3>3, <3>4 DEF FrameStep
  <2>4. CASE masks # id
    BY <1>0, <1>00, <2>1, <2>2, <2>4 DEF FrameStep, KeepsFrames
  <2> QED BY <2>3, <2>4
<1>12. CASE ExecuteOn
  <2>1. ~Resuming' /\ ~Starting'
    BY <1>12 DEF ExecuteOn, Schedule, Resuming, Starting
  <2>2. /\ masks + MaskOf("RunOnK") = masks /\ "RunOnK" \in Continuations \ Bottoms
        /\ "RunOnK" \in HasSlot
    BY <1>000 DEF Continuations, Bottoms, HasSlot
  <2>3. PushesFrame("RunOnK")
    BY <1>0, <1>12, <2>1, <2>2 DEF ExecuteOn, PushesFrame, Quiet
  <2> QED BY <2>2, <2>3 DEF FrameStep
<1>13. ASSUME NEW tag \in {"MapK", "FlatMapK", "HandleErrorWithK"},
              Continue(tag), stack' = Front(stack), UNCHANGED <<finalizers, masks>>
       PROVE  FrameStep
  <2>1. /\ masks' = masks - MaskOf(tag) /\ tag \in HasSlot /\ tag # "OnCancelK"
        /\ tag \notin Bottoms /\ tag \in Continuations
    BY <1>13 DEF MaskOf, HasSlot, TypeOK, Bottoms, Continuations
  <2>2. PopsFrame(tag)
    BY <1>0, <1>00, <1>13, <2>1 DEF Continue, PopCont, PopsFrame, Quiet
  <2> QED BY <2>1, <2>2 DEF FrameStep
<1>14. CASE ContinueMap \/ ContinueFlatMap \/ ContinueHandleErrorWith
  BY <1>13, <1>14 DEF ContinueMap, ContinueFlatMap, ContinueHandleErrorWith
<1>15. ASSUME NEW tag \in {"AttemptK", "OnCancelK", "UncancelableK", "UnmaskK"},
              Continue(tag), UNCHANGED stack,
              masks' = masks - MaskOf(tag),
              finalizers' = IF tag = "OnCancelK" THEN Front(finalizers) ELSE finalizers
       PROVE  FrameStep
  <2>1. tag \notin HasSlot /\ tag \notin Bottoms /\ tag \in Continuations
    BY DEF HasSlot, Bottoms, Continuations
  <2>2. PopsFrame(tag)
    BY <1>0, <1>00, <1>15, <2>1 DEF Continue, PopCont, PopsFrame, Quiet
  <2> QED BY <2>1, <2>2 DEF FrameStep
<1>16. CASE ContinueAttempt \/ ContinueOnCancel \/ ContinueUncancelable \/ ContinueUnmask
  <2>1. masks \in Int
    BY DEF TypeOK
  <2>2. CASE ContinueUnmask
    <3>1. masks' = masks - MaskOf("UnmaskK")
      BY <2>1, <2>2 DEF ContinueUnmask, MaskOf
    <3> QED BY <1>15, <2>2, <3>1 DEF ContinueUnmask
  <2>3. CASE ContinueUncancelable
    BY <1>15, <2>3 DEF ContinueUncancelable, MaskOf
  <2>4. CASE ContinueAttempt
    BY <1>15, <2>1, <2>4 DEF ContinueAttempt, MaskOf
  <2>5. CASE ContinueOnCancel
    BY <1>15, <2>1, <2>5 DEF ContinueOnCancel, MaskOf
  <2> QED BY <1>16, <2>2, <2>3, <2>4, <2>5
<1>17. CASE ExecuteOnK
  <2>1. CASE ShouldFinalize
    <3>1. PrepareForCancelation(NoCb, Front(conts), Front(stack)) /\ scheduled' = 0 /\ masks = 0 /\ canceled'
      BY <1>0, <1>17, <2>1 DEF ExecuteOnK, ShouldFinalize, IsUnmasked
    <3>2. \/ EndsFrames \/ StartsFinalizing
          \/ /\ finalizing /\ conts' = Front(conts) /\ stack' = Front(stack)
             /\ UNCHANGED <<outcome, masks, finalizing>>
      BY <1>0, <3>1, PrepareFrames
    <3>3. ~Resuming' /\ ~Starting'
      BY <3>1 DEF Resuming, Starting
    <3>4. /\ masks - MaskOf("RunOnK") = masks /\ "RunOnK" \in HasSlot
          /\ "RunOnK" \notin Bottoms /\ "RunOnK" \in Continuations
      BY DEF MaskOf, HasSlot, Bottoms, Continuations, TypeOK
    <3>5. Last(conts) = "RunOnK"
      BY <1>17 DEF ExecuteOnK
    <3>6. ASSUME /\ finalizing /\ conts' = Front(conts) /\ stack' = Front(stack)
                 /\ UNCHANGED <<outcome, masks, finalizing>>
          PROVE  FrameStep
      <4>1. PopsFrame("RunOnK")
        BY <1>0, <3>3, <3>4, <3>5, <3>6 DEF PopsFrame, Quiet
      <4> QED BY <3>4, <4>1 DEF FrameStep
    <3> QED BY <3>2, <3>6 DEF FrameStep
  <2>2. CASE ~ShouldFinalize
    <3>1. Resuming' /\ ~Starting'
      BY <1>0, <1>17, <2>2 DEF ExecuteOnK, Schedule, Resuming, Starting
    <3>2. /\ masks - MaskOf("RunOnK") = masks /\ "RunOnK" \in HasSlot
          /\ "RunOnK" \notin Bottoms /\ "RunOnK" \in Continuations
      BY DEF MaskOf, HasSlot, Bottoms, Continuations, TypeOK
    <3>3. PopsFrame("RunOnK")
      BY <1>0, <1>17, <2>2, <3>1, <3>2 DEF ExecuteOnK, PopsFrame, Quiet
    <3> QED BY <3>2, <3>3 DEF FrameStep
  <2> QED BY <2>1, <2>2
<1>18. CASE CancelationLoopK
  <2>1. finalizing
    <3>1. Last(conts) = "CancelationLoopK"
      BY <1>18 DEF CancelationLoopK, PopCont
    <3> QED BY <1>0, <3>1, LastAtBottom DEF FramesInv, Bottoms
  <2>2. scheduled' = scheduled
    BY <1>18 DEF CancelationLoopK, PopCont
  <2>3. CASE finalizers # <<>>
    BY <1>0, <1>00, <1>18, <2>1, <2>2, <2>3 DEF CancelationLoopK, FrameStep, KeepsFrames
  <2>4. CASE finalizers = <<>>
    <3> DEFINE cb == IF stack = <<>> THEN NoCb ELSE Last(stack)
    <3>1. Complete("Canceled", cb) /\ "Canceled" \in Outcomes /\ Last(conts) = "CancelationLoopK"
      BY <1>18, <2>4 DEF CancelationLoopK, PopCont, Outcomes
    <3>2. canceled'
      BY <1>18, <2>1 DEF CancelationLoopK, Requested
    <3>3. cb \in Slots \cup {NoCb}
      <4>1. stack \in Seq(Slots)
        BY DEF TypeOK, Slots
      <4> QED BY <4>1, FrontLastType
    <3>4. EndsFor(cb)
      BY <1>0, <2>1, <3>1 DEF EndsFor
    <3>5. ~Resuming' /\ ~Starting'
      BY <1>0, <2>2 DEF Resuming, Starting
    <3> HIDE DEF cb
    <3> QED BY <1>0, <2>4, <3>1, <3>2, <3>3, <3>4, <3>5 DEF EndsFrames, FrameStep
  <2> QED BY <2>3, <2>4
<1>19. CASE TerminateK
  <2>1. PICK oc \in Outcomes : Complete(oc, NoCb) /\ (oc = "Canceled" <=> canceled')
    BY <1>19 DEF TerminateK, Outcomes
  <2>2. ~Resuming' /\ ~Starting' /\ Last(conts) = "TerminateK"
    BY <1>0, <1>19 DEF TerminateK, PopCont, Resuming, Starting
  <2>3. Len(conts) = 1 /\ ~finalizing
    BY <1>0, <2>2, LastAtBottom DEF FramesInv, Bottoms
  <2>4. CountOf("OnCancelK") = 0
    <3>1. DOMAIN conts = {1} /\ conts[1] = "TerminateK"
      BY <2>2, <2>3 DEF TypeOK, Last
    <3>2. {i \in DOMAIN conts : conts[i] = "OnCancelK"} = {}
      BY <3>1
    <3> QED BY <3>2, FS_EmptySet DEF CountOf
  <2>5. finalizers = <<>>
    <3>1. Len(finalizers) = 0
      BY <1>0, <2>3, <2>4 DEF FramesInv, FinalizersBalanced
    <3> QED BY <3>1 DEF TypeOK
  <2>6. EndsFor(NoCb)
    BY <1>0, <2>3 DEF EndsFor
  <2> QED BY <1>0, <2>1, <2>2, <2>5, <2>6 DEF EndsFrames, FrameStep
<1> QED
  BY <1>1, <1>2, <1>3, <1>4, <1>6, <1>7, <1>8, <1>9, <1>10, <1>11, <1>12, <1>14, <1>16, <1>17, <1>18, <1>19 DEF LoopStep

(* A run() starts the program, takes the value it was resumed with, or     *)
(* starts the finalization.                                                *)
LEMMA RunFrames ==
    ASSUME TypeOK, RunLoopOwnership, FramesInv, Requested, Run
    PROVE  FrameStep
<1>0. /\ scheduled = 1 /\ scheduled' = 0 /\ turn = NoTurn /\ outcome = NotCompleted
      /\ \A k \in Cancelers : pc[k] # "owner"
  <2>1. scheduled > 0 /\ scheduled' = scheduled - 1 /\ turn = NoTurn
    BY DEF Run
  <2> QED BY <2>1 DEF RunLoopOwnership, AtMostOneOwner, Owned, TypeOK, IsOwner
<1>1. ~Resuming' /\ ~Starting'
  BY <1>0 DEF Resuming, Starting
<1> USE DEF maskVars, doneVars, frameVars
<1>2. CASE resumeTag = "Exec" /\ ExecR
  <2>1. Starting
    BY <1>0, <1>2 DEF Starting
  <2>2. CASE canceled
    <3>1. /\ Complete("Canceled", NoCb) /\ canceled' = canceled /\ "Canceled" \in Outcomes
          /\ ~finalizing
      BY <1>2, <2>1, <2>2 DEF ExecR, Outcomes, FramesInv, Unstarted
    <3>2. EndsFor(NoCb)
      BY <1>0, <3>1 DEF EndsFor
    <3> QED BY <1>0, <1>1, <1>2, <2>2, <3>1, <3>2 DEF EndsFrames, FrameStep
  <2>3. CASE ~canceled
    BY <1>1, <1>2, <2>1, <2>3 DEF ExecR, StartsProgram, FrameStep
  <2> QED BY <2>2, <2>3
<1>3. CASE resumeTag \in {"Suspend", "AutoSuspend"} /\ SuspendR
  BY <1>1, <1>3 DEF SuspendR, Resuming, Starting, KeepsFrames, FrameStep
<1>4. CASE resumeTag = "AsyncContinueCanceled" /\ AsyncContinueCanceledR
  <2>1. masks = 0 /\ PrepareForCancelation(NoCb, conts, stack) /\ canceled'
    BY <1>0, <1>4 DEF Requested, ShouldFinalize, IsUnmasked, AsyncContinueCanceledR
  <2>2. \/ EndsFrames \/ StartsFinalizing
        \/ finalizing /\ UNCHANGED <<conts, stack, outcome, masks, finalizing>>
    BY <1>0, <2>1, PrepareFrames
  <2> QED BY <1>1, <1>4, <2>2 DEF Resuming, Starting, KeepsFrames, FrameStep
<1>5. CASE AsyncContinueR
  <2>1. Resuming /\ ~Starting
    BY <1>0, <1>5 DEF AsyncContinueR, Resuming, Starting
  <2> QED BY <1>1, <1>5, <2>1 DEF AsyncContinueR, TakesValue, FrameStep
<1>6. \/ resumeTag = "Exec" /\ ExecR
      \/ resumeTag \in {"Suspend", "AutoSuspend"} /\ SuspendR
      \/ resumeTag = "AsyncContinueCanceled" /\ AsyncContinueCanceledR
      \/ AsyncContinueR
  BY DEF Run
<1> QED BY <1>2, <1>3, <1>4, <1>5, <1>6

(* A canceler starts the finalization or leaves the frames alone.          *)
LEMMA CancelerFrames ==
    ASSUME TypeOK, RunLoopOwnership, FramesInv, Requested, NEW k \in Cancelers,
           Cancel(k) \/ CancelCompleted(k) \/ RunFinalizers(k)
    PROVE  FrameStep
<1>1. CASE Cancel(k)
  BY <1>1 DEF Cancel, frameVars, Resuming, Starting, KeepsFrames, FrameStep
<1>2. CASE CancelCompleted(k)
  BY <1>2 DEF CancelCompleted, frameVars, loopVars, maskVars, Resuming, Starting, KeepsFrames, FrameStep
<1>3. CASE RunFinalizers(k)
  <2>1. /\ scheduled = 0 /\ scheduled' = 0 /\ masks = 0 /\ PrepareForCancelation(k, conts, stack)
        /\ canceled' /\ outcome = NotCompleted /\ pc[k] = "owner"
        /\ \A l \in Cancelers : pc[l] = "owner" => l = k
    BY <1>3 DEF RunFinalizers, Requested, ShouldFinalize, IsUnmasked, IsOwner,
                RunLoopOwnership, AtMostOneOwner, Owned
  <2>2. \/ EndsFrames \/ StartsFinalizing
        \/ finalizing /\ UNCHANGED <<conts, stack, outcome, masks, finalizing>>
    BY <2>1, PrepareFrames
  <2> QED BY <2>1, <2>2 DEF Resuming, Starting, KeepsFrames, FrameStep
<1> QED BY <1>1, <1>2, <1>3

(* A callback leaves at most a value on the stack.                         *)
LEMMA CallbackFrames ==
    ASSUME TypeOK, RunLoopOwnership, FramesInv, NEW c \in Conts, NEW r \in Results, Callback(c, r)
    PROVE  FrameStep
<1>1. UNCHANGED <<conts, finalizers, masks, finalizing, outcome>>
  BY DEF Callback, maskVars, doneVars
<1>2. CASE UNCHANGED <<scheduled, resumeTag, stack>>
  BY <1>1, <1>2 DEF Resuming, Starting, KeepsFrames, FrameStep
<1>3. CASE suspended /\ ResumeWith(c, r) /\ state[c].wasFinalizing = finalizing
  <2>1. scheduled = 0 /\ scheduled' = 1 /\ ~Resuming /\ ~Starting
    BY <1>3 DEF RunLoopOwnership, AtMostOneOwner, ResumeWith, Resuming, Starting
  <2>2. CASE ShouldFinalize
    BY <1>1, <1>3, <2>1, <2>2 DEF ResumeWith, Resuming, Starting, KeepsFrames, FrameStep
  <2>3. CASE ~ShouldFinalize
    <3>1. Resuming' /\ ~Starting' /\ stack' = Append(stack, "value")
      BY <1>3, <2>1, <2>3 DEF ResumeWith, Resuming, Starting
    <3> QED BY <1>1, <2>1, <3>1 DEF LeavesValue, Quiet, FrameStep
  <2> QED BY <2>2, <2>3
<1> QED BY <1>2, <1>3 DEF Callback, ResumeWith, WaitOrDrop

(* Only IO.canceled requests a cancelation from inside.                     *)
LEMMA LoopCancels ==
    ASSUME LoopStep
    PROVE  canceled' = canceled \/ (canceled' = TRUE /\ Canceled)
<1> USE DEF maskVars
<1>1. CASE Finalize \/ AutoSuspend \/ Pure \/ Fail \/ Defer \/ IOCont \/ IOContGet \/ ContFinalizer
           \/ Suspend \/ ExecuteOn
  BY <1>1 DEF Finalize, AutoSuspend, Pure, Fail, Defer, IOCont, IOContGet, ContFinalizer, Suspend, ExecuteOn
<1>2. CASE Map \/ FlatMap \/ HandleErrorWith \/ Attempt \/ OnCancel \/ Uncancelable \/ UnmaskRunLoop
  BY <1>2 DEF Map, FlatMap, HandleErrorWith, Attempt, PushTransformer, OnCancel, Uncancelable, UnmaskRunLoop
<1>3. CASE Canceled
  BY <1>3 DEF Canceled
<1>4. CASE ContinueMap \/ ContinueFlatMap \/ ContinueHandleErrorWith \/ ContinueAttempt
           \/ ContinueOnCancel \/ ContinueUncancelable \/ ContinueUnmask
  BY <1>4 DEF ContinueMap, ContinueFlatMap, ContinueHandleErrorWith, ContinueAttempt,
              ContinueOnCancel, ContinueUncancelable, ContinueUnmask, Continue
<1>5. CASE ExecuteOnK
  BY <1>5 DEF ExecuteOnK
<1>6. CASE CancelationLoopK \/ TerminateK
  BY <1>6 DEF CancelationLoopK, TerminateK
<1> QED BY <1>1, <1>2, <1>3, <1>4, <1>5, <1>6 DEF LoopStep

(* Who changes a request.                                                  *)
LEMMA LoopRequested ==
    ASSUME TypeOK, RunLoopOwnership, FramesInv, Requested, LoopStep
    PROVE  Requested'
<1>0. /\ turn # NoTurn /\ scheduled = 0 /\ ~Resuming /\ ~Starting
      /\ conts # <<>> /\ \A k \in Cancelers : pc[k] # "owner"
  BY LoopEffect, InTurn
<1>1. \A k \in Cancelers : pc'[k] # "owner"
  BY <1>0, LoopEffect DEF NoNewOwner
<1> USE DEF loopVars, frameVars, maskVars, doneVars
<1>2. canceled' = canceled \/ (canceled' = TRUE /\ Canceled)
  BY LoopCancels
<1>3. finalizing' = finalizing \/ canceled'
  <2>1. CASE Finalize
    BY <1>2, <2>1 DEF Finalize, ShouldFinalize, Canceled
  <2>2. CASE AutoSuspend \/ Pure \/ Fail \/ Defer \/ IOCont \/ IOContGet \/ ContFinalizer
             \/ Suspend \/ ExecuteOn
    BY <2>2 DEF AutoSuspend, Pure, Fail, Defer, IOCont, IOContGet, ContFinalizer, Suspend, ExecuteOn
  <2>3. CASE Map \/ FlatMap \/ HandleErrorWith \/ Attempt \/ OnCancel \/ Uncancelable \/ UnmaskRunLoop
    BY <2>3 DEF Map, FlatMap, HandleErrorWith, Attempt, PushTransformer, OnCancel, Uncancelable, UnmaskRunLoop
  <2>4. CASE Canceled
    BY <2>4 DEF Canceled
  <2>5. CASE ContinueMap \/ ContinueFlatMap \/ ContinueHandleErrorWith \/ ContinueAttempt
             \/ ContinueOnCancel \/ ContinueUncancelable \/ ContinueUnmask
    BY <2>5 DEF ContinueMap, ContinueFlatMap, ContinueHandleErrorWith, ContinueAttempt,
                ContinueOnCancel, ContinueUncancelable, ContinueUnmask, Continue
  <2>6. CASE ExecuteOnK
    BY <1>2, <2>6 DEF ExecuteOnK, ShouldFinalize, Canceled
  <2>7. CASE CancelationLoopK \/ TerminateK
    BY <2>7 DEF CancelationLoopK, TerminateK, Complete
  <2> QED BY <2>1, <2>2, <2>3, <2>4, <2>5, <2>6, <2>7 DEF LoopStep
<1>4. scheduled' = 0 \/ resumeTag' # "AsyncContinueCanceled"
  <2>1. CASE KeepsTurn \/ Completes
    BY <1>0, <2>1 DEF KeepsTurn, Completes
  <2>2. CASE AutoSuspend \/ ExecuteOn \/ Suspend
    BY <2>2 DEF AutoSuspend, ExecuteOn, Suspend, Schedule
  <2>3. CASE ExecuteOnK /\ ~ShouldFinalize
    BY <2>3 DEF ExecuteOnK, Schedule
  <2>4. CASE IOCont \/ IOContGet \/ Uncancelable
    BY <1>0, <2>4 DEF IOCont, IOContGet, Uncancelable
  <2>5. CASE Finalize \/ Pure \/ Fail \/ Defer \/ ContFinalizer \/ Canceled
    BY <1>0, <2>5 DEF Finalize, Pure, Fail, Defer, ContFinalizer, Canceled
  <2>6. CASE Map \/ FlatMap \/ HandleErrorWith \/ Attempt \/ OnCancel \/ UnmaskRunLoop
    BY <1>0, <2>6 DEF Map, FlatMap, HandleErrorWith, Attempt, PushTransformer, OnCancel, UnmaskRunLoop
  <2>7. CASE \/ ContinueMap \/ ContinueFlatMap \/ ContinueHandleErrorWith \/ ContinueAttempt
             \/ ContinueOnCancel \/ ContinueUncancelable \/ ContinueUnmask
             \/ CancelationLoopK \/ TerminateK
    BY <1>0, <2>7 DEF ContinueMap, ContinueFlatMap, ContinueHandleErrorWith, ContinueAttempt,
                ContinueOnCancel, ContinueUncancelable, ContinueUnmask, Continue, PopCont,
                CancelationLoopK, TerminateK
  <2>8. CASE ExecuteOnK /\ ShouldFinalize
    BY <1>0, <2>8 DEF ExecuteOnK
  <2> QED BY <2>2, <2>3, <2>4, <2>5, <2>6, <2>7, <2>8 DEF LoopStep
<1>5. finalizing' => canceled'
  BY <1>2, <1>3 DEF Requested
<1>6. ~(resumeTag' = "AsyncContinueCanceled" /\ scheduled' > 0)
  BY <1>4
<1> QED BY <1>1, <1>5, <1>6 DEF Requested, IsOwner

(* A run() finalizes only at a request.                                    *)
LEMMA RunRequested ==
    ASSUME TypeOK, RunLoopOwnership, FramesInv, Requested, Run
    PROVE  Requested'
<1>0. scheduled = 1 /\ scheduled' = 0 /\ turn = NoTurn /\ \A k \in Cancelers : pc[k] # "owner"
  <2>1. scheduled > 0 /\ scheduled' = scheduled - 1 /\ turn = NoTurn
    BY DEF Run
  <2> QED BY <2>1 DEF RunLoopOwnership, AtMostOneOwner, TypeOK, IsOwner
<1> USE DEF maskVars, doneVars, frameVars
<1>1. /\ canceled' = canceled
      /\ finalizing' = finalizing \/ canceled
      /\ \A k \in Cancelers : pc'[k] # "owner"
  <2>1. CASE ExecR
    BY <1>0, <2>1 DEF ExecR, Complete, TypeOK
  <2>2. CASE SuspendR \/ AsyncContinueR
    BY <1>0, <2>2 DEF SuspendR, AsyncContinueR
  <2>3. CASE resumeTag = "AsyncContinueCanceled" /\ AsyncContinueCanceledR
    <3>1. canceled /\ canceled' = canceled
      BY <1>0, <2>3 DEF Requested, ShouldFinalize, AsyncContinueCanceledR
    <3>2. CASE finalizers = <<>>
      BY <1>0, <2>3, <3>1, <3>2 DEF AsyncContinueCanceledR, PrepareForCancelation, Complete, TypeOK
    <3>3. CASE finalizers # <<>>
      BY <1>0, <2>3, <3>1, <3>3 DEF AsyncContinueCanceledR, PrepareForCancelation
    <3> QED BY <3>2, <3>3
  <2> QED BY <2>1, <2>2, <2>3 DEF Run
<1> QED BY <1>0, <1>1 DEF Requested, IsOwner

(* A canceler requests the cancelation before it owns the run loop.        *)
LEMMA CancelerRequested ==
    ASSUME TypeOK, RunLoopOwnership, FramesInv, Requested, NEW k \in Cancelers,
           Cancel(k) \/ CancelCompleted(k) \/ RunFinalizers(k)
    PROVE  Requested'
<1>1. CASE Cancel(k)
  <2>1. canceled' /\ UNCHANGED <<finalizing, masks>>
    BY <1>1 DEF Cancel
  <2>2. CASE suspended /\ IsUnmasked
    BY <2>1, <2>2 DEF Requested, ShouldFinalize, IsUnmasked
  <2>3. CASE ~(suspended /\ IsUnmasked)
    <3>1. \A l \in Cancelers : pc'[l] = "owner" => pc[l] = "owner"
      BY <1>1, <2>3 DEF Cancel, TypeOK
    <3>2. UNCHANGED <<resumeTag, scheduled>>
      BY <1>1 DEF Cancel
    <3> QED BY <2>1, <3>1, <3>2 DEF Requested, ShouldFinalize, IsUnmasked, IsOwner
  <2> QED BY <2>2, <2>3
<1>2. CASE CancelCompleted(k)
  <2>1. \A l \in Cancelers : pc'[l] = "owner" => pc[l] = "owner"
    BY <1>2 DEF CancelCompleted, TypeOK
  <2> QED BY <1>2, <2>1 DEF CancelCompleted, maskVars, loopVars, Requested, ShouldFinalize, IsUnmasked, IsOwner
<1>3. CASE RunFinalizers(k)
  <2>1. /\ pc[k] = "owner" /\ scheduled' = 0 /\ canceled /\ canceled' = canceled
        /\ \A l \in Cancelers : pc[l] = "owner" => l = k
    BY <1>3 DEF RunFinalizers, Requested, ShouldFinalize, IsOwner, RunLoopOwnership, AtMostOneOwner
  <2>2. \A l \in Cancelers : pc'[l] # "owner"
    <3>0. k # NoCb
      BY NamesAssumption
    <3>1. CASE finalizers = <<>>
      BY <1>3, <2>1, <3>1 DEF RunFinalizers, PrepareForCancelation, Complete, TypeOK
    <3>2. CASE finalizers # <<>>
      BY <1>3, <2>1, <3>0, <3>2 DEF RunFinalizers, PrepareForCancelation, TypeOK
    <3> QED BY <3>1, <3>2
  <2> QED BY <2>1, <2>2 DEF Requested, IsOwner
<1> QED BY <1>1, <1>2, <1>3

(* Joining and abandoning request nothing.                                 *)
LEMMA OthersRequested ==
    ASSUME TypeOK, RunLoopOwnership, Requested,
           \/ UNCHANGED vars
           \/ \E p \in Cancelers \cup Joiners : Join(p)
           \/ \E j \in Joiners : AbandonJoin(j)
    PROVE  Requested'
<1>1. UNCHANGED <<canceled, finalizing, masks, resumeTag, scheduled>>
  BY DEF vars, Join, AbandonJoin, maskVars, loopVars
<1>2. \A k \in Cancelers : pc'[k] = "owner" => pc[k] = "owner"
  BY DEF vars, doneVars, Join, AbandonJoin, TypeOK
<1> QED BY <1>1, <1>2 DEF Requested, ShouldFinalize, IsUnmasked, IsOwner

(* A callback leaves the request it found.                                 *)
LEMMA CallbackRequested ==
    ASSUME TypeOK, RunLoopOwnership, Requested, NEW c \in Conts, NEW r \in Results, Callback(c, r)
    PROVE  Requested'
<1>1. UNCHANGED <<canceled, finalizing, masks, pc>>
  BY DEF Callback, maskVars, doneVars
<1>2. resumeTag' = "AsyncContinueCanceled" /\ scheduled' > 0 => ShouldFinalize
  <2>1. CASE UNCHANGED <<resumeTag, scheduled>>
    BY <2>1 DEF Requested
  <2>2. CASE ResumeWith(c, r)
    BY <2>1, <2>2 DEF ResumeWith
  <2> QED BY <2>1, <2>2 DEF Callback, WaitOrDrop
<1> QED BY <1>1, <1>2 DEF Requested, ShouldFinalize, IsUnmasked, IsOwner

(* The frames of the run loop stay right, whatever the program and whoever *)
(* cancels, joins or calls back.                                           *)
FramesInductive == TypeOK /\ RunLoopOwnership /\ FramesInv /\ Requested

(* Every step of the system is a step of the frames.                       *)
LEMMA NextFrames ==
    ASSUME FramesInductive, [Next]_vars
    PROVE  FrameStep /\ Requested'
<1> USE DEF FramesInductive
<1>1. CASE Run
  BY <1>1, RunFrames, RunRequested
<1>2. CASE LoopStep
  BY <1>2, LoopFrames, LoopRequested
<1>3. CASE UNCHANGED vars
  <2>1. FrameStep
    BY <1>3 DEF vars, loopVars, frameVars, maskVars, doneVars, Resuming, Starting, KeepsFrames, FrameStep
  <2> QED BY <1>3, <2>1, OthersRequested
<1>4. ASSUME NEW k \in Cancelers, Cancel(k) \/ CancelCompleted(k) \/ RunFinalizers(k)
      PROVE  FrameStep /\ Requested'
  BY <1>4, CancelerFrames, CancelerRequested
<1>5. ASSUME NEW p \in Cancelers \cup Joiners, Join(p) PROVE FrameStep /\ Requested'
  <2>1. FrameStep
    BY <1>5 DEF Join, loopVars, frameVars, maskVars, Resuming, Starting, KeepsFrames, FrameStep
  <2> QED BY <1>5, <2>1, OthersRequested
<1>6. ASSUME NEW j \in Joiners, AbandonJoin(j) PROVE FrameStep /\ Requested'
  <2>1. FrameStep
    BY <1>6 DEF AbandonJoin, loopVars, frameVars, maskVars, Resuming, Starting, KeepsFrames, FrameStep
  <2> QED BY <1>6, <2>1, OthersRequested
<1>7. ASSUME NEW c \in Conts, NEW r \in Results, Callback(c, r) PROVE FrameStep /\ Requested'
  BY <1>7, CallbackFrames, CallbackRequested
<1> QED BY <1>1, <1>2, <1>3, <1>4, <1>5, <1>6, <1>7 DEF Next

(* The invariant of the frames holds of a fiber just made,                 *)
LEMMA InitFrames == Init => FramesInv /\ Requested
<1> SUFFICES ASSUME Init PROVE FramesInv /\ Requested
  OBVIOUS
<1>1. /\ conts = <<>> /\ stack = <<>> /\ finalizers = <<>> /\ masks = 0 /\ ~finalizing
      /\ Starting /\ ~Resuming /\ resumeTag = "Exec"
      /\ \A k \in Cancelers : pc[k] = "idle"
  BY DEF Init, Starting, Resuming
<1>2. CountOf("UncancelableK") = 0 /\ CountOf("UnmaskK") = 0 /\ CountOf("OnCancelK") = 0
      /\ SlotsTo(0) = 0
  <2>1. \A x : {i \in DOMAIN conts : conts[i] = x} = {}
    BY <1>1
  <2>2. {i \in 1..0 : conts[i] \in HasSlot} = {}
    OBVIOUS
  <2> QED BY <2>1, <2>2, FS_EmptySet DEF CountOf, SlotsTo
<1>3. Unstarted /\ Bottom /\ NotEmpty /\ MasksBalanced /\ FinalizersBalanced
  BY <1>1, <1>2 DEF Unstarted, Bottom, NotEmpty, MasksBalanced, FinalizersBalanced
<1>4. StackMatchesConts
  BY <1>1, <1>2 DEF StackMatchesConts, SlotsAbove
<1>5. Requested
  BY <1>1 DEF Requested, IsOwner
<1> QED BY <1>3, <1>4, <1>5 DEF FramesInv

(* and always.                                                             *)
LEMMA FramesHold == Spec => []FramesInductive
<1>1. Init => FramesInv /\ Requested
  BY InitFrames
<1>2. TypeOK /\ TypeOK' /\ RunLoopOwnership /\ FramesInv /\ Requested /\ [Next]_vars
        => FramesInv' /\ Requested'
  BY NextFrames, FrameStepKeepsFrames DEF FramesInductive
<1>3. FramesInductive <=> TypeOK /\ RunLoopOwnership /\ FramesInv /\ Requested
  BY DEF FramesInductive
<1> QED BY <1>1, <1>2, <1>3, TypeCorrect, OneOwner, PTL DEF Spec

(* A fiber ends once, Canceled exactly if a cancelation was requested      *)
(* before, and with no finalizer left unless its program never started     *)
(* (complete, asyncContinueCanceledR, terminateSuccessK and their          *)
(* siblings).                                                              *)
THEOREM FiberEndsOnce == Spec => EndsOnce
<1> DEFINE EndsWell ==
        outcome' # outcome =>
          /\ outcome = NotCompleted
          /\ outcome' = "Canceled" <=> canceled'
          /\ finalizers = <<>> \/ resumeTag = "Exec"
<1>1. FrameStep => EndsWell
  <2>1. CASE EndsFrames
    BY <2>1 DEF EndsFrames, Complete
  <2>2. ASSUME FrameStep, ~EndsFrames PROVE outcome' = outcome
    BY <2>2 DEF FrameStep, KeepsFrames, PushesFrame, PopsFrame, LeavesValue, TakesValue,
                StartsProgram, StartsFinalizing
  <2> QED BY <2>1, <2>2
<1>2. FramesInductive /\ [Next]_vars => [EndsWell]_vars
  BY <1>1, NextFrames
<1> QED BY <1>2, FramesHold, PTL DEF Spec, EndsOnce

(* The mask count is the number of uncancelable regions around the         *)
(* program counter less the polls that lift one, plus one while the fiber  *)
(* finalizes: no success, failure or cancelation leaves a region without   *)
(* restoring it (uncancelableSuccessK, unmaskFailureK, ...).               *)
THEOREM MasksAreBalanced == Spec => []MasksBalanced
<1>1. FramesInductive => MasksBalanced
  BY DEF FramesInductive, FramesInv
<1> QED BY <1>1, FramesHold, PTL

(* Until the fiber finalizes, exactly the finalizers of the onCancel       *)
(* nodes the program is inside are registered (onCancelSuccessK and        *)
(* onCancelFailureK pop theirs).                                           *)
THEOREM FinalizersAreBalanced == Spec => []FinalizersBalanced
<1>1. FramesInductive => FinalizersBalanced
  BY DEF FramesInductive, FramesInv
<1> QED BY <1>1, FramesHold, PTL

(* Every continuation finds on the untyped stack the function or the       *)
(* execution context its node pushed, whatever was suspended, resumed,     *)
(* failed or canceled in between.                                          *)
THEOREM SlotsMatch == Spec => []StackMatchesConts
<1>1. FramesInductive => StackMatchesConts
  BY DEF FramesInductive, FramesInv
<1> QED BY <1>1, FramesHold, PTL

(* While the fiber finalizes, every prefix of its continuations enters as  *)
(* many masked regions as polls lift.                                      *)
Covers(c) ==
    \A n \in 0..Len(c) : Count(c, n, {"UnmaskK"}) <= Count(c, n, {"UncancelableK"})

MasksCover == finalizing => Covers(conts)

(* Entering a region, or a poll inside one, keeps the prefixes covered,    *)
LEMMA CoversOneMore ==
    ASSUME NEW c \in Seq(Continuations), NEW d, NEW tag, Extends(d, c, tag), Covers(c),
           tag = "UnmaskK" =>
             Count(c, Len(c), {"UnmaskK"}) < Count(c, Len(c), {"UncancelableK"})
    PROVE  Covers(d)
<1>1. Len(c) \in Nat /\ Len(d) = Len(c) + 1 /\ d[Len(d)] = tag
      /\ \A i \in 1..Len(c) : d[i] = c[i]
  BY DEF Extends
<1>2. /\ Count(c, Len(c), {"UnmaskK"}) \in Nat
      /\ Count(c, Len(c), {"UncancelableK"}) \in Nat
  <2>1. /\ Count(c, Len(c), {"UnmaskK"}) \in 0..Len(c)
        /\ Count(c, Len(c), {"UncancelableK"}) \in 0..Len(c)
    BY ONLY <1>1, CountFacts
  <2> QED BY <1>1, <2>1
<1>3. /\ \A n \in 0..Len(c) : Count(d, n, {"UnmaskK"}) = Count(c, n, {"UnmaskK"})
      /\ tag = "UnmaskK" => Count(d, Len(d), {"UnmaskK"}) = Count(c, Len(c), {"UnmaskK"}) + 1
      /\ tag # "UnmaskK" => Count(d, Len(d), {"UnmaskK"}) = Count(c, Len(c), {"UnmaskK"})
  BY ONLY <1>1, CountOneMore
<1>4. /\ \A n \in 0..Len(c) : Count(d, n, {"UncancelableK"}) = Count(c, n, {"UncancelableK"})
      /\ tag = "UncancelableK" =>
           Count(d, Len(d), {"UncancelableK"}) = Count(c, Len(c), {"UncancelableK"}) + 1
      /\ tag # "UncancelableK" =>
           Count(d, Len(d), {"UncancelableK"}) = Count(c, Len(c), {"UncancelableK"})
  BY ONLY <1>1, CountOneMore
<1>5. ASSUME NEW n \in 0..Len(d)
      PROVE  Count(d, n, {"UnmaskK"}) <= Count(d, n, {"UncancelableK"})
  <2>1. CASE n \in 0..Len(c)
    BY <1>3, <1>4, <2>1 DEF Covers
  <2>2. CASE n = Len(d)
    <3>1. Count(c, Len(c), {"UnmaskK"}) <= Count(c, Len(c), {"UncancelableK"})
      BY <1>1 DEF Covers
    <3> QED BY <1>2, <1>3, <1>4, <2>2, <3>1
  <2> QED BY <1>1, <2>1, <2>2
<1> QED BY <1>5 DEF Covers

(* and so does leaving one.                                                *)
LEMMA CoversOneLess ==
    ASSUME NEW c \in Seq(Continuations), NEW d \in Seq(Continuations),
           Len(c) = Len(d) + 1, \A i \in 1..Len(d) : c[i] = d[i], Covers(c)
    PROVE  Covers(d)
<1>1. Len(d) \in Nat
  OBVIOUS
<1>2. ASSUME NEW n \in 0..Len(d)
      PROVE  Count(d, n, {"UnmaskK"}) <= Count(d, n, {"UncancelableK"})
  <2>1. /\ Count(c, n, {"UnmaskK"}) = Count(d, n, {"UnmaskK"})
        /\ Count(c, n, {"UncancelableK"}) = Count(d, n, {"UncancelableK"})
    <3>1. n \in Nat /\ \A i \in 1..n : c[i] = d[i]
      BY <1>1
    <3> QED BY ONLY <3>1, CountSame
  <2>2. n \in 0..Len(c)
    BY <1>1
  <2> QED BY <2>1, <2>2 DEF Covers
<1> QED BY <1>2 DEF Covers

(* A single continuation that is no poll is covered.                       *)
LEMMA CoversSingle ==
    ASSUME NEW c \in Seq(Continuations), Len(c) <= 1, \A i \in 1..Len(c) : c[i] # "UnmaskK"
    PROVE  Covers(c)
<1>1. Len(c) \in Nat
  OBVIOUS
<1>2. ASSUME NEW n \in 0..Len(c)
      PROVE  Count(c, n, {"UnmaskK"}) <= Count(c, n, {"UncancelableK"})
  <2>1. {i \in 1..n : c[i] \in {"UnmaskK"}} = {}
    BY <1>1
  <2>2. Count(c, n, {"UnmaskK"}) = 0
    BY <2>1, FS_EmptySet DEF Count
  <2>3. n \in Nat
    BY <1>1
  <2>4. Count(c, n, {"UncancelableK"}) \in 0..n
    BY ONLY <2>3, CountFacts
  <2> QED BY <2>2, <2>3, <2>4
<1> QED BY <1>2 DEF Covers

(* A finalizer that does not use the poll of a region around it lifts      *)
(* only the masks of its own regions.                                      *)
LEMMA NextCovers ==
    ASSUME ~PollInFinalizers, FramesInductive, TypeOK', MasksCover, FrameStep
    PROVE  MasksCover'
<1> USE DEF FramesInductive
<1>0. conts \in Seq(Continuations) /\ conts' \in Seq(Continuations)
  BY DEF TypeOK
<1>1. CASE KeepsFrames \/ LeavesValue \/ TakesValue
  BY <1>1 DEF KeepsFrames, LeavesValue, TakesValue, MasksCover
<1>2. ASSUME NEW tag \in Continuations, PushesFrame(tag), finalizing'
      PROVE  Covers(conts')
  <2>1. finalizing /\ Covers(conts)
    BY <1>2 DEF PushesFrame, MasksCover
  <2>2. Extends(conts', conts, tag)
    BY <1>0, <1>2 DEF PushesFrame, Extends
  <2>3. ASSUME tag = "UnmaskK"
        PROVE  Count(conts, Len(conts), {"UnmaskK"}) < Count(conts, Len(conts), {"UncancelableK"})
    <3>1. masks > 1 /\ outcome = NotCompleted
      BY <1>2, <2>1, <2>3 DEF PushesFrame
    <3>2. masks = CountOf("UncancelableK") - CountOf("UnmaskK") + 1
      BY <2>1, <3>1 DEF FramesInv, MasksBalanced
    <3>3. /\ CountOf("UncancelableK") = Count(conts, Len(conts), {"UncancelableK"})
          /\ CountOf("UnmaskK") = Count(conts, Len(conts), {"UnmaskK"})
      BY CountsAreCount
    <3>4. CountOf("UncancelableK") \in Nat /\ CountOf("UnmaskK") \in Nat
      BY <1>2, PushCounts
    <3> QED BY <3>1, <3>2, <3>3, <3>4
  <2> QED BY <1>0, <2>1, <2>2, <2>3, CoversOneMore
<1>3. ASSUME NEW tag \in Continuations, PopsFrame(tag), finalizing'
      PROVE  Covers(conts')
  <2>1. Covers(conts) /\ conts # <<>> /\ conts' = Front(conts)
    BY <1>3 DEF PopsFrame, MasksCover
  <2>2. Len(conts) = Len(conts') + 1 /\ \A i \in 1..Len(conts') : conts[i] = conts'[i]
    BY ONLY <1>0, <2>1, PopFacts
  <2> QED BY <1>0, <2>1, <2>2, CoversOneLess
<1>4. CASE StartsProgram \/ StartsFinalizing \/ EndsFrames
  <2>1. conts' = <<"TerminateK">> \/ conts' = <<"CancelationLoopK">> \/ conts' = <<>>
    BY <1>4 DEF StartsProgram, StartsFinalizing, EndsFrames, Complete
  <2>2. Len(conts') <= 1 /\ \A i \in 1..Len(conts') : conts'[i] # "UnmaskK"
    <3>1. CASE conts' = <<"TerminateK">>
      <4>1. Len(conts') = 1 /\ conts'[1] = "TerminateK"
        BY <3>1
      <4> QED BY <4>1
    <3>2. CASE conts' = <<"CancelationLoopK">>
      <4>1. Len(conts') = 1 /\ conts'[1] = "CancelationLoopK"
        BY <3>2
      <4> QED BY <4>1
    <3>3. CASE conts' = <<>>
      <4>1. Len(conts') = 0
        BY <3>3
      <4> QED BY <4>1
    <3> QED BY <2>1, <3>1, <3>2, <3>3
  <2> QED BY <1>0, <2>2, CoversSingle DEF MasksCover
<1> QED BY <1>1, <1>2, <1>3, <1>4 DEF FrameStep, MasksCover

(* The mask that finalization itself sets is then never lifted.            *)
LEMMA CoverMasks ==
    ASSUME FramesInductive, MasksCover
    PROVE  FinalizersMasked
<1> SUFFICES ASSUME finalizing, outcome = NotCompleted PROVE masks > 0
  BY DEF FinalizersMasked
<1>1. masks = CountOf("UncancelableK") - CountOf("UnmaskK") + 1
  BY DEF FramesInductive, FramesInv, MasksBalanced
<1>2. /\ CountOf("UncancelableK") = Count(conts, Len(conts), {"UncancelableK"})
      /\ CountOf("UnmaskK") = Count(conts, Len(conts), {"UnmaskK"})
      /\ CountOf("UncancelableK") \in 0..Len(conts) /\ CountOf("UnmaskK") \in 0..Len(conts)
      /\ Len(conts) \in Nat
  BY CountsAreCount DEF FramesInductive
<1>3. Count(conts, Len(conts), {"UnmaskK"}) <= Count(conts, Len(conts), {"UncancelableK"})
  BY <1>2 DEF MasksCover, Covers
<1> QED BY <1>1, <1>2, <1>3

(* The continuations of a finalizing fiber stay covered.                   *)
LEMMA CoverHolds ==
    ASSUME ~PollInFinalizers
    PROVE  Spec => []MasksCover
<1>1. Init => MasksCover
  BY DEF Init, MasksCover
<1>2. FramesInductive /\ TypeOK' /\ MasksCover /\ [Next]_vars => MasksCover'
  BY NextFrames, NextCovers
<1> QED BY <1>1, <1>2, FramesHold, TypeCorrect, PTL DEF Spec

(* If no finalizer uses the poll of a region around it, finalizers run     *)
(* masked to the end: prepareForCancelation is right that no further       *)
(* cancelation can start (run poll_in_finalizer shows what such a poll     *)
(* does).                                                                  *)
THEOREM FinalizersAreMasked ==
    ASSUME ~PollInFinalizers
    PROVE  Spec => []FinalizersMasked
<1>1. FramesInductive /\ MasksCover => FinalizersMasked
  BY CoverMasks
<1> QED BY <1>1, CoverHolds, FramesHold, PTL

-----------------------------------------------------------------------------
(* Those who wait for the fiber: the listeners, each registered once, and  *)
(* the canceler at the bottom of the stack, that runs the finalizers.      *)
Callers == Cancelers \cup Joiners

Distinct(s) == \A i, j \in 1..Len(s) : s[i] = s[j] => i = j

Listening ==
    /\ Distinct(callbacks)
    /\ \A p \in Callers : pc[p] = "joined" <=> \E i \in 1..Len(callbacks) : callbacks[i] = p

Above ==
    \/ SlotsAbove(0) /\ \A k \in Cancelers : pc[k] # "awaiting"
    \/ /\ finalizing /\ SlotsAbove(1) /\ stack[1] \in Cancelers
       /\ pc[stack[1]] \in {"awaiting", "failed"}
       /\ \A k \in Cancelers : pc[k] = "awaiting" => k = stack[1]

JoinersOnlyJoin == \A j \in Joiners : pc[j] \in JoinerPCs

Answers == Above /\ Listening /\ JoinersOnlyJoin /\ AnsweredWithOutcome

(* What a step that neither ends the fiber nor starts its finalization may *)
(* do to those who wait.                                                   *)
Moves(p, from, to) == pc[p] \in from /\ pc' = [pc EXCEPT ![p] = to]

SameCallers == UNCHANGED <<pc, callbacks>>

AsksNothing ==
    SameCallers /\ (canceled' = canceled \/ (canceled' = TRUE /\ outcome = NotCompleted))

Fails ==
    /\ \E k \in Cancelers : Moves(k, {"awaiting"}, "failed")
    /\ died' /\ callbacks' = callbacks

Asks ==
    /\ \E k \in Cancelers, q \in {"owner", "joining"} : Moves(k, {"idle"}, q)
    /\ callbacks' = callbacks /\ canceled' = TRUE

IsAnswered ==
    /\ outcome # NotCompleted /\ canceled' = canceled
    /\ \E p \in Callers : Moves(p, {"idle", "joining"}, "done")
    /\ callbacks' = callbacks

Registers ==
    /\ outcome = NotCompleted /\ canceled' = canceled
    /\ \E p \in Callers : /\ Moves(p, {"idle", "joining"}, "joined")
                          /\ pc[p] = "idle" => p \in Joiners
                          /\ callbacks' = Append(callbacks, p)

Abandons ==
    /\ canceled' = canceled
    /\ \E j \in Joiners : /\ Moves(j, {"joined"}, "abandoned")
                          /\ \E i \in 1..Len(callbacks) : /\ callbacks[i] = j
                                                          /\ callbacks' = RemoveAt(callbacks, i)

CallerStep == AsksNothing \/ Fails \/ Asks \/ IsAnswered \/ Registers \/ Abandons

(* A fiber that finalizes is masked: it does not prepare again.            *)
LEMMA NoPreparation ==
    ASSUME TypeOK, FinalizersMasked, NEW cb, NEW ks, NEW st, PrepareForCancelation(cb, ks, st),
           ShouldFinalize, outcome = NotCompleted
    PROVE  outcome' # outcome \/ finalizing' # finalizing
<1>1. ~finalizing
  BY DEF FinalizersMasked, ShouldFinalize, IsUnmasked
<1>2. CASE finalizers = <<>>
  BY <1>2 DEF PrepareForCancelation, Complete, NotCompleted
<1>3. CASE finalizers # <<>>
  <2>1. finalizing' = TRUE
    BY <1>3 DEF PrepareForCancelation
  <2> QED BY <1>1, <2>1 
<1> QED BY <1>2, <1>3

(* An exception that leaves the loop fails the canceler whose turn it is,  *)
(* if it awaits the end.                                                   *)
LEMMA DieFails ==
    ASSUME TypeOK, Die, callbacks' = callbacks
    PROVE  SameCallers \/ Fails
<1>1. CASE turn \in Cancelers /\ pc[turn] = "awaiting"
  BY <1>1 DEF Die, Fails, Moves
<1>2. CASE ~(turn \in Cancelers /\ pc[turn] = "awaiting")
  BY <1>2 DEF Die, SameCallers
<1> QED BY <1>1, <1>2

(* Inside one stage the run loop answers nobody.                           *)
LEMMA LoopCallers ==
    ASSUME FramesInductive, FinalizersMasked, LoopStep,
           outcome' = outcome, finalizing' = finalizing
    PROVE  SameCallers \/ Fails
<1> USE DEF FramesInductive
<1>0. outcome = NotCompleted
  BY LoopEffect, InTurn
<1>00. ASSUME ShouldFinalize, NEW ks, NEW st PROVE ~PrepareForCancelation(NoCb, ks, st)
  BY <1>0, <1>00, NoPreparation
<1>000. ASSUME NEW oc, NEW cb, oc # NotCompleted PROVE ~Complete(oc, cb)
  BY <1>0, <1>000 DEF Complete
<1> USE DEF doneVars
<1>1. CASE AutoSuspend \/ Pure \/ Fail \/ Defer \/ ContFinalizer \/ ExecuteOn \/ Suspend
  BY <1>1 DEF AutoSuspend, Pure, Fail, Defer, ContFinalizer, ExecuteOn, Suspend, SameCallers
<1>2. CASE Map \/ FlatMap \/ HandleErrorWith \/ Attempt \/ OnCancel \/ UnmaskRunLoop
  BY <1>2 DEF Map, FlatMap, HandleErrorWith, Attempt, PushTransformer, OnCancel, UnmaskRunLoop, SameCallers
<1>3. CASE Finalize
  BY <1>00, <1>3 DEF Finalize
<1>4. CASE Canceled
  <2>1. CASE IsUnmasked
    <3>1. PrepareForCancelation(NoCb, conts, stack) /\ masks = 0
      BY <1>4, <2>1 DEF Canceled, IsUnmasked
    <3>2. ~finalizing
      BY <1>0, <3>1 DEF FinalizersMasked
    <3>3. CASE finalizers = <<>>
      BY <1>000, <3>1, <3>3 DEF PrepareForCancelation, NotCompleted
    <3>4. CASE finalizers # <<>>
      BY <3>1, <3>2, <3>4 DEF PrepareForCancelation
    <3> QED BY <3>3, <3>4
  <2>2. CASE ~IsUnmasked
    BY <1>4, <2>2 DEF Canceled, SameCallers
  <2> QED BY <2>1, <2>2
<1>5. CASE IOCont
  <2>1. callbacks' = callbacks /\ (pc' = pc \/ Die)
    BY <1>5 DEF IOCont
  <2> QED BY <2>1, DieFails DEF SameCallers
<1>6. CASE Uncancelable
  <2>1. callbacks' = callbacks /\ (pc' = pc \/ Die)
    BY <1>6 DEF Uncancelable
  <2> QED BY <2>1, DieFails DEF SameCallers
<1>7. CASE IOContGet
  <2>1. callbacks' = callbacks
    BY <1>7 DEF IOContGet
  <2>2. PICK c \in Conts : Get(c)
    BY <1>7 DEF IOContGet
  <2>3. pc' = pc \/ Die
    BY <2>2 DEF Get
  <2> QED BY <2>1, <2>3, DieFails DEF SameCallers
<1>8. CASE ContinueMap \/ ContinueFlatMap \/ ContinueHandleErrorWith \/ ContinueAttempt
           \/ ContinueOnCancel \/ ContinueUncancelable \/ ContinueUnmask
  BY <1>8 DEF ContinueMap, ContinueFlatMap, ContinueHandleErrorWith, ContinueAttempt,
              ContinueOnCancel, ContinueUncancelable, ContinueUnmask, Continue, SameCallers
<1>9. CASE ExecuteOnK
  <2>1. CASE ShouldFinalize
    BY <1>00, <1>9, <2>1 DEF ExecuteOnK
  <2>2. CASE ~ShouldFinalize
    BY <1>9, <2>2 DEF ExecuteOnK, SameCallers
  <2> QED BY <2>1, <2>2
<1>10. CASE CancelationLoopK
  <2>1. finalizers # <<>>
    BY <1>000, <1>10 DEF CancelationLoopK, NotCompleted
  <2> QED BY <1>10, <2>1 DEF CancelationLoopK, SameCallers
<1>11. CASE TerminateK
  BY <1>000, <1>11 DEF TerminateK, NotCompleted
<1> QED BY <1>1, <1>2, <1>3, <1>4, <1>5, <1>6, <1>7, <1>8, <1>9, <1>10, <1>11 DEF LoopStep

(* Inside one stage the steps of the system are those of the callers.      *)
LEMMA NextCallers ==
    ASSUME FramesInductive, FinalizersMasked, JoinersOnlyJoin, [Next]_vars,
           outcome' = outcome, finalizing' = finalizing
    PROVE  CallerStep
<1> USE DEF FramesInductive, CallerStep
<1>1. CASE LoopStep
  <2>1. SameCallers \/ Fails
    BY <1>1, LoopCallers
  <2>2. canceled' = canceled \/ (canceled' = TRUE /\ outcome = NotCompleted)
    <3>1. outcome = NotCompleted
      BY <1>1, LoopEffect, InTurn
    <3> QED BY <1>1, <3>1, LoopCancels
  <2> QED BY <2>1, <2>2 DEF AsksNothing
<1>2. CASE Run
  <2>1. outcome = NotCompleted /\ scheduled > 0
    BY <1>2 DEF Run, RunLoopOwnership, Owned
  <2>2. CASE ExecR
    <3>1. ~Complete("Canceled", NoCb)
      BY <2>1 DEF Complete, NotCompleted
    <3> QED BY <2>2, <3>1 DEF ExecR, doneVars, maskVars, AsksNothing, SameCallers
  <2>3. CASE SuspendR \/ AsyncContinueR
    BY <2>3 DEF SuspendR, AsyncContinueR, doneVars, maskVars, AsksNothing, SameCallers
  <2>4. CASE resumeTag = "AsyncContinueCanceled" /\ AsyncContinueCanceledR
    <3>1. ShouldFinalize
      BY <2>1, <2>4 DEF Requested
    <3> QED BY <2>1, <2>4, <3>1, NoPreparation DEF AsyncContinueCanceledR
  <2> QED BY <1>2, <2>2, <2>3, <2>4 DEF Run
<1>3. CASE UNCHANGED vars
  BY <1>3 DEF vars, doneVars, maskVars, AsksNothing, SameCallers
<1>4. ASSUME NEW k \in Cancelers, Cancel(k) PROVE CallerStep
  <2>1. callbacks' = callbacks /\ canceled' = TRUE /\ \E q \in {"owner", "joining"} : Moves(k, {"idle"}, q)
    BY <1>4 DEF Cancel, Moves
  <2> QED BY <2>1 DEF Asks
<1>5. ASSUME NEW k \in Cancelers, CancelCompleted(k) PROVE CallerStep
  <2>1. callbacks' = callbacks /\ outcome # NotCompleted /\ Moves(k, {"idle", "joining"}, "done")
        /\ k \in Callers /\ canceled' = canceled
    BY <1>5 DEF CancelCompleted, Moves, Callers, maskVars
  <2> QED BY <2>1 DEF IsAnswered
<1>6. ASSUME NEW k \in Cancelers, RunFinalizers(k) PROVE CallerStep
  <2>1. IsOwner(k) /\ PrepareForCancelation(k, conts, stack)
    BY <1>6 DEF RunFinalizers, IsOwner
  <2>2. ShouldFinalize /\ outcome = NotCompleted
    BY <2>1 DEF Requested, RunLoopOwnership, Owned
  <2> QED BY <2>1, <2>2, NoPreparation
<1>7. ASSUME NEW p \in Cancelers \cup Joiners, Join(p) PROVE CallerStep
  <2>0. p \in Callers /\ canceled' = canceled /\ (pc[p] = "idle" => p \in Joiners)
    BY <1>7 DEF Callers, Join, maskVars
  <2>1. CASE outcome = NotCompleted
    <3>1. Moves(p, {"idle", "joining"}, "joined") /\ callbacks' = Append(callbacks, p)
      BY <1>7, <2>1 DEF Join, Moves
    <3> QED BY <2>0, <2>1, <3>1 DEF Registers
  <2>2. CASE outcome # NotCompleted
    <3>1. Moves(p, {"idle", "joining"}, "done") /\ callbacks' = callbacks
      BY <1>7, <2>2 DEF Join, Moves
    <3> QED BY <2>0, <2>2, <3>1 DEF IsAnswered
  <2> QED BY <2>1, <2>2
<1>8. ASSUME NEW j \in Joiners, AbandonJoin(j) PROVE CallerStep
  <2>1. DOMAIN callbacks = 1..Len(callbacks)
    BY DEF TypeOK
  <2>2. Moves(j, {"joined"}, "abandoned") /\ canceled' = canceled
    BY <1>8 DEF AbandonJoin, Moves, maskVars
  <2>3. \E i \in 1..Len(callbacks) : callbacks[i] = j /\ callbacks' = RemoveAt(callbacks, i)
    BY <1>8, <2>1 DEF AbandonJoin
  <2> QED BY <2>2, <2>3 DEF Abandons
<1>9. ASSUME NEW c \in Conts, NEW r \in Results, Callback(c, r) PROVE CallerStep
  BY <1>9 DEF Callback, doneVars, maskVars, AsksNothing, SameCallers
<1> QED BY <1>1, <1>2, <1>3, <1>4, <1>5, <1>6, <1>7, <1>8, <1>9 DEF Next

(* t is s without its element at i.                                        *)
Without(t, s, i) ==
    Len(t) = Len(s) - 1 /\ \A n \in 1..Len(t) : t[n] = IF n < i THEN s[n] ELSE s[n+1]

(* What RemoveAt leaves in place.                                          *)
LEMMA RemoveAtIsWithout ==
    ASSUME NEW S, NEW s \in Seq(S), NEW i \in 1..Len(s), NEW t, t = RemoveAt(s, i)
    PROVE  Without(t, s, i)
<1>1. Len(s) \in Nat /\ i \in Nat
  OBVIOUS
<1>2. /\ SubSeq(s, 1, i-1) \in Seq(S) /\ Len(SubSeq(s, 1, i-1)) = i - 1
      /\ \A n \in 1..(i-1) : SubSeq(s, 1, i-1)[n] = s[n]
  BY <1>1
<1>3. /\ SubSeq(s, i+1, Len(s)) \in Seq(S) /\ Len(SubSeq(s, i+1, Len(s))) = Len(s) - i
      /\ \A n \in 1..(Len(s)-i) : SubSeq(s, i+1, Len(s))[n] = s[n+i]
  BY <1>1
<1>4. t = SubSeq(s, 1, i-1) \o SubSeq(s, i+1, Len(s))
  BY DEF RemoveAt
<1> DEFINE a == SubSeq(s, 1, i-1)
           b == SubSeq(s, i+1, Len(s))
<1> HIDE DEF a, b
<1>5. /\ t = a \o b /\ a \in Seq(S) /\ b \in Seq(S) /\ Len(a) = i - 1 /\ Len(b) = Len(s) - i
      /\ \A n \in 1..(i-1) : a[n] = s[n]
      /\ \A n \in 1..(Len(s)-i) : b[n] = s[n+i]
  BY <1>2, <1>3, <1>4 DEF a, b
<1>6. t \in Seq(S) /\ Len(t) = Len(a) + Len(b)
  <2>0. a \in Seq(S) /\ b \in Seq(S)
    BY <1>5
  <2>1. a \o b \in Seq(S) /\ Len(a \o b) = Len(a) + Len(b)
    BY ONLY <2>0
  <2> QED BY ONLY <2>1, <1>5, Zenon
<1>7. \A n \in 1..Len(t) : t[n] = IF n <= Len(a) THEN a[n] ELSE b[n - Len(a)]
  <2>0. a \in Seq(S) /\ b \in Seq(S)
    BY <1>5
  <2>1. \A n \in 1..Len(a \o b) : (a \o b)[n] = IF n <= Len(a) THEN a[n] ELSE b[n - Len(a)]
    BY ONLY <2>0
  <2> QED BY ONLY <2>1, <1>5, Zenon
<1>8. ASSUME NEW n \in 1..Len(t) PROVE t[n] = IF n < i THEN s[n] ELSE s[n+1]
  <2>1. CASE n < i
    <3>1. n \in 1..(i-1) /\ n <= Len(a)
      BY <1>1, <1>5, <2>1
    <3> QED BY <1>5, <1>7, <2>1, <3>1
  <2>2. CASE ~(n < i)
    <3>1. n - Len(a) \in 1..(Len(s)-i) /\ (n - Len(a)) + i = n + 1 /\ ~(n <= Len(a))
      BY <1>1, <1>5, <1>6, <2>2
    <3>2. b[n - Len(a)] = s[(n - Len(a)) + i]
      BY <1>5, <3>1
    <3> QED BY <1>7, <2>2, <3>1, <3>2
  <2> QED BY <2>1, <2>2
<1> QED BY <1>1, <1>5, <1>6, <1>8 DEF Without

(* The elements of t are those of s, but for y.                            *)
HoldsAllBut(t, s, y) ==
    \A x : (\E n \in 1..Len(t) : t[n] = x) <=> x # y /\ \E n \in 1..Len(s) : s[n] = x

(* Without one occurrence, a sequence without repetitions holds all the    *)
(* other elements.                                                         *)
LEMMA RemoveAtElements ==
    ASSUME NEW S, NEW s \in Seq(S), NEW i \in 1..Len(s), NEW t, Without(t, s, i), Distinct(s),
           NEW y, y = s[i]
    PROVE  Distinct(t) /\ HoldsAllBut(t, s, y)
<1>1. /\ Len(s) \in Nat /\ Len(t) = Len(s) - 1
      /\ \A n \in 1..Len(t) : t[n] = IF n < i THEN s[n] ELSE s[n+1]
  BY DEF Without
<1>2. ASSUME NEW x, NEW n \in 1..Len(t), t[n] = x
      PROVE  x # y /\ \E m \in 1..Len(s) : s[m] = x
  <2>1. PICK m \in 1..Len(s) : m # i /\ t[n] = s[m]
    <3>1. CASE n < i
      BY <1>1, <3>1
    <3>2. CASE ~(n < i)
      BY <1>1, <3>2
    <3> QED BY <3>1, <3>2
  <2> QED BY <1>2, <2>1 DEF Distinct
<1>3. ASSUME NEW x, x # y, NEW m \in 1..Len(s), s[m] = x
      PROVE  \E n \in 1..Len(t) : t[n] = x
  <2>1. m # i
    BY <1>3
  <2>2. CASE m < i
    <3>1. m \in 1..Len(t)
      BY <1>1, <2>2
    <3> QED BY <1>1, <1>3, <2>2, <3>1
  <2>3. CASE m > i
    <3>1. m - 1 \in 1..Len(t) /\ ~(m - 1 < i) /\ (m - 1) + 1 = m
      BY <1>1, <2>3
    <3>2. t[m-1] = s[m]
      BY <1>1, <3>1
    <3> QED BY <1>3, <3>1, <3>2
  <2> QED BY <1>1, <2>1, <2>2, <2>3
<1>4. Distinct(t)
  <2> SUFFICES ASSUME NEW n \in 1..Len(t), NEW m \in 1..Len(t), t[n] = t[m] PROVE n = m
    BY DEF Distinct
  <2>1. PICK n1 \in 1..Len(s) : t[n] = s[n1] /\ (n < i => n1 = n) /\ (n >= i => n1 = n + 1)
    <3>1. CASE n < i
      BY <1>1, <3>1
    <3>2. CASE n >= i
      BY <1>1, <3>2
    <3> QED BY <1>1, <3>1, <3>2
  <2>2. PICK m1 \in 1..Len(s) : t[m] = s[m1] /\ (m < i => m1 = m) /\ (m >= i => m1 = m + 1)
    <3>1. CASE m < i
      BY <1>1, <3>1
    <3>2. CASE m >= i
      BY <1>1, <3>2
    <3> QED BY <1>1, <3>1, <3>2
  <2>3. n1 = m1
    BY <2>1, <2>2 DEF Distinct
  <2> QED BY <1>1, <2>1, <2>2, <2>3
<1> QED BY <1>2, <1>3, <1>4 DEF HoldsAllBut

(* A new listener is added to those there.                                 *)
LEMMA OneMoreListener ==
    ASSUME NEW S, NEW s \in Seq(S), NEW p \in S, \A n \in 1..Len(s) : s[n] # p,
           NEW t, Extends(t, s, p), Distinct(s)
    PROVE  /\ Distinct(t)
           /\ \A x : (\E n \in 1..Len(t) : t[n] = x) <=> x = p \/ \E n \in 1..Len(s) : s[n] = x
<1>1. /\ Len(s) \in Nat /\ Len(t) = Len(s) + 1 /\ t[Len(t)] = p
      /\ \A n \in 1..Len(s) : t[n] = s[n]
  BY DEF Extends
<1>2. \A n \in 1..Len(t) : n = Len(t) \/ n \in 1..Len(s)
  BY <1>1
<1>3. Distinct(t)
  BY ONLY <1>1, <1>2, \A n \in 1..Len(s) : s[n] # p, Distinct(s) DEF Distinct
<1>4. Len(t) \in 1..Len(t) /\ 1..Len(s) \subseteq 1..Len(t)
  BY <1>1
<1>5. \A x : (\E n \in 1..Len(t) : t[n] = x) <=> x = p \/ \E n \in 1..Len(s) : s[n] = x
  BY ONLY <1>1, <1>2, <1>4
<1> QED BY <1>3, <1>5

(* The listeners stay right in every step that leaves the fiber running.   *)
LEMMA CallersListening ==
    ASSUME TypeOK, TypeOK', Listening, JoinersOnlyJoin, CallerStep
    PROVE  Listening' /\ JoinersOnlyJoin'
<1>0. /\ callbacks \in Seq(Callers) /\ Len(callbacks) \in Nat
      /\ DOMAIN pc = Callers /\ Cancelers \cap Joiners = {}
      /\ Cancelers \subseteq Callers /\ Joiners \subseteq Callers
  BY NamesAssumption DEF TypeOK, Callers
<1>1. ASSUME NEW p \in Callers, NEW from, NEW to, Moves(p, from, to),
             callbacks' = callbacks, to # "joined", "joined" \notin from
      PROVE  Listening'
  <2>1. \A q \in Callers : pc'[q] = "joined" <=> pc[q] = "joined"
    BY <1>0, <1>1 DEF Moves, TypeOK
  <2> QED BY <1>1, <2>1 DEF Listening
<1>2. ASSUME NEW p \in Callers, NEW from, NEW to, Moves(p, from, to), to \in JoinerPCs \/ p \in Cancelers
      PROVE  JoinersOnlyJoin'
  <2>1. ASSUME NEW j \in Joiners PROVE pc'[j] \in JoinerPCs
    <3>1. CASE j = p
      BY <1>0, <1>2, <3>1 DEF Moves
    <3>2. CASE j # p
      BY <1>0, <1>2, <3>2 DEF Moves, JoinersOnlyJoin
    <3> QED BY <3>1, <3>2
  <2> QED BY <2>1 DEF JoinersOnlyJoin
<1>3. CASE AsksNothing
  BY <1>3 DEF AsksNothing, SameCallers, Listening, JoinersOnlyJoin
<1>4. CASE Fails
  <2>1. PICK k \in Cancelers : Moves(k, {"awaiting"}, "failed")
    BY <1>4 DEF Fails
  <2> QED BY <1>0, <1>1, <1>2, <1>4, <2>1 DEF Fails
<1>5. CASE Asks
  <2>1. PICK k \in Cancelers, q \in {"owner", "joining"} : Moves(k, {"idle"}, q)
    BY <1>5 DEF Asks
  <2> QED BY <1>0, <1>1, <1>2, <1>5, <2>1 DEF Asks
<1>6. CASE IsAnswered
  <2>1. PICK p \in Callers : Moves(p, {"idle", "joining"}, "done")
    BY <1>6 DEF IsAnswered
  <2> QED BY <1>0, <1>1, <1>2, <1>6, <2>1 DEF IsAnswered, JoinerPCs
<1>7. CASE Registers
  <2>1. PICK p \in Callers : Moves(p, {"idle", "joining"}, "joined") /\ callbacks' = Append(callbacks, p)
    BY <1>7 DEF Registers
  <2>2. \A n \in 1..Len(callbacks) : callbacks[n] # p
    BY <2>1 DEF Listening, Moves
  <2>3. /\ Distinct(callbacks')
        /\ \A x : (\E n \in 1..Len(callbacks') : callbacks'[n] = x)
                     <=> x = p \/ \E n \in 1..Len(callbacks) : callbacks[n] = x
    <3>1. Extends(callbacks', callbacks, p) /\ Distinct(callbacks)
      BY <1>0, <2>1 DEF Extends, Listening
    <3> QED BY ONLY <1>0, <2>2, <3>1, OneMoreListener
  <2>4. \A q \in Callers : pc'[q] = "joined" <=> q = p \/ pc[q] = "joined"
    BY <1>0, <2>1 DEF Moves
  <2>5. Listening'
    BY <2>3, <2>4 DEF Listening
  <2> QED BY <1>2, <2>1, <2>5 DEF JoinerPCs
<1>8. CASE Abandons
  <2>1. PICK j \in Joiners : /\ Moves(j, {"joined"}, "abandoned")
                             /\ \E i \in 1..Len(callbacks) : /\ callbacks[i] = j
                                                             /\ callbacks' = RemoveAt(callbacks, i)
    BY <1>8 DEF Abandons
  <2>2. PICK i \in 1..Len(callbacks) : callbacks[i] = j /\ callbacks' = RemoveAt(callbacks, i)
    BY <2>1
  <2>3. Distinct(callbacks') /\ HoldsAllBut(callbacks', callbacks, j)
    <3>5. j = callbacks[i]
      BY <2>2
    <3>1. Distinct(callbacks)
      BY DEF Listening
    <3>4. Without(callbacks', callbacks, i)
      BY <1>0, <2>2, RemoveAtIsWithout
    <3>3. callbacks \in Seq(Callers)
      BY <1>0
    <3> QED BY ONLY <3>1, <3>3, <3>4, i \in 1..Len(callbacks), <3>5, RemoveAtElements
  <2>4. \A q \in Callers : pc'[q] = "joined" <=> q # j /\ pc[q] = "joined"
    BY <1>0, <2>1 DEF Moves
  <2>5. Listening'
    BY <2>3, <2>4 DEF Listening, HoldsAllBut
  <2> QED BY <1>0, <1>2, <2>1, <2>5 DEF JoinerPCs
<1> QED BY <1>3, <1>4, <1>5, <1>6, <1>7, <1>8 DEF CallerStep

(* A step of the callers: who awaits the end of the finalization.          *)
LEMMA CallersAwait ==
    ASSUME TypeOK, CallerStep
    PROVE  /\ \A k \in Cancelers : pc'[k] = "awaiting" => pc[k] = "awaiting"
           /\ \A k \in Cancelers : pc[k] \in {"awaiting", "failed"} => pc'[k] \in {"awaiting", "failed"}
<1>0. DOMAIN pc = Callers /\ Cancelers \cap Joiners = {} /\ Cancelers \subseteq Callers /\ Joiners \subseteq Callers
  BY NamesAssumption DEF TypeOK, Callers
<1>1. ASSUME NEW p \in Callers, NEW from, NEW to, Moves(p, from, to),
             to # "awaiting", to = "failed" \/ from \cap {"awaiting", "failed"} = {}, NEW k \in Cancelers
      PROVE  /\ pc'[k] = "awaiting" => pc[k] = "awaiting"
             /\ pc[k] \in {"awaiting", "failed"} => pc'[k] \in {"awaiting", "failed"}
  <2>1. CASE k = p
    BY <1>0, <1>1, <2>1 DEF Moves
  <2>2. CASE k # p
    BY <1>0, <1>1, <2>2 DEF Moves
  <2> QED BY <2>1, <2>2
<1>2. CASE AsksNothing
  BY <1>2 DEF AsksNothing, SameCallers
<1>3. CASE ~AsksNothing
  <2>1. \E p \in Callers : \E from, to :
          /\ Moves(p, from, to) /\ to # "awaiting"
          /\ to = "failed" \/ from \cap {"awaiting", "failed"} = {}
    <3>1. CASE Fails
      <4>1. PICK k \in Cancelers : Moves(k, {"awaiting"}, "failed")
        BY <3>1 DEF Fails
      <4> QED BY <1>0, <4>1
    <3>2. CASE Asks
      <4>1. PICK k \in Cancelers, q \in {"owner", "joining"} : Moves(k, {"idle"}, q)
        BY <3>2 DEF Asks
      <4>2. q # "awaiting" /\ {"idle"} \cap {"awaiting", "failed"} = {}
        OBVIOUS
      <4> QED BY <1>0, <4>1, <4>2
    <3>3. CASE IsAnswered
      <4>1. PICK p \in Callers : Moves(p, {"idle", "joining"}, "done")
        BY <3>3 DEF IsAnswered
      <4>2. {"idle", "joining"} \cap {"awaiting", "failed"} = {}
        OBVIOUS
      <4> QED BY <4>1, <4>2
    <3>4. CASE Registers
      <4>1. PICK p \in Callers : Moves(p, {"idle", "joining"}, "joined")
        BY <3>4 DEF Registers
      <4>2. {"idle", "joining"} \cap {"awaiting", "failed"} = {}
        OBVIOUS
      <4> QED BY <4>1, <4>2
    <3>5. CASE Abandons
      <4>1. PICK j \in Joiners : Moves(j, {"joined"}, "abandoned")
        BY <3>5 DEF Abandons
      <4>2. {"joined"} \cap {"awaiting", "failed"} = {}
        OBVIOUS
      <4> QED BY <1>0, <4>1, <4>2
    <3> QED BY <1>3, <3>1, <3>2, <3>3, <3>4, <3>5 DEF CallerStep
  <2> QED BY <1>1, <2>1
<1> QED BY <1>2, <1>3

(* Nobody owns or awaits a fiber that completed, nor is registered with it.*)
LEMMA CallersAnswered ==
    ASSUME TypeOK, TypeOK', RunLoopOwnership', Answers, CallerStep, outcome' = outcome
    PROVE  AnsweredWithOutcome'
<1>0. /\ DOMAIN pc = Callers /\ Callers = Cancelers \cup Joiners
      /\ Cancelers \cap Joiners = {} /\ Cancelers \subseteq Callers /\ Joiners \subseteq Callers
  BY NamesAssumption DEF TypeOK, Callers
<1>1. Listening' /\ JoinersOnlyJoin'
  BY CallersListening DEF Answers
<1>2. ASSUME NEW p \in Callers, pc'[p] = "owner" PROVE outcome' = NotCompleted
  <2>1. p \in Cancelers
    BY <1>0, <1>1, <1>2 DEF JoinersOnlyJoin, JoinerPCs
  <2> QED BY <1>2, <2>1 DEF RunLoopOwnership, Owned, IsOwner
<1>3. ASSUME NEW p \in Callers, pc'[p] = "awaiting" PROVE outcome' = NotCompleted
  <2>1. p \in Cancelers
    BY <1>0, <1>1, <1>3 DEF JoinersOnlyJoin, JoinerPCs
  <2>2. pc[p] = "awaiting"
    BY <1>3, <2>1, CallersAwait
  <2> QED BY <1>0, <2>2 DEF Answers, AnsweredWithOutcome
<1>4. ASSUME NEW p \in Callers, NEW from, NEW to, Moves(p, from, to), to # "done" \/ outcome # NotCompleted,
             to # "joined" \/ outcome = NotCompleted, NEW q \in Callers
      PROVE  /\ pc'[q] = "done" => outcome' # NotCompleted
             /\ pc'[q] = "joined" => outcome' = NotCompleted
  <2>1. CASE q = p
    BY <1>0, <1>4, <2>1 DEF Moves
  <2>2. CASE q # p
    BY <1>0, <1>4, <2>2 DEF Moves, Answers, AnsweredWithOutcome
  <2> QED BY <2>1, <2>2
<1>5. ASSUME NEW q \in Callers
      PROVE  /\ pc'[q] = "done" => outcome' # NotCompleted
             /\ pc'[q] = "joined" => outcome' = NotCompleted
  <2>1. CASE AsksNothing
    BY <1>0, <2>1 DEF AsksNothing, SameCallers, Answers, AnsweredWithOutcome
  <2>2. CASE ~AsksNothing
    <3>1. \E p \in Callers : \E from, to :
            /\ Moves(p, from, to)
            /\ to # "done" \/ outcome # NotCompleted
            /\ to # "joined" \/ outcome = NotCompleted
      <4>1. CASE Fails
        BY <1>0, <4>1 DEF Fails
      <4>2. CASE Asks
        <5>1. PICK k \in Cancelers, r \in {"owner", "joining"} : Moves(k, {"idle"}, r)
          BY <4>2 DEF Asks
        <5>2. r # "done" /\ r # "joined"
          OBVIOUS
        <5> QED BY <1>0, <5>1, <5>2
      <4>3. CASE IsAnswered
        BY <4>3 DEF IsAnswered
      <4>4. CASE Registers
        BY <4>4 DEF Registers
      <4>5. CASE Abandons
        BY <1>0, <4>5 DEF Abandons
      <4> QED BY <2>2, <4>1, <4>2, <4>3, <4>4, <4>5 DEF CallerStep
    <3> QED BY <1>4, <3>1
  <2> QED BY <2>1, <2>2
<1> QED BY <1>0, <1>2, <1>3, <1>5 DEF AnsweredWithOutcome

(* The steps that keep the fiber running in the same stage.                *)
LEMMA StayingAnswers ==
    ASSUME FramesInductive, FramesInductive', Answers, CallerStep,
           outcome' = outcome, finalizing' = finalizing,
           \/ KeepsFrames \/ LeavesValue \/ TakesValue \/ StartsProgram
           \/ \E tag \in Continuations : PushesFrame(tag) \/ PopsFrame(tag)
    PROVE  Answers'
<1>0. TypeOK /\ TypeOK' /\ RunLoopOwnership'
  BY DEF FramesInductive
<1>1. Listening' /\ JoinersOnlyJoin' /\ AnsweredWithOutcome'
  BY <1>0, CallersListening, CallersAnswered DEF Answers
<1>2. Above'
  <2>1. CASE StartsProgram
    <3>1. ~finalizing /\ ~finalizing'
      BY <2>1 DEF StartsProgram, FramesInductive, FramesInv, Unstarted
    <3>2. \A k \in Cancelers : pc'[k] # "awaiting"
      BY <1>0, <3>1, CallersAwait DEF Answers, Above
    <3>3. SlotsAbove(0)'
      BY <3>1 DEF FramesInductive, FramesInv, StackMatchesConts
    <3> QED BY <3>2, <3>3 DEF Above
  <2>2. CASE ~StartsProgram /\ SlotsAbove(0) /\ \A k \in Cancelers : pc[k] # "awaiting"
    <3>1. SlotsAbove(0)'
      BY <1>0, <2>2, FramesKeepSlots
    <3>2. \A k \in Cancelers : pc'[k] # "awaiting"
      BY <1>0, <2>2, CallersAwait
    <3> QED BY <3>1, <3>2 DEF Above
  <2>3. CASE /\ ~StartsProgram
             /\ finalizing /\ SlotsAbove(1) /\ stack[1] \in Cancelers
             /\ pc[stack[1]] \in {"awaiting", "failed"}
             /\ \A k \in Cancelers : pc[k] = "awaiting" => k = stack[1]
    <3>1. SlotsAbove(1)' /\ stack'[1] = stack[1]
      BY <1>0, <2>3, FramesKeepSlots
    <3>2. pc'[stack[1]] \in {"awaiting", "failed"} /\ \A k \in Cancelers : pc'[k] = "awaiting" => k = stack[1]
      BY <1>0, <2>3, CallersAwait
    <3> QED BY <2>3, <3>1, <3>2 DEF Above
  <2> QED BY <2>1, <2>2, <2>3 DEF Answers, Above
<1> QED BY <1>1, <1>2 DEF Answers

(* The fiber starts to finalize, for the canceler that owns it if there is *)
(* one.                                                                    *)
LEMMA StartingAnswers ==
    ASSUME FramesInductive, FramesInductive', Answers, StartsFinalizing
    PROVE  Answers'
<1>0. /\ DOMAIN pc = Callers /\ Callers = Cancelers \cup Joiners
      /\ Cancelers \cap Joiners = {} /\ Cancelers \subseteq Callers /\ Joiners \subseteq Callers
      /\ conts' \in Seq(Continuations)
  BY NamesAssumption DEF FramesInductive, TypeOK, Callers
<1>1. /\ UNCHANGED <<outcome, callbacks>> /\ ~finalizing /\ finalizing' /\ ~Resuming'
      /\ conts' = <<"CancelationLoopK">>
  BY DEF StartsFinalizing
<1>2. \A k \in Cancelers : pc[k] # "awaiting"
  BY <1>1 DEF Answers, Above
<1>3. CASE stack' = <<>> /\ pc' = pc
  <2>1. SlotsAbove(0)'
    <3>1. ~SlotsAbove(1)'
      <4>1. SUFFICES ASSUME SlotsAbove(1)' PROVE FALSE
        OBVIOUS
      <4>2. TypeOK' /\ Matched(1)'
        BY <4>1, SlotsAreMatchedNext DEF FramesInductive
      <4>3. Matches(conts', stack', 1) /\ stack' \in Seq(Slots)
        BY <1>1, <4>2 DEF Matched, TypeOK, Slots
      <4> QED BY <1>0, <1>3, <4>3, BaseIsThere
    <3> QED BY <3>1 DEF FramesInductive, FramesInv, StackMatchesConts
  <2> QED BY <1>1, <1>2, <1>3, <2>1 DEF Answers, Above, Listening, JoinersOnlyJoin, AnsweredWithOutcome
<1>4. ASSUME NEW k \in Cancelers, pc[k] = "owner", stack' = <<k>>, pc' = [pc EXCEPT ![k] = "awaiting"]
      PROVE  Answers'
  <2>1. outcome = NotCompleted /\ outcome' = NotCompleted
    BY <1>0, <1>1, <1>4 DEF Answers, AnsweredWithOutcome
  <2>2. /\ pc'[k] = "awaiting" /\ \A p \in Callers : p # k => pc'[p] = pc[p]
    BY <1>0, <1>4
  <2>3. stack'[1] = k /\ Len(stack') = 1
    BY <1>4
  <2>4. SlotsAbove(1)'
    <3>1. ~SlotsAbove(0)'
      <4>1. SUFFICES ASSUME SlotsAbove(0)' PROVE FALSE
        OBVIOUS
      <4>1a. TypeOK' /\ Matched(0)'
        BY <4>1, SlotsAreMatchedNext DEF FramesInductive
      <4>2. Len(stack') = 0 + Count(conts', Len(conts'), HasSlot)
        BY <1>1, <4>1a DEF Matched, Matches
      <4>3. Len(conts') = 1 /\ conts'[1] = "CancelationLoopK"
        BY <1>1
      <4>4. Count(conts', Len(conts'), HasSlot) = 0
        <5>1. {i \in 1..Len(conts') : conts'[i] \in HasSlot} = {}
          BY <4>3 DEF HasSlot
        <5> QED BY <5>1, FS_EmptySet DEF Count
      <4> QED BY <2>3, <4>2, <4>4
    <3> QED BY <3>1 DEF FramesInductive, FramesInv, StackMatchesConts
  <2>5. Above'
    BY <1>0, <1>1, <1>2, <1>4, <2>2, <2>3, <2>4 DEF Above
  <2>6. Listening'
    BY <1>0, <1>1, <1>4, <2>2 DEF Answers, Listening
  <2>7. JoinersOnlyJoin' /\ AnsweredWithOutcome'
    BY <1>0, <2>1, <2>2, <1>4 DEF Answers, JoinersOnlyJoin, AnsweredWithOutcome
  <2> QED BY <2>5, <2>6, <2>7 DEF Answers
<1> QED BY <1>3, <1>4 DEF StartsFinalizing

(* Who is called when the last finalizer is done: the canceler that waits  *)
(* for it.                                                                 *)
LEMMA LastIsAwaiting ==
    ASSUME FramesInductive, Above, conts # <<>>, Last(conts) = "CancelationLoopK", ~Resuming,
           NEW cb, cb = IF stack = <<>> THEN NoCb ELSE Last(stack)
    PROVE  /\ cb = NoCb \/ (cb \in Cancelers /\ pc[cb] \in {"awaiting", "failed"})
           /\ \A k \in Cancelers : pc[k] = "awaiting" => k = cb
<1>1. Len(conts) = 1 /\ conts[1] = "CancelationLoopK"
  <2>1. TypeOK /\ Bottom
    BY DEF FramesInductive, FramesInv
  <2>2. Len(conts) = 1
    BY <2>1, LastAtBottom DEF Bottoms
  <2> QED BY <2>1, <2>2 DEF Last, TypeOK
<1>2. SlotsTo(Len(conts)) = 0
  <2>1. {i \in 1..Len(conts) : conts[i] \in HasSlot} = {}
    BY <1>1 DEF HasSlot
  <2> QED BY <2>1, FS_EmptySet DEF SlotsTo
<1>3. stack \in Seq(Slots)
  BY DEF FramesInductive, TypeOK, Slots
<1>4. CASE SlotsAbove(0) /\ \A k \in Cancelers : pc[k] # "awaiting"
  <2>1. Len(stack) = 0
    BY <1>2, <1>4 DEF SlotsAbove
  <2> QED BY <1>3, <1>4, <2>1
<1>5. CASE /\ finalizing /\ SlotsAbove(1) /\ stack[1] \in Cancelers
           /\ pc[stack[1]] \in {"awaiting", "failed"}
           /\ \A k \in Cancelers : pc[k] = "awaiting" => k = stack[1]
  <2>1. Len(stack) = 1
    BY <1>2, <1>5 DEF SlotsAbove
  <2>2. stack # <<>> /\ Last(stack) = stack[1]
    BY <1>3, <2>1 DEF Last
  <2> QED BY <1>5, <2>2
<1> QED BY <1>4, <1>5 DEF Above

(* The fiber ends: whoever waits is among those it answers.                *)
LEMMA EndingAnswers ==
    ASSUME FramesInductive, FramesInductive', FinalizersMasked, Answers, EndsFrames
    PROVE  Answers'
<1>0. /\ DOMAIN pc = Callers /\ Callers = Cancelers \cup Joiners
      /\ Cancelers \cap Joiners = {} /\ Cancelers \subseteq Callers /\ Joiners \subseteq Callers
      /\ DOMAIN callbacks = 1..Len(callbacks)
  BY NamesAssumption DEF FramesInductive, TypeOK, Callers
<1>1. PICK oc \in Outcomes, cb \in Slots \cup {NoCb} : Complete(oc, cb) /\ EndsFor(cb)
  BY DEF EndsFrames
<1>2. outcome = NotCompleted /\ outcome' = oc /\ oc # NotCompleted
  BY <1>1 DEF EndsFrames, Complete, Outcomes, NotCompleted
<1>3. /\ callbacks' = <<>> /\ stack' = <<>> /\ conts' = <<>> /\ ~Resuming'
      /\ pc' = [p \in Callers |-> IF p \in ToSet(callbacks) \cup {cb} THEN "done" ELSE pc[p]]
  BY <1>0, <1>1 DEF Complete, EndsFrames
<1>4. \A p \in Callers : pc[p] = "joined" => p \in ToSet(callbacks)
  BY <1>0 DEF Answers, Listening, ToSet
<1>5. \A k \in Cancelers : pc[k] = "owner" => k = cb
  BY <1>1 DEF EndsFor
<1>6. \A k \in Cancelers : pc[k] = "awaiting" => k = cb
  <2>1. CASE ~finalizing \/ masks = 0
    <3>1. ~finalizing
      BY <1>2, <2>1 DEF FinalizersMasked
    <3> QED BY <3>1 DEF Answers, Above
  <2>2. CASE /\ finalizing /\ conts # <<>> /\ Last(conts) = "CancelationLoopK" /\ ~Resuming
             /\ cb = IF stack = <<>> THEN NoCb ELSE Last(stack)
    BY <2>2, LastIsAwaiting DEF Answers
  <2> QED BY <1>1, <2>1, <2>2 DEF EndsFor
<1>7. ASSUME NEW p \in Callers PROVE pc'[p] \notin {"joined", "owner", "awaiting"}
  <2>1. CASE p \in ToSet(callbacks) \cup {cb}
    BY <1>3, <2>1
  <2>2. CASE p \notin ToSet(callbacks) \cup {cb}
    <3>1. pc'[p] = pc[p] /\ pc[p] # "joined"
      BY <1>3, <1>4, <2>2
    <3>2. CASE p \in Cancelers
      BY <1>5, <1>6, <2>2, <3>1, <3>2
    <3>3. CASE p \in Joiners
      BY <3>1, <3>3 DEF Answers, JoinersOnlyJoin, JoinerPCs
    <3> QED BY <1>0, <3>2, <3>3
  <2> QED BY <2>1, <2>2
<1>8. JoinersOnlyJoin'
  BY <1>0, <1>3 DEF Answers, JoinersOnlyJoin, JoinerPCs
<1>9. Listening'
  BY <1>3, <1>7 DEF Listening, Distinct
<1>10. Above'
  <2>1. ~SlotsAbove(1)'
    <3>1. SUFFICES ASSUME SlotsAbove(1)' PROVE FALSE
      OBVIOUS
    <3>2. TypeOK' /\ Matched(1)'
      BY <3>1, SlotsAreMatchedNext DEF FramesInductive
    <3>3. Matches(conts', stack', 1) /\ stack' \in Seq(Slots) /\ conts' \in Seq(Continuations)
      BY <1>3, <3>2 DEF Matched, TypeOK, Slots
    <3> QED BY <1>3, <3>3, BaseIsThere
  <2>2. SlotsAbove(0)'
    BY <2>1 DEF FramesInductive, FramesInv, StackMatchesConts
  <2> QED BY <1>0, <1>7, <2>2 DEF Above
<1>11. AnsweredWithOutcome'
  BY <1>0, <1>2, <1>7 DEF AnsweredWithOutcome
<1> QED BY <1>8, <1>9, <1>10, <1>11 DEF Answers

(* Every step keeps those who wait known to the fiber.                     *)
LEMMA NextAnswers ==
    ASSUME FramesInductive, FramesInductive', FinalizersMasked, Answers, [Next]_vars
    PROVE  Answers'
<1>1. FrameStep
  BY NextFrames
<1>2. CASE StartsFinalizing
  BY <1>2, StartingAnswers
<1>3. CASE EndsFrames
  BY <1>3, EndingAnswers
<1>4. CASE \/ KeepsFrames \/ LeavesValue \/ TakesValue \/ StartsProgram
           \/ \E tag \in Continuations : PushesFrame(tag) \/ PopsFrame(tag)
  <2>1. outcome' = outcome /\ finalizing' = finalizing
    BY <1>4 DEF KeepsFrames, LeavesValue, TakesValue, StartsProgram, PushesFrame, PopsFrame
  <2>2. CallerStep
    BY <2>1, NextCallers DEF Answers
  <2> QED BY <1>4, <2>1, <2>2, StayingAnswers
<1> QED BY <1>1, <1>2, <1>3, <1>4 DEF FrameStep

(* Nobody waits for a fiber just made.                                     *)
LEMMA InitAnswers == Init => Answers
<1> SUFFICES ASSUME Init PROVE Answers
  OBVIOUS
<1>1. /\ callbacks = <<>> /\ outcome = NotCompleted /\ \A p \in Callers : pc[p] = "idle"
      /\ Cancelers \subseteq Callers /\ Joiners \subseteq Callers /\ ~finalizing
  BY DEF Init, Callers
<1>2. SlotsAbove(0)
  BY <1>1, InitFrames DEF FramesInv, StackMatchesConts
<1>3. Above
  BY <1>1, <1>2 DEF Above
<1>4. Listening
  BY <1>1 DEF Listening, Distinct
<1>5. JoinersOnlyJoin /\ AnsweredWithOutcome
  BY <1>1 DEF JoinersOnlyJoin, AnsweredWithOutcome, JoinerPCs, Callers
<1> QED BY <1>3, <1>4, <1>5 DEF Answers

(* Those who wait are always known to the fiber.                           *)
LEMMA AnswersHold ==
    ASSUME ~PollInFinalizers
    PROVE  Spec => []Answers
<1>1. Init => Answers
  BY InitAnswers
<1>2. FramesInductive /\ FramesInductive' /\ FinalizersMasked /\ Answers /\ [Next]_vars => Answers'
  BY NextAnswers
<1> QED BY <1>1, <1>2, FramesHold, FinalizersAreMasked, PTL DEF Spec

(* Nobody who joined or canceled is left waiting on a completed fiber,     *)
(* and nobody is answered before it completed (onComplete, complete, and   *)
(* the callback a canceler leaves at the bottom of the stack).             *)
THEOREM WaitersAnswered ==
    ASSUME ~PollInFinalizers
    PROVE  Spec => []AnsweredWithOutcome
<1>1. Answers => AnsweredWithOutcome
  BY DEF Answers
<1> QED BY <1>1, AnswersHold, PTL

-----------------------------------------------------------------------------
(* A ContState that waits: the fiber is parked on it, or was taken by a    *)
(* canceler whose finalizers begin with the one of get, or this finalizer  *)
(* is about to run.                                                        *)
Waiting(c) == state[c].phase = "Waiting"

NobodyWaits == \A c \in Conts : ~Waiting(c)

Parked(c) ==
    /\ suspended /\ ~ShouldFinalize
    /\ state[c].wasFinalizing = finalizing
    /\ finalizers # <<>> /\ Last(finalizers) = c

Taken(c) ==
    /\ \E k \in Cancelers : IsOwner(k)
    /\ ~finalizing /\ ~state[c].wasFinalizing
    /\ finalizers # <<>> /\ Last(finalizers) = c

Called(c) ==
    /\ cur = c /\ ~suspended
    /\ finalizing /\ ~state[c].wasFinalizing
    /\ turn # NoTurn \/ (scheduled > 0 /\ resumeTag = "AutoSuspend")

Waits == \A c \in Conts : Waiting(c) => Parked(c) \/ Taken(c) \/ Called(c)

(* While the loop runs, only the finalizer it calls may be waited for.     *)
LEMMA WaitsInTurn ==
    ASSUME FramesInductive, FinalizersMasked, Waits, turn # NoTurn, NEW c \in Conts, Waiting(c)
    PROVE  Called(c) /\ masks > 0
<1>1. ~suspended /\ outcome = NotCompleted /\ \A k \in Cancelers : pc[k] # "owner"
  BY InTurn DEF FramesInductive
<1>2. Called(c)
  BY <1>1 DEF Waits, Parked, Taken, IsOwner
<1> QED BY <1>1, <1>2 DEF Called, FinalizersMasked

(* The loop interprets the finalizer of get, or hands its turn back.       *)
LEMMA ContSteps ==
    ASSUME LoopStep, cur \in Conts, masks > 0
    PROVE  AutoSuspend \/ ContFinalizer
<1>1. cur \notin {"any", "pure", "error", NoIO} \cup Unwound
  BY NamesAssumption
<1>2. ~ShouldFinalize
  BY DEF ShouldFinalize, IsUnmasked
<1>3. ~(Finalize \/ Pure \/ Fail)
  BY <1>1, <1>2 DEF Finalize, Pure, Fail
<1>4. \A n : ~Node(n)
  BY <1>1 DEF Node
<1>5. ~(Defer \/ Map \/ FlatMap \/ HandleErrorWith \/ Attempt \/ OnCancel \/ Canceled \/ IOCont
        \/ IOContGet \/ Uncancelable \/ UnmaskRunLoop \/ ExecuteOn \/ Suspend)
  BY <1>4 DEF Defer, Map, FlatMap, HandleErrorWith, Attempt, PushTransformer, OnCancel, Canceled,
              IOCont, IOContGet, Uncancelable, UnmaskRunLoop, ExecuteOn, Suspend
<1>6. ~(ContinueMap \/ ContinueFlatMap \/ ContinueHandleErrorWith \/ ContinueAttempt
        \/ ContinueOnCancel \/ ContinueUncancelable \/ ContinueUnmask
        \/ ExecuteOnK \/ CancelationLoopK \/ TerminateK)
  BY <1>1 DEF ContinueMap, ContinueFlatMap, ContinueHandleErrorWith, ContinueAttempt,
              ContinueOnCancel, ContinueUncancelable, ContinueUnmask, Continue, PopCont,
              ExecuteOnK, CancelationLoopK, TerminateK
<1> QED BY <1>3, <1>5, <1>6 DEF LoopStep

(* If nobody waits, only IOContGet makes somebody wait.                    *)
LEMMA QuietSteps ==
    ASSUME TypeOK, NobodyWaits, LoopStep, ~IOContGet
    PROVE  NobodyWaits' /\ impossible' = impossible
<1> USE DEF doneVars, maskVars, frameVars, ghostVars
<1>1. CASE Finalize \/ AutoSuspend \/ Pure \/ Fail \/ Defer \/ Suspend \/ ExecuteOn
  BY <1>1 DEF Finalize, AutoSuspend, Pure, Fail, Defer, Suspend, ExecuteOn, NobodyWaits, Waiting
<1>2. CASE Map \/ FlatMap \/ HandleErrorWith \/ Attempt \/ OnCancel \/ Canceled \/ Uncancelable \/ UnmaskRunLoop
  BY <1>2 DEF Map, FlatMap, HandleErrorWith, Attempt, PushTransformer, OnCancel, Canceled, Uncancelable,
              UnmaskRunLoop, NobodyWaits, Waiting
<1>3. CASE IOCont
  <2>1. PICK c \in Conts : state' = [state EXCEPT ![c] = [phase |-> "Initial",
                        wasFinalizing |-> finalizing, result |-> "none"]]
    BY <1>3 DEF IOCont
  <2>2. NobodyWaits'
    BY <2>1 DEF NobodyWaits, Waiting, TypeOK
  <2> QED BY <1>3, <2>2 DEF IOCont
<1>4. CASE ContFinalizer
  <2>1. UNCHANGED impossible /\ cur \in Conts
    BY <1>4 DEF ContFinalizer
  <2>2. state' = state
    BY <1>4, <2>1 DEF ContFinalizer, NobodyWaits, Waiting
  <2> QED BY <2>1, <2>2 DEF NobodyWaits, Waiting
<1>5. CASE ContinueMap \/ ContinueFlatMap \/ ContinueHandleErrorWith \/ ContinueAttempt
           \/ ContinueOnCancel \/ ContinueUncancelable \/ ContinueUnmask
  BY <1>5 DEF ContinueMap, ContinueFlatMap, ContinueHandleErrorWith, ContinueAttempt,
              ContinueOnCancel, ContinueUncancelable, ContinueUnmask, Continue, PopCont, NobodyWaits, Waiting
<1>6. CASE ExecuteOnK \/ CancelationLoopK \/ TerminateK
  BY <1>6 DEF ExecuteOnK, CancelationLoopK, TerminateK, PopCont, NobodyWaits, Waiting
<1> QED BY <1>1, <1>2, <1>3, <1>4, <1>5, <1>6 DEF LoopStep

(* get parks the fiber, its finalizer on top, or takes the result.         *)
LEMMA GetWaits ==
    ASSUME TypeOK, NobodyWaits, IOContGet
    PROVE  Waits' /\ impossible' = impossible
<1>1. ~ShouldFinalize /\ UNCHANGED maskVars
  BY DEF IOContGet, Node, Interpret
<1>2. PICK c \in Conts : finalizers' = Append(finalizers, c) /\ Get(c)
  BY DEF IOContGet
<1>3. ~Waiting(c)
  BY DEF NobodyWaits
<1>4. CASE state[c].phase = "Initial"
  <2>1. /\ state' = [state EXCEPT ![c].phase = "Waiting", ![c].wasFinalizing = finalizing]
        /\ suspended' = TRUE /\ impossible' = impossible
    BY <1>2, <1>4 DEF Get
  <2>2. /\ state'[c].wasFinalizing = finalizing
        /\ \A d \in Conts : d # c => state'[d] = state[d]
    BY <2>1 DEF TypeOK, ContState
  <2>3. finalizers' # <<>> /\ Last(finalizers') = c
    BY <1>2 DEF TypeOK, Last
  <2>4. ~ShouldFinalize' /\ finalizing' = finalizing
    BY <1>1 DEF maskVars, ShouldFinalize, IsUnmasked
  <2>5. Parked(c)'
    BY <2>1, <2>2, <2>3, <2>4 DEF Parked
  <2>6. \A d \in Conts : d # c => ~Waiting(d)'
    BY <2>2 DEF NobodyWaits, Waiting
  <2> QED BY <2>1, <2>5, <2>6 DEF Waits
<1>5. CASE state[c].phase # "Initial"
  <2>1. state' = state /\ impossible' = impossible
    BY <1>2, <1>3, <1>5 DEF Get, Waiting
  <2> QED BY <2>1 DEF Waits, NobodyWaits, Waiting
<1> QED BY <1>4, <1>5

(* The run loop makes somebody wait only by parking the fiber.             *)
LEMMA LoopWaits ==
    ASSUME FramesInductive, FinalizersMasked, Waits, LoopStep
    PROVE  Waits' /\ impossible' = impossible
<1>0. TypeOK /\ turn # NoTurn
  BY LoopEffect DEF FramesInductive
<1>1. CASE NobodyWaits
  <2>1. CASE IOContGet
    BY <1>0, <1>1, <2>1, GetWaits
  <2>2. CASE ~IOContGet
    BY <1>0, <1>1, <2>2, QuietSteps DEF Waits, NobodyWaits
  <2> QED BY <2>1, <2>2
<1>2. ASSUME NEW c \in Conts, Waiting(c) PROVE Waits' /\ impossible' = impossible
  <2>1. \A d \in Conts : Waiting(d) => Called(d) /\ masks > 0
    BY <1>0, WaitsInTurn
  <2>2. cur = c /\ masks > 0
    BY <1>2, <2>1 DEF Called
  <2>3. CASE AutoSuspend
    <3>1. /\ UNCHANGED <<finalizing, state, impossible, suspended, cur>>
          /\ scheduled' = scheduled + 1 /\ resumeTag' = "AutoSuspend"
      BY <2>3 DEF AutoSuspend, Schedule, maskVars, ghostVars
    <3>2. scheduled' > 0
      BY <1>0, <3>1 DEF TypeOK
    <3>3. \A d \in Conts : Called(d) => Called(d)'
      BY <3>1, <3>2 DEF Called
    <3>4. \A d \in Conts : Waiting(d)' => Waiting(d)
      BY <3>1 DEF Waiting
    <3> QED BY <2>1, <3>1, <3>3, <3>4 DEF Waits
  <2>4. CASE ContFinalizer
    <3>1. impossible' = impossible /\ state' = [state EXCEPT ![c].phase = "Initial"]
      BY <1>2, <2>2, <2>4 DEF ContFinalizer, ghostVars, Waiting
    <3>2. state'[c].phase = "Initial" /\ \A d \in Conts : d # c => state'[d] = state[d]
      BY <1>0, <3>1 DEF TypeOK, ContState
    <3>3. ASSUME NEW d \in Conts, Waiting(d)' PROVE FALSE
      <4>1. d # c /\ Waiting(d)
        BY <3>2, <3>3 DEF Waiting
      <4> QED BY <2>1, <2>2, <4>1 DEF Called
    <3> QED BY <3>1, <3>3 DEF Waits
  <2> QED BY <2>2, <2>3, <2>4, ContSteps
<1> QED BY <1>1, <1>2 DEF NobodyWaits

(* A fiber that is run was not parked.                                     *)
LEMMA RunWaits ==
    ASSUME FramesInductive, Waits, Run
    PROVE  Waits' /\ impossible' = impossible
<1>1. /\ scheduled = 1 /\ ~suspended /\ UNCHANGED <<state, impossible>> /\ turn = NoTurn
      /\ \A k \in Cancelers : ~IsOwner(k)
  <2>1. scheduled > 0 /\ UNCHANGED <<state, impossible>> /\ turn = NoTurn
    BY DEF Run, ghostVars
  <2> QED BY <2>1 DEF FramesInductive, RunLoopOwnership, AtMostOneOwner
<1>2. ASSUME NEW c \in Conts, Waiting(c)' PROVE Called(c)'
  <2>1. Waiting(c)
    BY <1>1, <1>2 DEF Waiting
  <2>2. Called(c) /\ resumeTag = "AutoSuspend"
    BY <1>1, <2>1 DEF Waits, Parked, Taken, Called
  <2>3. SuspendR
    BY <2>2 DEF Run
  <2>4. cur' = cur /\ turn' = OwnTurn /\ UNCHANGED <<finalizing, suspended>> /\ OwnTurn # NoTurn
    BY <2>2, <2>3 DEF SuspendR, maskVars, OwnTurn, NoTurn
  <2> QED BY <1>1, <2>2, <2>4 DEF Called
<1> QED BY <1>1, <1>2 DEF Waits

(* A canceler takes a parked fiber with the finalizer of get on top, and   *)
(* calls it first.                                                         *)
LEMMA CancelerWaits ==
    ASSUME FramesInductive, FinalizersMasked, Waits, NEW k \in Cancelers,
           Cancel(k) \/ CancelCompleted(k) \/ RunFinalizers(k)
    PROVE  Waits' /\ impossible' = impossible
<1>0. /\ UNCHANGED <<state, impossible>> /\ turn = NoTurn /\ TypeOK
      /\ \A c : Waiting(c)' => Waiting(c)
  BY DEF Cancel, CancelCompleted, RunFinalizers, ghostVars, Waiting, FramesInductive
<1>1. CASE Cancel(k)
  <2>1. UNCHANGED <<finalizing, masks, finalizers, cur, turn, scheduled, resumeTag>> /\ pc[k] = "idle"
    BY <1>1 DEF Cancel, frameVars
  <2>2. CASE suspended /\ IsUnmasked
    <3>1. IsOwner(k)' /\ ~finalizing /\ \A l \in Cancelers : ~IsOwner(l)
      <4>1. outcome = NotCompleted /\ \A l \in Cancelers : ~IsOwner(l)
        BY <2>2 DEF FramesInductive, RunLoopOwnership, AtMostOneOwner, Owned
      <4>2. ~finalizing
        BY <2>2, <4>1 DEF FinalizersMasked, IsUnmasked
      <4>3. pc' = [pc EXCEPT ![k] = "owner"]
        BY <1>1, <2>2 DEF Cancel
      <4> QED BY <1>0, <4>1, <4>2, <4>3 DEF IsOwner, TypeOK
    <3>2. ASSUME NEW c \in Conts, Waiting(c)' PROVE Taken(c)'
      <4>1. Parked(c)
        BY <1>0, <2>2, <3>1, <3>2 DEF Waits, Taken, Called
      <4> QED BY <1>0, <2>1, <3>1, <4>1 DEF Parked, Taken, TypeOK
    <3> QED BY <1>0, <3>2 DEF Waits
  <2>3. CASE ~(suspended /\ IsUnmasked)
    <3>1. suspended' = suspended /\ pc' = [pc EXCEPT ![k] = "joining"]
      BY <1>1, <2>3 DEF Cancel
    <3>2. \A l \in Cancelers : IsOwner(l) => IsOwner(l)'
      BY <1>0, <2>1, <3>1 DEF IsOwner, TypeOK
    <3>3. ASSUME NEW c \in Conts, Parked(c) PROVE Parked(c)'
      BY <1>0, <2>1, <2>3, <3>1, <3>3 DEF Parked, ShouldFinalize, IsUnmasked
    <3>4. ASSUME NEW c \in Conts, Taken(c) PROVE Taken(c)'
      BY <1>0, <2>1, <3>2, <3>4 DEF Taken
    <3>5. ASSUME NEW c \in Conts, Called(c) PROVE Called(c)'
      BY <1>0, <2>1, <3>1, <3>5 DEF Called
    <3> QED BY <1>0, <3>3, <3>4, <3>5 DEF Waits
  <2> QED BY <2>2, <2>3
<1>2. CASE CancelCompleted(k)
  <2>1. ASSUME NEW c \in Conts, Waiting(c) PROVE FALSE
    <3>1. ~Owned /\ outcome # NotCompleted
      BY <1>2 DEF CancelCompleted, FramesInductive, RunLoopOwnership
    <3> QED BY <2>1, <3>1 DEF Waits, Parked, Taken, Called, Owned
  <2> QED BY <1>0, <2>1 DEF Waits
<1>3. CASE RunFinalizers(k)
  <2>1. /\ IsOwner(k) /\ scheduled = 0 /\ ~suspended /\ PrepareForCancelation(k, conts, stack)
    BY <1>3 DEF RunFinalizers, FramesInductive, RunLoopOwnership, AtMostOneOwner, IsOwner
  <2>2. ASSUME NEW c \in Conts, Waiting(c)' PROVE Called(c)'
    <3>1. Taken(c)
      BY <1>0, <2>1, <2>2 DEF Waits, Parked, Called
    <3>2. finalizers # <<>> /\ Last(finalizers) = c /\ ~state[c].wasFinalizing
      BY <3>1 DEF Taken
    <3>3. k # NoCb /\ k # NoTurn
      BY NamesAssumption
    <3>4. finalizing' = TRUE /\ cur' = c /\ turn' = k /\ suspended' = suspended
      BY <2>1, <3>2, <3>3 DEF PrepareForCancelation
    <3> QED BY <1>0, <2>1, <3>2, <3>3, <3>4 DEF Called
  <2> QED BY <1>0, <2>2 DEF Waits
<1> QED BY <1>1, <1>2, <1>3

(* Joining and abandoning change nothing for those that wait.              *)
LEMMA OthersWait ==
    ASSUME FramesInductive, Waits,
           \/ UNCHANGED vars
           \/ \E p \in Cancelers \cup Joiners : Join(p)
           \/ \E j \in Joiners : AbandonJoin(j)
    PROVE  Waits' /\ impossible' = impossible
<1>1. UNCHANGED <<maskVars, frameVars, state, ghostVars, loopVars>>
  BY DEF vars, Join, AbandonJoin
<1>2. \A k \in Cancelers : IsOwner(k) => IsOwner(k)'
  BY DEF vars, doneVars, Join, AbandonJoin, IsOwner, FramesInductive, TypeOK
<1>3. ASSUME NEW c \in Conts
      PROVE  /\ Waiting(c)' => Waiting(c)
             /\ Parked(c) => Parked(c)'
             /\ Taken(c) => Taken(c)'
             /\ Called(c) => Called(c)'
  BY <1>1, <1>2 DEF maskVars, frameVars, loopVars, Waiting, Parked, Taken, Called, ShouldFinalize, IsUnmasked
<1> QED BY <1>1, <1>3 DEF Waits, ghostVars

(* A callback finds the fiber parked on it, or finalizing: it never meets  *)
(* a stage or a request its branches exclude.                              *)
LEMMA CallbackWaits ==
    ASSUME FramesInductive, Waits, NEW c \in Conts, NEW r \in Results, Callback(c, r)
    PROVE  Waits' /\ impossible' = impossible
<1>0. /\ TypeOK /\ state' = [state EXCEPT ![c].phase = "Result", ![c].result = r]
      /\ UNCHANGED <<finalizers, canceled, masks, finalizing, pc, cur, turn>>
  BY DEF Callback, maskVars, doneVars, FramesInductive
<1>1. /\ ~Waiting(c)'
      /\ \A d \in Conts : d # c => state'[d] = state[d]
  BY <1>0 DEF TypeOK, ContState, Waiting
<1>2. CASE suspended /\ Waiting(c)
  <2>1. Parked(c)
    <3>1. \A k \in Cancelers : ~IsOwner(k)
      BY <1>2 DEF FramesInductive, RunLoopOwnership, AtMostOneOwner
    <3> QED BY <1>2, <3>1 DEF Waits, Taken, Called
  <2>2. impossible' = impossible
    BY <1>2, <2>1 DEF Callback, ResumeWith, Parked, Waiting
  <2>3. ASSUME NEW d \in Conts, Waiting(d)' PROVE FALSE
    <3>1. d # c /\ Waiting(d)
      BY <1>1, <2>3 DEF Waiting
    <3>2. Parked(d)
      <4>1. \A k \in Cancelers : ~IsOwner(k)
        BY <1>2 DEF FramesInductive, RunLoopOwnership, AtMostOneOwner
      <4> QED BY <1>2, <3>1, <4>1 DEF Waits, Taken, Called
    <3> QED BY <2>1, <3>1, <3>2 DEF Parked
  <2> QED BY <2>2, <2>3 DEF Waits
<1>3. CASE ~(suspended /\ Waiting(c))
  <2>1. UNCHANGED <<suspended, scheduled, resumeTag>>
    BY <1>3 DEF Callback, WaitOrDrop, Waiting
  <2>2. impossible' = impossible
    <3>1. CASE ~Waiting(c)
      BY <3>1 DEF Callback, Waiting
    <3>2. CASE Waiting(c) /\ ~suspended
      <4>1. Taken(c) \/ Called(c)
        BY <3>2 DEF Waits, Parked
      <4>2. ~(finalizing = state[c].wasFinalizing /\ ~ShouldFinalize)
        BY <1>0, <4>1 DEF Taken, Called, FramesInductive, Requested, TypeOK
      <4> QED BY <3>2, <4>2 DEF Callback, WaitOrDrop, Waiting
    <3> QED BY <1>3, <3>1, <3>2
  <2>3. ASSUME NEW d \in Conts, Waiting(d)'
        PROVE  Parked(d)' \/ Taken(d)' \/ Called(d)'
    <3>1. d # c /\ Waiting(d) /\ state'[d] = state[d]
      BY <1>1, <2>3 DEF Waiting
    <3>2. Parked(d) => Parked(d)'
      BY <1>0, <2>1, <3>1 DEF Parked, ShouldFinalize, IsUnmasked
    <3>3. Taken(d) => Taken(d)'
      BY <1>0, <3>1 DEF Taken, IsOwner
    <3>4. Called(d) => Called(d)'
      BY <1>0, <2>1, <3>1 DEF Called
    <3> QED BY <3>1, <3>2, <3>3, <3>4 DEF Waits
  <2> QED BY <2>2, <2>3 DEF Waits
<1> QED BY <1>2, <1>3

(* Every step keeps what waits parked, taken or called, and takes no       *)
(* impossible branch.                                                      *)
LEMMA NextWaits ==
    ASSUME FramesInductive, FinalizersMasked, Waits, [Next]_vars
    PROVE  Waits' /\ impossible' = impossible
<1>1. ASSUME NEW k \in Cancelers, Cancel(k) \/ CancelCompleted(k) \/ RunFinalizers(k)
      PROVE  Waits' /\ impossible' = impossible
  BY <1>1, CancelerWaits
<1>2. ASSUME NEW c \in Conts, NEW r \in Results, Callback(c, r)
      PROVE  Waits' /\ impossible' = impossible
  BY <1>2, CallbackWaits
<1> QED BY <1>1, <1>2, LoopWaits, RunWaits, OthersWait DEF Next

(* This holds always.                                                      *)
LEMMA WaitsHold ==
    ASSUME ~PollInFinalizers
    PROVE  Spec => [](Waits /\ NothingImpossible)
<1>1. Init => Waits /\ NothingImpossible
  BY DEF Init, Waits, Waiting, NothingImpossible
<1>2. FramesInductive /\ FinalizersMasked /\ Waits /\ NothingImpossible /\ [Next]_vars
        => Waits' /\ NothingImpossible'
  BY NextWaits DEF NothingImpossible
<1> QED BY <1>1, <1>2, FramesHold, FinalizersAreMasked, PTL DEF Spec

(* A ContState is Waiting only while the fiber is suspended in its get,    *)
(* or the cancelation that took the fiber has yet to run the finalizer of  *)
(* that get (IOContGet, the callback of IOCont, resume, _cancel).          *)
THEOREM WaitersAreParked ==
    ASSUME ~PollInFinalizers
    PROVE  Spec => []WaitingIsParked
<1>1. Waits => WaitingIsParked
  BY DEF Waits, Waiting, Parked, Taken, Called, WaitingIsParked
<1> QED BY <1>1, WaitsHold, PTL

(* The branches the code calls impossible are never taken: the illegal     *)
(* state of IOContGet, the busy loop of a callback that finds its own      *)
(* fiber running, the canceled resumption, the result for another          *)
(* finalization stage.                                                     *)
THEOREM ImpossibleIsNever ==
    ASSUME ~PollInFinalizers
    PROVE  Spec => []NothingImpossible
<1> QED BY WaitsHold, PTL

-----------------------------------------------------------------------------
(* The contract of a fiber. Bodies that throw are the only way an          *)
(* exception leaves the run loop.                                          *)
LEMMA NextAlive ==
    ASSUME FramesInductive, FinalizersMasked, Waits, ~ThrowingBodies, [Next]_vars
    PROVE  died' = died
<1> USE DEF ghostVars
<1>1. CASE LoopStep
  <2>1. CASE Finalize \/ AutoSuspend \/ Pure \/ Fail \/ Defer \/ Suspend \/ ExecuteOn \/ ContFinalizer
    BY <2>1 DEF Finalize, AutoSuspend, Pure, Fail, Defer, Suspend, ExecuteOn, ContFinalizer
  <2>2. CASE Map \/ FlatMap \/ HandleErrorWith \/ Attempt \/ OnCancel \/ Canceled \/ UnmaskRunLoop
    BY <2>2 DEF Map, FlatMap, HandleErrorWith, Attempt, PushTransformer, OnCancel, Canceled, UnmaskRunLoop
  <2>3. CASE IOCont \/ Uncancelable
    BY <2>3 DEF IOCont, Uncancelable
  <2>4. CASE IOContGet
    <3>1. PICK c \in Conts : Get(c)
      BY <2>4 DEF IOContGet
    <3>2. turn # NoTurn /\ cur = "any"
      BY <2>4 DEF IOContGet, Node, Interpret, AtTop
    <3>3. ~Waiting(c)
      <4>1. Waiting(c) => Called(c)
        BY <3>2, WaitsInTurn
      <4> QED BY <3>2, <4>1, NamesAssumption DEF Called
    <3> QED BY <3>1, <3>3 DEF Get, Waiting
  <2>5. CASE \/ ContinueMap \/ ContinueFlatMap \/ ContinueHandleErrorWith \/ ContinueAttempt
             \/ ContinueOnCancel \/ ContinueUncancelable \/ ContinueUnmask
             \/ ExecuteOnK \/ CancelationLoopK \/ TerminateK
    BY <2>5 DEF ContinueMap, ContinueFlatMap, ContinueHandleErrorWith, ContinueAttempt,
                ContinueOnCancel, ContinueUncancelable, ContinueUnmask, Continue, PopCont,
                ExecuteOnK, CancelationLoopK, TerminateK
  <2> QED BY <1>1, <2>1, <2>2, <2>3, <2>4, <2>5 DEF LoopStep
<1>2. CASE ~LoopStep
  BY <1>2 DEF Next, vars, Run, Cancel, CancelCompleted, RunFinalizers, Join, AbandonJoin, Callback
<1> QED BY <1>1, <1>2

(* Then no canceler fails, and everyone the end of the fiber answers waits *)
(* for it.                                                                 *)
NobodyFails == ~died /\ \A k \in Cancelers : pc[k] # "failed"

Known(p, cb) == p \in ToSet(callbacks) \cup {cb}

(* Whoever the end of the fiber answers was waiting for it.                *)
LEMMA EndAnswersWaiters ==
    ASSUME FramesInductive, FinalizersMasked, Answers, NobodyFails, EndsFrames
    PROVE  \E oc \in Outcomes, cb \in Slots \cup {NoCb} :
             /\ Complete(oc, cb) /\ (oc = "Canceled" <=> canceled')
             /\ \A p \in Callers : Known(p, cb) => pc[p] \in {"joined", "owner", "awaiting"}
<1>0. /\ Callers = Cancelers \cup Joiners /\ NoCb \notin Callers
      /\ DOMAIN callbacks = 1..Len(callbacks)
  BY NamesAssumption DEF FramesInductive, TypeOK, Callers
<1>1. PICK oc \in Outcomes, cb \in Slots \cup {NoCb} :
          Complete(oc, cb) /\ EndsFor(cb) /\ (oc = "Canceled" <=> canceled')
  BY DEF EndsFrames
<1>2. ASSUME NEW p \in Callers, p \in ToSet(callbacks) PROVE pc[p] = "joined"
  BY <1>0, <1>2 DEF Answers, Listening, ToSet
<1>3. ASSUME NEW p \in Callers, p = cb PROVE pc[p] \in {"owner", "awaiting"}
  <2>1. CASE cb = NoCb \/ pc[cb] = "owner"
    BY <1>0, <1>3, <2>1
  <2>2. CASE /\ finalizing /\ conts # <<>> /\ Last(conts) = "CancelationLoopK" /\ ~Resuming
             /\ cb = IF stack = <<>> THEN NoCb ELSE Last(stack)
    <3>1. cb \in Cancelers /\ pc[cb] \in {"awaiting", "failed"}
      BY <1>0, <1>3, <2>2, LastIsAwaiting DEF Answers
    <3> QED BY <1>3, <3>1 DEF NobodyFails
  <2> QED BY <1>1, <2>1, <2>2 DEF EndsFor
<1> QED BY <1>1, <1>2, <1>3 DEF Known

(* No canceler is left with an exception.                                  *)
LEMMA NextNobodyFails ==
    ASSUME FramesInductive, FinalizersMasked, Answers, Waits, NobodyFails, ~ThrowingBodies, [Next]_vars
    PROVE  NobodyFails'
<1>0. ~died' /\ DOMAIN pc = Callers /\ Cancelers \subseteq Callers /\ Joiners \subseteq Callers
      /\ Cancelers \cap Joiners = {}
  BY NextAlive, NamesAssumption DEF NobodyFails, FramesInductive, TypeOK, Callers
<1>1. FrameStep
  BY NextFrames
<1>2. CASE StartsFinalizing
  BY <1>0, <1>2 DEF StartsFinalizing, NobodyFails
<1>3. CASE EndsFrames
  BY <1>0, <1>3 DEF EndsFrames, Complete, NobodyFails
<1>4. CASE \/ KeepsFrames \/ LeavesValue \/ TakesValue \/ StartsProgram
           \/ \E tag \in Continuations : PushesFrame(tag) \/ PopsFrame(tag)
  <2>1. outcome' = outcome /\ finalizing' = finalizing
    BY <1>4 DEF KeepsFrames, LeavesValue, TakesValue, StartsProgram, PushesFrame, PopsFrame
  <2>2. CallerStep
    BY <2>1, NextCallers DEF Answers
  <2>3. ASSUME NEW p \in Callers, NEW from, NEW to, Moves(p, from, to), to # "failed"
        PROVE  NobodyFails'
    BY <1>0, <2>3 DEF Moves, NobodyFails
  <2>4. CASE AsksNothing
    BY <1>0, <2>4 DEF AsksNothing, SameCallers, NobodyFails
  <2>5. CASE Asks
    <3>1. PICK k \in Cancelers, r \in {"owner", "joining"} : Moves(k, {"idle"}, r)
      BY <2>5 DEF Asks
    <3>2. r # "failed"
      OBVIOUS
    <3> QED BY <1>0, <2>3, <3>1, <3>2
  <2>6. CASE IsAnswered \/ Registers \/ Abandons
    BY <1>0, <2>3, <2>6 DEF IsAnswered, Registers, Abandons
  <2> QED BY <1>0, <2>2, <2>4, <2>5, <2>6 DEF CallerStep, Fails
<1> QED BY <1>1, <1>2, <1>3, <1>4 DEF FrameStep

(* What the contract sees of those who wait.                               *)
View(x) == IF x \in {"owner", "awaiting", "joining", "joined"} THEN "waiting" ELSE x

Seen == [p \in Cancelers \cup Joiners |->
            IF pc[p] \in {"owner", "awaiting", "joining", "joined"}
            THEN "waiting" ELSE pc[p]]

(* A step of one caller, as the contract sees it.                          *)
LEMMA SeenMoves ==
    ASSUME TypeOK, NEW p \in Callers, NEW from, NEW to, Moves(p, from, to)
    PROVE  Seen' = [Seen EXCEPT ![p] = View(to)] /\ Seen[p] = View(pc[p]) /\ pc[p] \in from
<1>0. DOMAIN pc = Callers /\ Callers = Cancelers \cup Joiners
  BY DEF TypeOK, Callers
<1>1. pc'[p] = to /\ \A q \in Callers : q # p => pc'[q] = pc[q]
  BY <1>0 DEF Moves
<1>2. /\ Seen = [q \in Callers |-> View(pc[q])]
      /\ Seen' = [q \in Callers |-> View(pc'[q])]
  BY <1>0 DEF Seen, View
<1>3. ASSUME NEW q \in Callers PROVE View(pc'[q]) = [Seen EXCEPT ![p] = View(to)][q]
  <2>1. CASE q = p
    BY <1>1, <1>2, <2>1
  <2>2. CASE q # p
    BY <1>1, <1>2, <2>2
  <2> QED BY <2>1, <2>2
<1>4. [Seen EXCEPT ![p] = View(to)] = [q \in Callers |-> [Seen EXCEPT ![p] = View(to)][q]]
  BY <1>2
<1>5. Seen' = [Seen EXCEPT ![p] = View(to)]
  BY <1>2, <1>3, <1>4
<1> QED BY <1>2, <1>5 DEF Moves

(* The end of the fiber is the Complete of the contract.                   *)
LEMMA EndIsComplete ==
    ASSUME FramesInductive, FramesInductive', FinalizersMasked, Answers, NobodyFails, EndsFrames,
           canceled => canceled'
    PROVE  Contract!Complete
<1>0. DOMAIN pc = Callers /\ Callers = Cancelers \cup Joiners /\ canceled \in BOOLEAN /\ canceled' \in BOOLEAN
  BY DEF FramesInductive, TypeOK, Callers
<1>1. PICK oc \in Outcomes, cb \in Slots \cup {NoCb} :
             /\ Complete(oc, cb) /\ (oc = "Canceled" <=> canceled')
             /\ \A p \in Callers : Known(p, cb) => pc[p] \in {"joined", "owner", "awaiting"}
  BY EndAnswersWaiters
<1>2. outcome = NotCompleted /\ outcome' = oc
      /\ pc' = [p \in Callers |-> IF Known(p, cb) THEN "done" ELSE pc[p]]
  BY <1>0, <1>1 DEF EndsFrames, Complete, Known
<1> DEFINE known == {p \in Callers : Known(p, cb)}
<1>3. known \in SUBSET {p \in Callers : Seen[p] = "waiting"}
  BY <1>0, <1>1 DEF Seen
<1>4. Seen' = [p \in Callers |-> IF p \in known THEN "done" ELSE Seen[p]]
  <2>1. Seen' = [p \in Callers |-> View(pc'[p])] /\ Seen = [p \in Callers |-> View(pc[p])]
    BY <1>0 DEF Seen, View
  <2>2. \A p \in Callers : View(pc'[p]) = IF p \in known THEN "done" ELSE View(pc[p])
    BY <1>2 DEF View
  <2> QED BY <2>1, <2>2
<1>5. canceled' \in {canceled, TRUE}
  BY <1>0
<1>6. Contract!Callers = Callers /\ Contract!Outcomes = Outcomes /\ Contract!NotCompleted = NotCompleted
  BY DEF Contract!Callers, Callers, Contract!Outcomes, Outcomes, Contract!NotCompleted, NotCompleted
<1> HIDE DEF known
<1>7. \E kn \in SUBSET {p \in Callers : Seen[p] = "waiting"} :
        Seen' = [p \in Callers |-> IF p \in kn THEN "done" ELSE Seen[p]]
  BY <1>3, <1>4
<1> QED BY <1>1, <1>2, <1>5, <1>6, <1>7 DEF Contract!Complete, Seen

(* The steps of the callers are calls, answers and abandonments.           *)
LEMMA CallerContract ==
    ASSUME FramesInductive, CallerStep, ~died', ~died, outcome' = outcome
    PROVE  [Contract!Next]_Contract!vars
<1>0. /\ TypeOK /\ canceled \in BOOLEAN /\ Cancelers \cap Joiners = {}
      /\ Cancelers \subseteq Callers /\ Joiners \subseteq Callers
  BY NamesAssumption DEF FramesInductive, TypeOK, Callers
<1>1. Contract!Callers = Callers /\ Contract!NotCompleted = NotCompleted
  BY DEF Contract!Callers, Callers, Contract!NotCompleted, NotCompleted
<1>2. ASSUME canceled' = canceled, Seen' = Seen PROVE [Contract!Next]_Contract!vars
  BY <1>2 DEF Contract!vars, Seen
<1>3. CASE AsksNothing
  <2>1. Seen' = Seen
    BY <1>3 DEF AsksNothing, SameCallers, Seen
  <2>2. CASE canceled' = TRUE /\ outcome = NotCompleted
    <3>1. Contract!SelfCancel
      BY <1>1, <2>1, <2>2 DEF Contract!SelfCancel, Seen
    <3> QED BY <3>1 DEF Contract!Next
  <2> QED BY <1>2, <1>3, <2>1, <2>2 DEF AsksNothing
<1>4. CASE Asks
  <2>1. PICK k \in Cancelers, r \in {"owner", "joining"} : Moves(k, {"idle"}, r)
    BY <1>4 DEF Asks
  <2>2. Seen' = [Seen EXCEPT ![k] = "waiting"] /\ Seen[k] = "idle" /\ k \in Callers
    <3>1. Seen' = [Seen EXCEPT ![k] = View(r)] /\ Seen[k] = View(pc[k]) /\ pc[k] \in {"idle"}
      BY <1>0, <2>1, SeenMoves
    <3> QED BY <1>0, <3>1 DEF View
  <2>3. Contract!Call(k)
    BY <1>0, <1>4, <2>2 DEF Contract!Call, Seen, Asks
  <2> QED BY <1>1, <2>2, <2>3 DEF Contract!Next
<1>5. CASE IsAnswered
  <2>1. PICK p \in Callers : Moves(p, {"idle", "joining"}, "done")
    BY <1>5 DEF IsAnswered
  <2>2. /\ Seen' = [Seen EXCEPT ![p] = "done"]
        /\ (Seen[p] = "idle" \/ Seen[p] = "waiting")
    <3>1. Seen' = [Seen EXCEPT ![p] = View("done")] /\ Seen[p] = View(pc[p]) /\ pc[p] \in {"idle", "joining"}
      BY <1>0, <2>1, SeenMoves
    <3> QED BY <3>1 DEF View
  <2>3. Contract!CallCompleted(p) \/ Contract!Answer(p)
    BY <1>1, <1>5, <2>2 DEF IsAnswered, Contract!CallCompleted, Contract!Answer, Seen
  <2> QED BY <1>1, <2>3 DEF Contract!Next
<1>6. CASE Registers
  <2>1. PICK p \in Callers : Moves(p, {"idle", "joining"}, "joined") /\ (pc[p] = "idle" => p \in Joiners)
    BY <1>6 DEF Registers
  <2>2. /\ Seen' = [Seen EXCEPT ![p] = "waiting"] /\ Seen[p] = View(pc[p]) /\ pc[p] \in {"idle", "joining"}
    <3>1. Seen' = [Seen EXCEPT ![p] = View("joined")] /\ Seen[p] = View(pc[p]) /\ pc[p] \in {"idle", "joining"}
      BY <1>0, <2>1, SeenMoves
    <3> QED BY <3>1 DEF View
  <2>3. CASE pc[p] = "idle"
    <3>1. Seen[p] = "idle" /\ p \notin Cancelers
      BY <1>0, <2>1, <2>2, <2>3 DEF View
    <3>2. Contract!Call(p)
      BY <1>0, <1>6, <2>2, <3>1 DEF Registers, Contract!Call, Seen
    <3> QED BY <1>1, <3>2 DEF Contract!Next
  <2>4. CASE pc[p] = "joining"
    <3>1. Seen[p] = "waiting"
      BY <2>2, <2>4 DEF View
    <3>2. Seen' = Seen
      BY <2>2, <3>1 DEF Seen
    <3> QED BY <1>2, <1>6, <3>2 DEF Registers
  <2> QED BY <2>2, <2>3, <2>4
<1>7. CASE Abandons
  <2>1. PICK j \in Joiners : Moves(j, {"joined"}, "abandoned")
    BY <1>7 DEF Abandons
  <2>2. Seen' = [Seen EXCEPT ![j] = "abandoned"] /\ Seen[j] = "waiting"
    <3>1. Seen' = [Seen EXCEPT ![j] = View("abandoned")] /\ Seen[j] = View(pc[j]) /\ pc[j] \in {"joined"}
      BY <1>0, <2>1, SeenMoves
    <3> QED BY <3>1 DEF View
  <2>3. Contract!Abandon(j)
    BY <1>7, <2>2 DEF Abandons, Contract!Abandon, Seen
  <2> QED BY <2>3 DEF Contract!Next
<1> QED BY <1>3, <1>4, <1>5, <1>6, <1>7 DEF CallerStep, Fails



(* A request is never withdrawn.                                           *)
LEMMA CanceledStays ==
    ASSUME [Next]_vars, canceled
    PROVE  canceled'
<1>1. CASE LoopStep
  BY <1>1, LoopCancels
<1>2. CASE Run
  BY <1>2 DEF Run, ExecR, SuspendR, AsyncContinueCanceledR, AsyncContinueR, maskVars
<1>3. CASE ~LoopStep /\ ~Run
  BY <1>3 DEF Next, vars, Cancel, CancelCompleted, RunFinalizers, Join, AbandonJoin, Callback, maskVars
<1> QED BY <1>1, <1>2, <1>3

(* Every step is one of the contract, or one it does not see.              *)
LEMMA NextContract ==
    ASSUME FramesInductive, FramesInductive', FinalizersMasked, Answers, NobodyFails, NobodyFails',
           [Next]_vars
    PROVE  [Contract!Next]_Contract!vars
<1>0. canceled' \in BOOLEAN
  BY DEF FramesInductive, TypeOK
<1>1. FrameStep
  BY NextFrames
<1>2. CASE StartsFinalizing
  <2>1. Seen' = Seen
    <3>1. CASE pc' = pc
      BY <3>1 DEF Seen
    <3>2. ASSUME NEW k \in Cancelers, pc[k] = "owner", pc' = [pc EXCEPT ![k] = "awaiting"]
          PROVE  Seen' = Seen
      BY <3>2 DEF Seen, FramesInductive, TypeOK
    <3> QED BY <1>2, <3>1, <3>2 DEF StartsFinalizing
  <2>2. outcome = NotCompleted /\ outcome' = outcome /\ canceled' = TRUE
    BY <1>0, <1>2 DEF StartsFinalizing
  <2>3. Contract!SelfCancel
    BY <2>1, <2>2 DEF Contract!SelfCancel, Contract!NotCompleted, NotCompleted, Seen
  <2> QED BY <2>3 DEF Contract!Next
<1>3. CASE EndsFrames
  BY <1>3, EndIsComplete, CanceledStays DEF Contract!Next
<1>4. CASE \/ KeepsFrames \/ LeavesValue \/ TakesValue \/ StartsProgram
           \/ \E tag \in Continuations : PushesFrame(tag) \/ PopsFrame(tag)
  <2>1. outcome' = outcome /\ finalizing' = finalizing
    BY <1>4 DEF KeepsFrames, LeavesValue, TakesValue, StartsProgram, PushesFrame, PopsFrame
  <2>2. CallerStep
    BY <2>1, NextCallers DEF Answers
  <2> QED BY <2>1, <2>2, CallerContract DEF NobodyFails
<1> QED BY <1>1, <1>2, <1>3, <1>4 DEF FrameStep

(* The run loop, with its masks, finalizers, suspensions and callbacks,    *)
(* implements the contract of a fiber (module Fiber), if no body throws    *)
(* and no finalizer polls a region around it: every step is a call, a      *)
(* request, an answer, an abandoned join or the end, or is invisible to    *)
(* callers.                                                                *)
THEOREM FiberKeepsContract ==
    ASSUME ~PollInFinalizers, ~ThrowingBodies
    PROVE  Spec => ImplementsContract
<1>1. Init => Contract!Init
  BY DEF Init, Contract!Init, Contract!NotCompleted, NotCompleted, Contract!Callers
<1>2. Init => NobodyFails
  BY DEF Init, NobodyFails
<1>3. FramesInductive /\ FinalizersMasked /\ Answers /\ Waits /\ NobodyFails /\ [Next]_vars => NobodyFails'
  BY NextNobodyFails
<1>4. FramesInductive /\ FramesInductive' /\ FinalizersMasked /\ Answers /\ NobodyFails /\ NobodyFails'
        /\ [Next]_vars => [Contract!Next]_Contract!vars
  BY NextContract
<1> QED
  BY <1>1, <1>2, <1>3, <1>4, FramesHold, FinalizersAreMasked, AnswersHold, WaitsHold, PTL
     DEF Spec, ImplementsContract, Contract!Spec

=============================================================================
