-------------------------- MODULE SemaphoreProofs --------------------------
(***************************************************************************)
(* Proofs about Semaphore, for any number of fibers and permits: permits   *)
(* are neither made up nor lost, and are handed out in the order of the    *)
(* queue. The facts about Deferreds are those of DeferredProofs.           *)
(***************************************************************************)
EXTENDS Semaphore, DataProofs, FiniteSetTheorems

DP == INSTANCE DeferredProofs WITH Deferreds <- Fibers, Interruptible <- {}

(* Where the fibers are, without the types of the permits and the queue.   *)
Places ==
    /\ permits \in Nat
    /\ queue \in Seq(Fibers)
    /\ pc \in [Fibers -> PCs]
    /\ heir \in [Fibers -> Fibers]

(* A fiber only ever waits for its own Deferred, and one that has not      *)
(* started has nothing that could be complete.                             *)
OwnDeferreds ==
    \A f \in Fibers :
        /\ get[f].on \in {f, D!Nowhere}
        /\ pc[f] = "idle" => ~D!IsSet(f)

(* Until its Deferred is completed, the fiber a release popped still waits *)
(* or was canceled, and no other release popped it too.                    *)
HeirsWait ==
    \A f \in Fibers : pc[f] = "handing" =>
        /\ pc[heir[f]] \in {"awaiting", "canceled"}
        /\ ~D!IsSet(heir[f])
        /\ \A g \in Fibers : pc[g] = "handing" /\ heir[g] = heir[f] => g = f

Inv ==
    /\ Places
    /\ DP!Inv
    /\ DP!ResultsAreSet
    /\ OwnDeferreds
    /\ HeirsWait
    /\ QueueIsExact

-----------------------------------------------------------------------------
(* The Deferreds of the semaphore and those of DeferredProofs are the same.*)
LEMMA SameState ==
    /\ D!TypeOK <=> DP!TypeOK
    /\ D!Init <=> DP!Init
    /\ \A d : D!IsSet(d) <=> DP!IsSet(d)
    /\ D!NotGetting = DP!NotGetting /\ D!Nowhere = DP!Nowhere
BY DEF D!TypeOK, D!Init, D!IsSet, D!NotGetting, D!Nowhere, D!NoValue, D!GetPCs,
       D!NobodyToNotify,
       DP!TypeOK, DP!Init, DP!IsSet, DP!NotGetting, DP!Nowhere, DP!NoValue, DP!GetPCs,
       DP!NobodyToNotify

LEMMA SameSteps ==
    ASSUME NEW f
    PROVE  /\ \A d : D!StartGet(f, d) <=> DP!StartGet(f, d)
           /\ \A d : D!Complete(f, d) <=> DP!Complete(f, d)
           /\ D!GetStep(f) <=> DP!GetStep(f)
           /\ D!CancelGet(f) <=> DP!CancelGet(f)
           /\ D!NotifyReader(f) <=> DP!NotifyReader(f)
<1> USE DEF D!At, D!Goto, D!IsSet, D!NoValue, D!NotGetting, D!Nowhere, D!Notifying,
            D!ToNotify, D!NobodyToNotify,
            DP!At, DP!Goto, DP!IsSet, DP!NoValue, DP!NotGetting, DP!Nowhere, DP!Notifying,
            DP!ToNotify, DP!NobodyToNotify
<1>1. \A d : D!StartGet(f, d) <=> DP!StartGet(f, d)
  BY DEF D!StartGet, DP!StartGet
<1>2. \A d : D!Complete(f, d) <=> DP!Complete(f, d)
  BY DEF D!Complete, DP!Complete
<1>3. D!GetStep(f) <=> DP!GetStep(f)
  <2>1. \A s : D!Without(s, f) = DP!Without(s, f)
    BY DEF D!Without, D!ToSet, D!RemoveAt, DP!Without, DP!ToSet, DP!RemoveAt
  <2>2. D!DeleteReader(f) <=> DP!DeleteReader(f)
    BY <2>1 DEF D!DeleteReader, DP!DeleteReader
  <2>3. /\ D!ReadState(f) <=> DP!ReadState(f)
        /\ D!AddReader(f) <=> DP!AddReader(f)
        /\ D!Await(f) <=> DP!Await(f)
        /\ D!Resume(f) <=> DP!Resume(f)
    BY DEF D!ReadState, D!AddReader, D!Await, D!Resume,
           DP!ReadState, DP!AddReader, DP!Await, DP!Resume
  <2> QED BY <2>2, <2>3 DEF D!GetStep, DP!GetStep
<1>4. D!CancelGet(f) <=> DP!CancelGet(f)
  BY DEF D!CancelGet, DP!CancelGet
<1>5. D!NotifyReader(f) <=> DP!NotifyReader(f)
  BY DEF D!NotifyReader, DP!NotifyReader
<1> QED BY <1>1, <1>2, <1>3, <1>4, <1>5

(* No fiber has the name that the model uses for an empty cell.            *)
LEMMA Names == DP!NoValue \notin Fibers /\ DP!Nowhere \notin Fibers
BY SemaphoreAssumption DEF DP!NoValue, DP!Nowhere

(* What the steps of a get(), and callbacks, leave alone.                  *)
DeferredsOK == DP!Inv /\ DP!ResultsAreSet

(* Nothing happens to them while the Ref is updated.                       *)
LEMMA SameDeferreds ==
    ASSUME DeferredsOK, UNCHANGED deferredVars
    PROVE  DeferredsOK'
BY DEF DeferredsOK, deferredVars, DP!Inv, DP!TypeOK, DP!SetCellsHaveNoReaders,
       DP!NotifiersSetTheCell, DP!ReadersAreParked, DP!NoReaderForgotten,
       DP!IsSet, DP!Notifying, DP!Parked, DP!WillHear, DP!ToNotifyOf, DP!ResultsAreSet

(* The steps of a get(), cancelations and callbacks set no cell.           *)
LEMMA QuietDeferreds ==
    ASSUME DeferredsOK, NEW f \in Fibers,
           D!GetStep(f) \/ D!CancelGet(f) \/ D!NotifyReader(f)
    PROVE  /\ DeferredsOK'
           /\ \A g \in Fibers : /\ cell'[g].value = cell[g].value
                               /\ get'[g].on = get[g].on
<1>1. DP!GetStep(f) \/ DP!CancelGet(f) \/ DP!NotifyReader(f)
  BY SameSteps
<1>2. DP!ClientStep(f)
  BY <1>1 DEF DP!ClientStep
<1>3. DP!TypeOK
  BY DEF DeferredsOK, DP!Inv
<1>4. DeferredsOK'
  BY <1>2, Names, DP!ClientInv, DP!ResultsInv DEF DeferredsOK
<1>5. \A g \in Fibers : cell'[g].value = cell[g].value
  BY <1>1, <1>3, Names, DP!ValuesKept
<1>6. \A g \in Fibers : DP!Moves(g)
  BY <1>1, Names, DP!GetMoves DEF DeferredsOK
<1> QED BY <1>4, <1>5, <1>6 DEF DP!Moves

(* A fiber begins to wait for its own Deferred.                            *)
LEMMA StartDeferred ==
    ASSUME DeferredsOK, NEW f \in Fibers, D!StartGet(f, f)
    PROVE  /\ DeferredsOK'
           /\ \A g \in Fibers : /\ cell'[g].value = cell[g].value
                               /\ get'[g].on = IF g = f THEN f ELSE get[g].on
<1>1. DP!ClientStep(f)
  BY SameSteps DEF DP!ClientStep
<1>2. DeferredsOK'
  BY <1>1, Names, DP!ClientInv, DP!ResultsInv DEF DeferredsOK
<1>3. \A g \in Fibers : cell'[g].value = cell[g].value
  BY DEF D!StartGet
<1>4. \A g \in Fibers : get'[g].on = IF g = f THEN f ELSE get[g].on
  BY DEF D!StartGet, DeferredsOK, DP!Inv, DP!TypeOK
<1> QED BY <1>2, <1>3, <1>4

(* The Deferred of a fiber that waits is completed.                        *)
LEMMA CompleteDeferred ==
    ASSUME DeferredsOK, NEW f \in Fibers, NEW d \in Fibers, ~D!IsSet(d), D!Complete(f, d)
    PROVE  /\ DeferredsOK'
           /\ UNCHANGED get
           /\ cell'[d].value # D!NoValue
           /\ \A g \in Fibers \ {d} : cell'[g].value = cell[g].value
<1>1. DP!Complete(f, d) /\ DP!ClientStep(f)
  BY SameSteps DEF DP!ClientStep
<1>2. DeferredsOK'
  BY <1>1, Names, DP!ClientInv, DP!ResultsInv DEF DeferredsOK
<1>3. DP!TypeOK
  BY DEF DeferredsOK, DP!Inv
<1> QED BY <1>1, <1>2, <1>3, Names, DP!CompleteWrites DEF DP!NoValue, D!NoValue

-----------------------------------------------------------------------------
(* The invariant, action by action.                                        *)

(* A step inside a get(), or a callback: nothing of the semaphore changes, *)
(* and no Deferred is completed.                                           *)
LEMMA QuietInv ==
    ASSUME Inv, NEW f \in Fibers,
           D!GetStep(f) \/ D!CancelGet(f) \/ D!NotifyReader(f),
           UNCHANGED semVars
    PROVE  Inv'
<1>1. /\ DeferredsOK'
      /\ \A g \in Fibers : cell'[g].value = cell[g].value /\ get'[g].on = get[g].on
  BY QuietDeferreds DEF Inv, DeferredsOK
<1>2. Places'
  BY DEF Inv, Places, semVars
<1>3. OwnDeferreds'
  BY <1>1 DEF Inv, OwnDeferreds, D!IsSet, semVars
<1>4. HeirsWait'
  BY <1>1 DEF Inv, HeirsWait, Places, D!IsSet, semVars
<1>5. QueueIsExact'
  BY <1>1 DEF Inv, QueueIsExact, Chosen, D!IsSet, semVars
<1> QED BY <1>1, <1>2, <1>3, <1>4, <1>5 DEF Inv, DeferredsOK

(* A fiber goes on where nobody waits and nobody is chosen.                *)
LEMMA MoveInv ==
    ASSUME Inv, NEW f \in Fibers, NEW where \in PCs,
           pc[f] \notin {"idle", "awaiting", "handing", "canceled"},
           where \notin {"idle", "awaiting", "handing"},
           pc' = [pc EXCEPT ![f] = where],
           queue' = queue, permits' \in Nat, UNCHANGED <<heir, deferredVars>>
    PROVE  Inv'
<1>1. DeferredsOK' /\ UNCHANGED <<cell, get>>
  BY SameDeferreds DEF Inv, DeferredsOK, deferredVars
<1>2. \A g \in Fibers : pc'[g] = IF g = f THEN where ELSE pc[g]
  BY DEF Inv, Places
<1>3. Places'
  BY DEF Inv, Places
<1>4. OwnDeferreds'
  BY <1>1, <1>2 DEF Inv, OwnDeferreds, D!IsSet
<1>5. HeirsWait'
  BY <1>1, <1>2 DEF Inv, HeirsWait, Places, D!IsSet
<1>6. QueueIsExact'
  BY <1>1, <1>2 DEF Inv, QueueIsExact, Chosen, D!IsSet
<1> QED BY <1>1, <1>3, <1>4, <1>5, <1>6 DEF Inv, DeferredsOK

(* A permit is taken, or the fiber joins the queue.                        *)
LEMMA AcquireInv ==
    ASSUME Inv, NEW f \in Fibers, Acquire(f)
    PROVE  Inv'
<1>1. ~D!IsSet(f) /\ ~Chosen(f) /\ f \notin ToSet(queue) /\ pc[f] = "idle"
  BY DEF Acquire, Inv, OwnDeferreds, HeirsWait, QueueIsExact, Chosen
<1>2. CASE permits = 0
  <2>1. /\ queue' = Append(queue, f)
        /\ pc' = [pc EXCEPT ![f] = "awaiting"]
        /\ D!StartGet(f, f)
        /\ UNCHANGED <<permits, heir>>
    BY <1>2 DEF Acquire
  <2>2. /\ DeferredsOK'
        /\ \A g \in Fibers : /\ cell'[g].value = cell[g].value
                            /\ get'[g].on = IF g = f THEN f ELSE get[g].on
    BY <2>1, StartDeferred DEF Inv, DeferredsOK
  <2>3. /\ queue' \in Seq(Fibers)
        /\ ToSet(queue') = ToSet(queue) \cup {f}
        /\ IsInjective(queue')
    BY <1>1, <2>1, AppendFacts DEF Inv, Places, QueueIsExact
  <2>4. \A g \in Fibers : pc'[g] = IF g = f THEN "awaiting" ELSE pc[g]
    BY <2>1 DEF Inv, Places
  <2>5. Places'
    BY <2>1, <2>3 DEF Inv, Places, PCs
  <2>6. OwnDeferreds'
    BY <2>2, <2>4 DEF Inv, OwnDeferreds, D!IsSet
  <2>7. HeirsWait'
    BY <2>1, <2>2, <2>4 DEF Inv, HeirsWait, Places, D!IsSet
  <2>8. QueueIsExact'
    BY <1>1, <2>1, <2>2, <2>3, <2>4 DEF Inv, QueueIsExact, Chosen, D!IsSet
  <2> QED BY <2>2, <2>5, <2>6, <2>7, <2>8 DEF Inv, DeferredsOK
<1>3. CASE permits # 0
  <2>1. /\ pc' = [pc EXCEPT ![f] = "critical"]
        /\ permits' = permits - 1 /\ permits' \in Nat
        /\ UNCHANGED <<queue, heir, deferredVars>>
    BY <1>3 DEF Acquire, Inv, Places
  <2>2. DeferredsOK' /\ UNCHANGED <<cell, get>>
    BY <2>1, SameDeferreds DEF Inv, DeferredsOK, deferredVars
  <2>3. \A g \in Fibers : pc'[g] = IF g = f THEN "critical" ELSE pc[g]
    BY <2>1 DEF Inv, Places
  <2>4. Places'
    BY <2>1 DEF Inv, Places, PCs
  <2>5. OwnDeferreds'
    BY <2>2, <2>3 DEF Inv, OwnDeferreds, D!IsSet
  <2>6. HeirsWait'
    BY <1>1, <2>1, <2>2, <2>3 DEF Inv, HeirsWait, Places, D!IsSet
  <2>7. QueueIsExact'
    BY <1>1, <2>1, <2>2, <2>3 DEF Inv, QueueIsExact, Chosen, D!IsSet
  <2> QED BY <2>2, <2>4, <2>5, <2>6, <2>7 DEF Inv, DeferredsOK
<1> QED BY <1>2, <1>3

(* A fiber only gets past its Deferred when that is set.                   *)
LEMMA AcquiredIsSet ==
    ASSUME Inv, NEW f \in Fibers, Acquired(f)
    PROVE  D!IsSet(f)
<1>1. get[f].pc = "got" /\ get[f] # D!NotGetting
  BY DEF Acquired, D!At, D!NotGetting
<1>2. get[f].pc \in DP!ResultPCs
  BY <1>1 DEF DP!ResultPCs
<1>3. get[f].on \in Fibers
  BY <1>1, SameState DEF Inv, DP!Inv, DP!TypeOK
<1>4. get[f].on = f
  BY <1>3, Names DEF Inv, OwnDeferreds, D!Nowhere, DP!Nowhere
<1> QED BY <1>2, <1>4, SameState DEF Inv, DP!ResultsAreSet

(* The Deferred of the fiber is complete: it has its permit.               *)
LEMMA AcquiredInv ==
    ASSUME Inv, NEW f \in Fibers, Acquired(f)
    PROVE  Inv'
<1>1. D!IsSet(f)
  BY AcquiredIsSet
<1>2. /\ pc[f] = "awaiting" /\ f \notin ToSet(queue)
      /\ UNCHANGED <<permits, queue, heir, cell, get>>
  BY <1>1 DEF Acquired, Inv, QueueIsExact, deferredVars
<1>3. \A g \in Fibers : pc'[g] = IF g = f THEN "critical" ELSE pc[g]
  BY DEF Acquired, Inv, Places
<1>4. DeferredsOK'
  BY SameDeferreds DEF Acquired, Inv, DeferredsOK
<1>5. Places'
  BY DEF Acquired, Inv, Places, PCs
<1>6. OwnDeferreds'
  BY <1>2, <1>3 DEF Inv, OwnDeferreds, D!IsSet
<1>7. HeirsWait'
  BY <1>1, <1>2, <1>3 DEF Inv, HeirsWait, Places, D!IsSet
<1>8. QueueIsExact'
  BY <1>1, <1>2, <1>3 DEF Inv, QueueIsExact, Chosen, D!IsSet
<1> QED BY <1>4, <1>5, <1>6, <1>7, <1>8 DEF Inv, DeferredsOK

(* A canceled fiber leaves the queue, if no release popped it before.      *)
LEMMA LeaveQueueInv ==
    ASSUME Inv, NEW f \in Fibers, LeaveQueue(f)
    PROVE  Inv'
<1>1. /\ queue' \in Seq(Fibers)
      /\ ToSet(queue') = ToSet(queue) \ {f}
      /\ IsInjective(queue')
  BY WithoutFacts DEF LeaveQueue, Inv, Places, QueueIsExact
<1>2. \A g \in Fibers : pc'[g] = IF g = f THEN "canceled" ELSE pc[g]
  BY DEF LeaveQueue, Inv, Places
<1>3. pc[f] = "awaiting" /\ UNCHANGED <<permits, heir, cell, get>>
  BY DEF LeaveQueue, deferredVars
<1>4. DeferredsOK'
  BY SameDeferreds DEF LeaveQueue, Inv, DeferredsOK
<1>5. Places'
  BY <1>1 DEF LeaveQueue, Inv, Places, PCs
<1>6. OwnDeferreds'
  BY <1>2, <1>3 DEF Inv, OwnDeferreds, D!IsSet
<1>7. HeirsWait'
  BY <1>2, <1>3 DEF Inv, HeirsWait, Places, D!IsSet
<1>8. QueueIsExact'
  BY <1>1, <1>2, <1>3 DEF Inv, QueueIsExact, Chosen, D!IsSet
<1> QED BY <1>4, <1>5, <1>6, <1>7, <1>8 DEF Inv, DeferredsOK

(* A release pops the first waiter, or returns the permit.                 *)
LEMMA ReleaseInv ==
    ASSUME Inv, NEW f \in Fibers, Release(f)
    PROVE  Inv'
<1>1. CASE queue # <<>>
  <2> DEFINE h == Head(queue)
  <2>1. /\ h \in Fibers /\ queue' \in Seq(Fibers) /\ IsInjective(queue')
        /\ ToSet(queue) = {h} \cup ToSet(queue') /\ h \notin ToSet(queue')
        /\ h \in ToSet(queue)
    <3>1. queue \in Seq(Fibers) /\ IsInjective(queue) /\ queue' = Tail(queue)
      BY <1>1 DEF Release, Inv, Places, QueueIsExact
    <3> QED BY <1>1, <3>1, TailFacts
  <2>2. /\ pc[f] = "releasing"
        /\ heir' = [heir EXCEPT ![f] = h]
        /\ pc' = [pc EXCEPT ![f] = "handing"]
        /\ UNCHANGED <<permits, deferredVars>>
    BY <1>1 DEF Release
  <2> HIDE DEF h
  <2>3. \A g \in Fibers : /\ pc'[g] = IF g = f THEN "handing" ELSE pc[g]
                          /\ heir'[g] = IF g = f THEN h ELSE heir[g]
    BY <2>2 DEF Inv, Places
  <2>4. pc[h] = "awaiting" /\ ~D!IsSet(h) /\ ~Chosen(h) /\ h # f
    BY <2>1, <2>2 DEF Inv, QueueIsExact
  <2>5. DeferredsOK' /\ UNCHANGED <<cell, get>>
    BY <2>2, SameDeferreds DEF Inv, DeferredsOK, deferredVars
  <2>6. Places'
    BY <2>1, <2>2 DEF Inv, Places, PCs
  <2>7. OwnDeferreds'
    BY <2>3, <2>5 DEF Inv, OwnDeferreds, D!IsSet
  <2>8. HeirsWait'
    <3>1. \A g \in Fibers : pc[g] = "handing" => heir[g] # h
      BY <2>4 DEF Chosen
    <3> QED BY <2>2, <2>3, <2>4, <2>5, <3>1 DEF Inv, HeirsWait, Places, D!IsSet
  <2>9. QueueIsExact'
    <3>1. ASSUME NEW g \in Fibers
          PROVE  Chosen(g)' <=> Chosen(g) \/ g = h
      BY <2>2, <2>3 DEF Chosen
    <3> QED BY <2>1, <2>2, <2>3, <2>4, <2>5, <3>1 DEF Inv, QueueIsExact, D!IsSet
  <2> QED BY <2>5, <2>6, <2>7, <2>8, <2>9 DEF Inv, DeferredsOK
<1>2. CASE queue = <<>>
  <2>1. /\ pc[f] = "releasing" /\ permits' = permits + 1
        /\ pc' = [pc EXCEPT ![f] = "done"]
        /\ UNCHANGED <<queue, heir, deferredVars>>
    BY <1>2 DEF Release
  <2>2. permits' \in Nat /\ "done" \in PCs
    BY <2>1 DEF Inv, Places, PCs
  <2> QED BY <2>1, <2>2, MoveInv
<1> QED BY <1>1, <1>2

(* The waiter that was popped has its answer.                              *)
LEMMA CompleteHeirInv ==
    ASSUME Inv, NEW f \in Fibers, CompleteHeir(f)
    PROVE  Inv'
<1> DEFINE h == heir[f]
<1>1. /\ pc[f] = "handing" /\ h \in Fibers /\ ~D!IsSet(h) /\ D!Complete(f, h)
      /\ pc[h] \in {"awaiting", "canceled"} /\ h # f
  BY DEF CompleteHeir, Inv, HeirsWait, Places
<1>2. \A g \in Fibers : pc[g] = "handing" /\ heir[g] = h => g = f
  BY <1>1 DEF Inv, HeirsWait
<1>3. Chosen(h) /\ h \notin ToSet(queue)
  BY <1>1 DEF Chosen, Inv, QueueIsExact
<1> HIDE DEF h
<1>4. /\ DeferredsOK' /\ UNCHANGED get
      /\ cell'[h].value # D!NoValue
      /\ \A g \in Fibers \ {h} : cell'[g].value = cell[g].value
  BY <1>1, CompleteDeferred DEF Inv, DeferredsOK
<1>5. UNCHANGED <<permits, queue, heir>>
  BY DEF CompleteHeir
<1>6. \A g \in Fibers : pc'[g] = IF g = f THEN "notifying" ELSE pc[g]
  BY DEF CompleteHeir, Inv, Places
<1>7. Places'
  BY DEF CompleteHeir, Inv, Places, PCs
<1>8. OwnDeferreds'
  <2>1. pc[h] # "idle"
    BY <1>1
  <2> QED BY <1>4, <1>6, <2>1 DEF Inv, OwnDeferreds, D!IsSet
<1>9. HeirsWait'
  BY <1>1, <1>2, <1>4, <1>5, <1>6 DEF Inv, HeirsWait, Places, D!IsSet
<1>10. QueueIsExact'
  <2>1. ASSUME NEW g \in Fibers \ {h} PROVE Chosen(g)' <=> Chosen(g)
    BY <1>1, <1>5, <1>6 DEF Chosen, h
  <2> QED BY <1>1, <1>3, <1>4, <1>5, <1>6, <2>1 DEF Inv, QueueIsExact, D!IsSet
<1> QED BY <1>4, <1>7, <1>8, <1>9, <1>10 DEF Inv, DeferredsOK

(* Nobody is waiting yet, or holds anything.                               *)
LEMMA InvInit == Init => Inv
<1> SUFFICES ASSUME Init PROVE Inv
  OBVIOUS
<1>1. DP!Init
  BY SameState DEF Init
<1>2. DP!Inv
  BY <1>1, Names, DP!InvInit
<1>3. DP!ResultsAreSet
  BY <1>1 DEF DP!Init, DP!ResultsAreSet, DP!ResultPCs, DP!NotGetting
<1>4. Places /\ MaxPermits \in Nat
  BY SemaphoreAssumption DEF Init, Places, PCs
<1>5. OwnDeferreds /\ HeirsWait
  BY DEF Init, OwnDeferreds, HeirsWait, D!Init, D!IsSet, D!NotGetting
<1>6. IsInjective(<<>>) /\ ToSet(<<>>) = {}
  BY DEF IsInjective, ToSet
<1>7. QueueIsExact
  BY <1>6 DEF Init, QueueIsExact
<1> QED BY <1>2, <1>3, <1>4, <1>5, <1>7 DEF Inv

LEMMA InvNext == Inv /\ [Next]_vars => Inv'
<1> SUFFICES ASSUME Inv, [Next]_vars PROVE Inv'
  OBVIOUS
<1>1. ASSUME NEW f \in Fibers, Acquire(f) PROVE Inv'
  BY <1>1, AcquireInv
<1>2. ASSUME NEW f \in Fibers, CancelAwait(f) \/ AwaitStep(f) PROVE Inv'
  BY <1>2, QuietInv DEF CancelAwait, AwaitStep
<1>3. ASSUME NEW f \in Fibers, Acquired(f) PROVE Inv'
  BY <1>3, AcquiredInv
<1>4. ASSUME NEW f \in Fibers, LeaveQueue(f) PROVE Inv'
  BY <1>4, LeaveQueueInv
<1>5. ASSUME NEW f \in Fibers, EndWork(f) PROVE Inv'
  <2>1. "releasing" \in PCs /\ permits' \in Nat
    BY <1>5 DEF EndWork, PCs, Inv, Places
  <2> QED BY <1>5, <2>1, MoveInv DEF EndWork
<1>6. ASSUME NEW f \in Fibers, Release(f) PROVE Inv'
  BY <1>6, ReleaseInv
<1>7. ASSUME NEW f \in Fibers, CompleteHeir(f) PROVE Inv'
  BY <1>7, CompleteHeirInv
<1>8. ASSUME NEW f \in Fibers, NotifyHeir(f) PROVE Inv'
  <2>1. CASE D!Notifying(f)
    BY <1>8, <2>1, QuietInv DEF NotifyHeir, semVars
  <2>2. CASE ~D!Notifying(f)
    <3>1. "done" \in PCs /\ permits' \in Nat
      BY <1>8 DEF NotifyHeir, PCs, Inv, Places
    <3> QED BY <1>8, <2>2, <3>1, MoveInv DEF NotifyHeir
  <2> QED BY <2>1, <2>2
<1>9. CASE UNCHANGED vars
  <2>1. DeferredsOK'
    BY <1>9, SameDeferreds DEF Inv, DeferredsOK, vars
  <2> QED BY <1>9, <2>1 DEF vars, semVars, deferredVars, Inv, DeferredsOK, Places,
                            OwnDeferreds, HeirsWait, QueueIsExact, Chosen, D!IsSet
<1> QED BY <1>1, <1>2, <1>3, <1>4, <1>5, <1>6, <1>7, <1>8, <1>9 DEF Next, Step

LEMMA InvAlways == Spec => []Inv
BY InvInit, InvNext, PTL DEF Spec

(* The queue holds exactly the fibers that wait and were not chosen, once  *)
(* each, and whatever is complete was complete()d by a release: no         *)
(* cancelation leaves somebody behind or takes somebody else out.          *)
THEOREM QueueExact == Spec => []QueueIsExact
<1>1. Inv => QueueIsExact
  BY DEF Inv
<1> QED BY InvAlways, <1>1, PTL

(* Permits, queue and Deferreds keep their types; in particular a release  *)
(* never meets a negative count.                                           *)
THEOREM TypeCorrect == Spec => []TypeOK
<1>1. Inv => TypeOK
  BY SameState DEF Inv, Places, TypeOK, DP!Inv
<1> QED BY InvAlways, <1>1, PTL

(* Nobody is queued while a permit is free: a newcomer that could take one *)
(* at once never overtakes a waiter.                                       *)
LEMMA NoOvertakingNext == Inv /\ NoOvertaking /\ [Next]_vars => NoOvertaking'
<1> SUFFICES ASSUME Inv, NoOvertaking, [Next]_vars PROVE NoOvertaking'
  OBVIOUS
<1>1. ASSUME NEW f \in Fibers, LeaveQueue(f) PROVE NoOvertaking'
  BY <1>1, WithoutType DEF LeaveQueue, Inv, Places, NoOvertaking
<1>2. ASSUME NEW f \in Fibers, Acquire(f) PROVE NoOvertaking'
  BY <1>2 DEF Acquire, NoOvertaking
<1>3. ASSUME NEW f \in Fibers, Release(f) PROVE NoOvertaking'
  BY <1>3 DEF Release, Inv, Places, NoOvertaking
<1>4. ASSUME UNCHANGED <<permits, queue>> PROVE NoOvertaking'
  BY <1>4 DEF NoOvertaking
<1> QED BY <1>1, <1>2, <1>3, <1>4 DEF Next, Step, CancelAwait, AwaitStep, Acquired, EndWork,
                                      CompleteHeir, NotifyHeir, vars, semVars

(* While somebody waits for a permit none is free: acquire() never lets a  *)
(* newcomer pass a waiter, whoever leaves the queue in between.            *)
THEOREM NewcomersWait == Spec => []NoOvertaking
<1>1. Init => NoOvertaking
  BY DEF Init, NoOvertaking
<1> QED BY InvAlways, <1>1, NoOvertakingNext, PTL DEF Spec

-----------------------------------------------------------------------------
(* Counting the permits: a fiber joins or leaves a finite set of fibers.   *)
LEMMA Counted ==
    ASSUME NEW A \in SUBSET Fibers
    PROVE  /\ IsFiniteSet(A) /\ Cardinality(A) \in Nat
           /\ \A f \in Fibers \ A : Cardinality(A \cup {f}) = Cardinality(A) + 1
           /\ \A f \in A : Cardinality(A \ {f}) = Cardinality(A) - 1
<1>1. IsFiniteSet(A)
  BY SemaphoreAssumption, FS_Subset
<1> QED BY <1>1, FS_CardinalityType, FS_AddElement, FS_RemoveElement

(* Steps that change no permit, no set Deferred and nobody's part.         *)
LEMMA SameAccount ==
    ASSUME PermitsAccounted, permits' = permits, Holders' = Holders, Promised' = Promised
    PROVE  PermitsAccounted'
BY DEF PermitsAccounted

(* A permit is taken, passed on or given back by one fiber at a time.      *)
LEMMA PermitsNext == Inv /\ PermitsAccounted /\ [Next]_vars => PermitsAccounted'
<1> SUFFICES ASSUME Inv, PermitsAccounted, [Next]_vars PROVE PermitsAccounted'
  OBVIOUS
<1> DEFINE H == Cardinality(Holders)
           P == Cardinality(Promised)
<1>1. /\ Holders \in SUBSET Fibers /\ Promised \in SUBSET Fibers
      /\ permits \in Nat /\ pc \in [Fibers -> PCs] /\ MaxPermits \in Nat
  BY SemaphoreAssumption DEF Holders, Promised, Inv, Places
<1>2. H \in Nat /\ P \in Nat /\ permits + H + P = MaxPermits
  BY <1>1, Counted DEF PermitsAccounted
<1>3. ASSUME NEW f \in Fibers, Acquire(f) PROVE PermitsAccounted'
  <2>1. pc[f] = "idle" /\ ~D!IsSet(f)
    BY <1>3 DEF Acquire, Inv, OwnDeferreds
  <2>2. CASE permits = 0
    <3>1. /\ permits' = permits
          /\ pc' = [pc EXCEPT ![f] = "awaiting"]
          /\ \A g \in Fibers : cell'[g].value = cell[g].value
      BY <1>3, <2>2, StartDeferred DEF Acquire, Inv, DeferredsOK
    <3>2. Holders' = Holders /\ Promised' = Promised
      BY <1>1, <2>1, <3>1 DEF Holders, Promised, D!IsSet
    <3> QED BY <3>1, <3>2, SameAccount
  <2>3. CASE permits # 0
    <3>1. /\ permits' = permits - 1
          /\ pc' = [pc EXCEPT ![f] = "critical"]
          /\ cell' = cell
      BY <1>3, <2>3 DEF Acquire, deferredVars
    <3>2. Holders' = Holders \cup {f} /\ f \notin Holders /\ Promised' = Promised
      BY <1>1, <2>1, <3>1 DEF Holders, Promised, D!IsSet
    <3>3. Cardinality(Holders') = H + 1 /\ Cardinality(Promised') = P
      BY <1>1, <3>2, Counted
    <3> HIDE DEF H, P
    <3> QED BY <1>1, <1>2, <3>1, <3>3 DEF PermitsAccounted
  <2> QED BY <2>2, <2>3
<1>4. ASSUME NEW f \in Fibers, CancelAwait(f) \/ AwaitStep(f) \/ (NotifyHeir(f) /\ D!Notifying(f))
      PROVE PermitsAccounted'
  <2>1. D!GetStep(f) \/ D!CancelGet(f) \/ D!NotifyReader(f)
    BY <1>4 DEF CancelAwait, AwaitStep, NotifyHeir
  <2>2. \A g \in Fibers : cell'[g].value = cell[g].value
    BY <2>1, QuietDeferreds DEF Inv, DeferredsOK
  <2>3. permits' = permits /\ pc' = pc
    BY <1>4 DEF CancelAwait, AwaitStep, NotifyHeir, semVars
  <2>4. Holders' = Holders /\ Promised' = Promised
    BY <2>2, <2>3 DEF Holders, Promised, D!IsSet
  <2> QED BY <2>3, <2>4, SameAccount
<1>5. ASSUME NEW f \in Fibers, Acquired(f) PROVE PermitsAccounted'
  <2>1. /\ pc[f] = "awaiting" /\ permits' = permits /\ cell' = cell
        /\ pc' = [pc EXCEPT ![f] = "critical"]
    BY <1>5 DEF Acquired, deferredVars
  <2>2. D!IsSet(f)
    BY <1>5, AcquiredIsSet
  <2>3. /\ Holders' = Holders \cup {f} /\ f \notin Holders
        /\ Promised' = Promised \ {f} /\ f \in Promised
    BY <1>1, <2>1, <2>2 DEF Holders, Promised, D!IsSet
  <2>4. Cardinality(Holders') = H + 1 /\ Cardinality(Promised') = P - 1
    BY <1>1, <2>3, Counted
  <2> HIDE DEF H, P
  <2> QED BY <1>1, <1>2, <2>1, <2>4 DEF PermitsAccounted
<1>6. ASSUME NEW f \in Fibers, LeaveQueue(f) PROVE PermitsAccounted'
  <2>1. /\ pc[f] = "awaiting" /\ permits' = permits /\ cell' = cell
        /\ pc' = [pc EXCEPT ![f] = "canceled"]
    BY <1>6 DEF LeaveQueue, deferredVars
  <2>2. Holders' = Holders /\ Promised' = Promised
    BY <1>1, <2>1 DEF Holders, Promised, D!IsSet
  <2> QED BY <2>1, <2>2, SameAccount
<1>7. ASSUME NEW f \in Fibers, EndWork(f) PROVE PermitsAccounted'
  <2>1. /\ pc[f] = "critical" /\ permits' = permits /\ cell' = cell
        /\ pc' = [pc EXCEPT ![f] = "releasing"]
    BY <1>7 DEF EndWork, deferredVars
  <2>2. Holders' = Holders /\ Promised' = Promised
    BY <1>1, <2>1 DEF Holders, Promised, D!IsSet
  <2> QED BY <2>1, <2>2, SameAccount
<1>8. ASSUME NEW f \in Fibers, Release(f) PROVE PermitsAccounted'
  <2>1. pc[f] = "releasing" /\ cell' = cell
    BY <1>8 DEF Release, deferredVars
  <2>2. CASE queue # <<>>
    <3>1. permits' = permits /\ pc' = [pc EXCEPT ![f] = "handing"]
      BY <1>8, <2>2 DEF Release
    <3>2. Holders' = Holders /\ Promised' = Promised
      BY <1>1, <2>1, <3>1 DEF Holders, Promised, D!IsSet
    <3> QED BY <3>1, <3>2, SameAccount
  <2>3. CASE queue = <<>>
    <3>1. permits' = permits + 1 /\ pc' = [pc EXCEPT ![f] = "done"]
      BY <1>8, <2>3 DEF Release
    <3>2. Holders' = Holders \ {f} /\ f \in Holders /\ Promised' = Promised
      BY <1>1, <2>1, <3>1 DEF Holders, Promised, D!IsSet
    <3>3. Cardinality(Holders') = H - 1 /\ Cardinality(Promised') = P
      BY <1>1, <3>2, Counted
    <3> HIDE DEF H, P
    <3> QED BY <1>1, <1>2, <3>1, <3>3 DEF PermitsAccounted
  <2> QED BY <2>2, <2>3
<1>9. ASSUME NEW f \in Fibers, CompleteHeir(f) PROVE PermitsAccounted'
  <2> DEFINE h == heir[f]
  <2>1. /\ pc[f] = "handing" /\ h \in Fibers /\ ~D!IsSet(h) /\ D!Complete(f, h)
        /\ pc[h] \in {"awaiting", "canceled"} /\ h # f
    BY <1>9 DEF CompleteHeir, Inv, HeirsWait, Places
  <2>2. permits' = permits /\ pc' = [pc EXCEPT ![f] = "notifying"]
    BY <1>9 DEF CompleteHeir
  <2> HIDE DEF h
  <2>3. /\ cell'[h].value # D!NoValue
        /\ \A g \in Fibers \ {h} : cell'[g].value = cell[g].value
    BY <2>1, CompleteDeferred DEF Inv, DeferredsOK
  <2>4. Holders' = Holders \ {f} /\ f \in Holders
    BY <1>1, <2>1, <2>2 DEF Holders
  <2>5. Promised' = Promised \cup {h} /\ h \notin Promised
    BY <1>1, <2>1, <2>2, <2>3 DEF Promised, D!IsSet
  <2>6. Cardinality(Holders') = H - 1 /\ Cardinality(Promised') = P + 1
    BY <1>1, <2>1, <2>4, <2>5, Counted
  <2> HIDE DEF H, P
  <2> QED BY <1>1, <1>2, <2>2, <2>6 DEF PermitsAccounted
<1>10. ASSUME NEW f \in Fibers, NotifyHeir(f), ~D!Notifying(f) PROVE PermitsAccounted'
  <2>1. /\ pc[f] = "notifying" /\ permits' = permits /\ cell' = cell
        /\ pc' = [pc EXCEPT ![f] = "done"]
    BY <1>10 DEF NotifyHeir, deferredVars
  <2>2. Holders' = Holders /\ Promised' = Promised
    BY <1>1, <2>1 DEF Holders, Promised, D!IsSet
  <2> QED BY <2>1, <2>2, SameAccount
<1>11. CASE UNCHANGED vars
  BY <1>11 DEF vars, semVars, deferredVars, PermitsAccounted, Holders, Promised, D!IsSet
<1> QED BY <1>3, <1>4, <1>5, <1>6, <1>7, <1>8, <1>9, <1>10, <1>11 DEF Next, Step

(* Every permit is free, held or promised to one fiber, whatever ends,     *)
(* fails or is canceled on the way.                                        *)
THEOREM NoPermitMadeUp == Spec => []PermitsAccounted
<1>1. Init => PermitsAccounted
  <2> SUFFICES ASSUME Init PROVE PermitsAccounted
    OBVIOUS
  <2>1. Holders = {} /\ Promised = {}
    BY DEF Init, Holders, Promised
  <2> QED BY <2>1, SemaphoreAssumption, FS_EmptySet DEF Init, PermitsAccounted
<1> QED BY InvAlways, <1>1, PermitsNext, PTL DEF Spec

-----------------------------------------------------------------------------
(* Whom the permits are with, once cancelations are taken into account.    *)

(* Only a waiter sees a cancelation, and it leaves for no other reason.    *)
CanceledWaited ==
    \A f \in Fibers :
        /\ Canceled(f) => pc[f] \in {"awaiting", "canceled"}
        /\ pc[f] = "canceled" => Canceled(f)

(* A fiber that goes on in its get() cancels nobody else, and does not     *)
(* come back from its own cancelation.                                     *)
LEMMA CanceledByItself ==
    ASSUME Inv, NEW f \in Fibers, D!GetStep(f) \/ D!CancelGet(f)
    PROVE  /\ \A g \in Fibers \ {f} : Canceled(g)' <=> Canceled(g)
           /\ Canceled(f) => Canceled(f)'
<1>1. D!TypeOK
  BY SameState DEF Inv, DP!Inv
<1> QED BY <1>1 DEF D!TypeOK, D!GetStep, D!ReadState, D!AddReader, D!Await, D!Resume,
                    D!DeleteReader, D!CancelGet, D!Goto, D!At, D!NotGetting, Canceled

(* A callback changes nothing for a fiber that has seen its cancelation,   *)
(* and cancels nobody.                                                     *)
LEMMA CallbackCancelsNobody ==
    ASSUME Inv, NEW f \in Fibers, D!NotifyReader(f)
    PROVE  \A g \in Fibers : Canceled(g)' <=> Canceled(g)
<1> DEFINE r == Head(notify[f].readers)
           to == CASE get[r].pc = "registered" -> "fired"
                   [] get[r].pc = "waiting" -> "resumed"
                   [] OTHER -> get[r].pc
<1>1. D!TypeOK
  BY SameState DEF Inv, DP!Inv
<1>2. get' = get \/ get' = [get EXCEPT ![r].pc = to]
  BY DEF D!NotifyReader
<1>3. ASSUME NEW g \in Fibers, get' = [get EXCEPT ![r].pc = to]
      PROVE  get'[g].pc = IF g = r THEN to ELSE get[g].pc
  <2> HIDE DEF to, r
  <2> QED BY <1>1, <1>3 DEF D!TypeOK, D!NotGetting
<1>4. to \in {"deleting", "canceled"} <=> get[r].pc \in {"deleting", "canceled"}
  OBVIOUS
<1> HIDE DEF to, r
<1> QED BY <1>2, <1>3, <1>4 DEF Canceled

LEMMA CanceledNext == Inv /\ CanceledWaited /\ [Next]_vars => CanceledWaited'
<1> SUFFICES ASSUME Inv, CanceledWaited, [Next]_vars PROVE CanceledWaited'
  OBVIOUS
<1>1. pc \in [Fibers -> PCs] /\ D!TypeOK
  BY SameState DEF Inv, DP!Inv, Places
<1>2. ASSUME NEW f \in Fibers, Acquire(f) PROVE CanceledWaited'
  <2>1. CASE permits = 0
    <3>1. /\ \A g \in Fibers : pc'[g] = IF g = f THEN "awaiting" ELSE pc[g]
          /\ \A g \in Fibers : get'[g] = IF g = f THEN [pc |-> "reading", on |-> f] ELSE get[g]
      BY <1>1, <1>2, <2>1 DEF Acquire, D!StartGet, D!TypeOK
    <3> QED BY <3>1 DEF CanceledWaited, Canceled
  <2>2. CASE permits # 0
    <3>1. /\ \A g \in Fibers : pc'[g] = IF g = f THEN "critical" ELSE pc[g]
          /\ get' = get /\ pc[f] = "idle"
      BY <1>1, <1>2, <2>2 DEF Acquire, deferredVars
    <3> QED BY <3>1 DEF CanceledWaited, Canceled
  <2> QED BY <2>1, <2>2
<1>3. ASSUME NEW f \in Fibers, CancelAwait(f) \/ AwaitStep(f) PROVE CanceledWaited'
  <2>1. pc[f] = "awaiting" /\ pc' = pc /\ (D!GetStep(f) \/ D!CancelGet(f))
    BY <1>3 DEF CancelAwait, AwaitStep, semVars
  <2> QED BY <2>1, CanceledByItself DEF CanceledWaited
<1>4. ASSUME NEW f \in Fibers, NotifyHeir(f), D!Notifying(f) PROVE CanceledWaited'
  <2>1. pc' = pc /\ D!NotifyReader(f)
    BY <1>4 DEF NotifyHeir
  <2> QED BY <2>1, CallbackCancelsNobody DEF CanceledWaited
<1>5. ASSUME NEW f \in Fibers, Acquired(f) PROVE CanceledWaited'
  <2>1. /\ \A g \in Fibers : pc'[g] = IF g = f THEN "critical" ELSE pc[g]
        /\ get' = get /\ ~Canceled(f)
    BY <1>1, <1>5 DEF Acquired, deferredVars, D!At, Canceled
  <2> QED BY <2>1 DEF CanceledWaited, Canceled
<1>6. ASSUME NEW f \in Fibers, LeaveQueue(f) PROVE CanceledWaited'
  <2>1. /\ \A g \in Fibers : pc'[g] = IF g = f THEN "canceled" ELSE pc[g]
        /\ get' = get /\ Canceled(f)
    BY <1>1, <1>6 DEF LeaveQueue, deferredVars, D!At, Canceled
  <2> QED BY <2>1 DEF CanceledWaited, Canceled
<1>7. ASSUME NEW f \in Fibers,
             EndWork(f) \/ Release(f) \/ CompleteHeir(f) \/ (NotifyHeir(f) /\ ~D!Notifying(f))
      PROVE  CanceledWaited'
  <2>1. pc[f] \in {"critical", "releasing", "handing", "notifying"} /\ get' = get
    BY <1>7 DEF EndWork, Release, CompleteHeir, D!Complete, NotifyHeir, deferredVars
  <2>2. /\ pc'[f] \in {"releasing", "handing", "notifying", "done"}
        /\ \A g \in Fibers \ {f} : pc'[g] = pc[g]
    BY <1>1, <1>7 DEF EndWork, Release, CompleteHeir, NotifyHeir
  <2> QED BY <2>1, <2>2 DEF CanceledWaited, Canceled
<1>8. CASE UNCHANGED vars
  BY <1>8 DEF vars, semVars, deferredVars, CanceledWaited, Canceled
<1> QED BY <1>2, <1>3, <1>4, <1>5, <1>6, <1>7, <1>8 DEF Next, Step

LEMMA CanceledAlways == Spec => []CanceledWaited
<1>1. Init => CanceledWaited
  BY DEF Init, D!Init, D!NotGetting, CanceledWaited, Canceled
<1> QED BY InvAlways, <1>1, CanceledNext, PTL DEF Spec

(* Every release in progress has chosen a fiber of its own.                *)
Handing == {f \in Fibers : pc[f] = "handing"}
ChosenOnes == {f \in Fibers : Chosen(f)}

LEMMA OneHeirEach ==
    ASSUME Inv
    PROVE  Cardinality(ChosenOnes) = Cardinality(Handing)
<1> DEFINE choice == [f \in Handing |-> heir[f]]
<1>1. choice \in [Handing -> ChosenOnes]
  BY DEF Inv, Places, Handing, ChosenOnes, Chosen
<1>2. \A f, g \in Handing : choice[f] = choice[g] => f = g
  BY DEF Inv, HeirsWait, Handing
<1>3. \A h \in ChosenOnes : \E f \in Handing : choice[f] = h
  BY DEF Handing, ChosenOnes, Chosen
<1>4. choice \in Bijection(Handing, ChosenOnes)
  <2> HIDE DEF choice
  <2> QED BY <1>1, <1>2, <1>3 DEF Bijection, Injection, Surjection, IsInjective
<1>5. ExistsBijection(Handing, ChosenOnes)
  BY <1>4 DEF ExistsBijection
<1>6. IsFiniteSet(Handing)
  BY Counted DEF Handing
<1> QED BY <1>5, <1>6, FS_Bijection

(* Two sets of fibers that have nobody in common.                          *)
LEMMA CountedApart ==
    ASSUME NEW A \in SUBSET Fibers, NEW B \in SUBSET Fibers, A \cap B = {}
    PROVE  Cardinality(A \cup B) = Cardinality(A) + Cardinality(B)
<1>1. IsFiniteSet(A) /\ IsFiniteSet(B) /\ Cardinality(A) \in Nat /\ Cardinality(B) \in Nat
  BY Counted
<1>2. Cardinality(A \cap B) = 0
  BY FS_EmptySet
<1>3. Cardinality(A \cup B) = Cardinality(A) + Cardinality(B) - Cardinality(A \cap B)
  BY <1>1, FS_Union
<1> QED BY <1>1, <1>2, <1>3

(* The permits that are not free are with workers, heirs or canceled       *)
(* waiters.                                                                *)
LEMMA PermitsWithWhom ==
    ASSUME Inv, CanceledWaited, PermitsAccounted
    PROVE  permits + Cardinality(Workers) + Cardinality(Heirs) + Cardinality(Lost) = MaxPermits
<1>1. /\ Workers \in SUBSET Fibers /\ Heirs \in SUBSET Fibers /\ Lost \in SUBSET Fibers
      /\ Handing \in SUBSET Fibers /\ ChosenOnes \in SUBSET Fibers /\ Promised \in SUBSET Fibers
  BY DEF Workers, Heirs, Lost, Handing, ChosenOnes, Promised
<1>2. Cardinality(Holders) = Cardinality(Workers) + Cardinality(Handing)
  <2>1. Holders = Workers \cup Handing /\ Workers \cap Handing = {}
    BY DEF Holders, Workers, Handing
  <2> QED BY <1>1, <2>1, CountedApart
<1>3. Cardinality(Promised \cup ChosenOnes) = Cardinality(Promised) + Cardinality(Handing)
  <2>1. Promised \cap ChosenOnes = {}
    BY DEF Promised, ChosenOnes, Chosen, Inv, HeirsWait
  <2> QED BY <1>1, <2>1, CountedApart, OneHeirEach
<1>4. Cardinality(Promised \cup ChosenOnes) = Cardinality(Heirs) + Cardinality(Lost)
  <2>1. \A f \in Fibers : Chosen(f) => pc[f] \in {"awaiting", "canceled"}
    BY DEF Chosen, Inv, HeirsWait
  <2>2. Promised \cup ChosenOnes = Heirs \cup Lost /\ Heirs \cap Lost = {}
    BY <2>1 DEF CanceledWaited, Promised, ChosenOnes, Heirs, Lost
  <2> QED BY <1>1, <2>2, CountedApart
<1>5. /\ permits \in Nat /\ MaxPermits \in Nat
      /\ Cardinality(Workers) \in Nat /\ Cardinality(Heirs) \in Nat /\ Cardinality(Lost) \in Nat
      /\ Cardinality(Handing) \in Nat /\ Cardinality(Promised) \in Nat
  BY <1>1, Counted, SemaphoreAssumption DEF Inv, Places
<1> QED BY <1>2, <1>3, <1>4, <1>5 DEF PermitsAccounted

(* While a fiber is queued, every permit is with a fiber that works or     *)
(* will work and then releases, or is lost with a waiter that was canceled *)
(* after a release chose it: acquire() never blocks on idle permits, and   *)
(* on nobody at all only when all permits are lost.                        *)
THEOREM NobodyQueuedInVain == Spec => []QueuedForAReason
<1>1. Inv /\ CanceledWaited /\ NoOvertaking /\ PermitsAccounted => QueuedForAReason
  <2> SUFFICES ASSUME Inv, CanceledWaited, NoOvertaking, PermitsAccounted, queue # <<>>
               PROVE  Cardinality(Workers) + Cardinality(Heirs) + Cardinality(Lost) = MaxPermits
    BY DEF QueuedForAReason
  <2>1. permits = 0
    BY DEF NoOvertaking
  <2>2. Cardinality(Workers) \in Nat /\ Cardinality(Heirs) \in Nat /\ Cardinality(Lost) \in Nat
    BY Counted DEF Workers, Heirs, Lost
  <2> QED BY <2>1, <2>2, PermitsWithWhom
<1> QED BY <1>1, InvAlways, CanceledAlways, NewcomersWait, NoPermitMadeUp, PTL

=============================================================================
