---------------------------- MODULE QueueProofs ----------------------------
(***************************************************************************)
(* Proofs about Queue, for any number of fibers and any capacities.        *)
(***************************************************************************)
EXTENDS Queue, DataProofs, FiniteSetTheorems

DP == INSTANCE DeferredProofs WITH Deferreds <- Fibers, Interruptible <- {}

(* The part of the state that decides who waits. Only the bounded queue    *)
(* blocks offers, and the circular one has an element to drop when full.   *)
StateOK ==
    /\ kind \in {"bounded", "dropping", "circular"}
    /\ capacity \in Nat
    /\ kind # "bounded" => capacity > 0
    /\ queue \in Seq(Producers)
    /\ takers \in Seq(Consumers)
    /\ offerers \in Seq(Producers)
    /\ offerers # <<>> => kind = "bounded"

StateInv == StateOK /\ NobodyWaitsInVain

(* Where the fibers are, and what they are told, which is nothing before   *)
(* their operations return.                                                *)
Places ==
    /\ pc \in [Fibers -> PCs]
    /\ heir \in [Fibers -> Fibers]
    /\ answer \in [Fibers -> Answers]
    /\ \A f \in Fibers : pc[f] \in {"idle", "awaiting"} => answer[f] = NoAnswer

DeferredsOK == DP!Inv /\ DP!ResultsAreSet

(* A fiber only ever waits for its own Deferred; one that has not started  *)
(* has nothing that could be complete, and only an offer completes a take. *)
OwnDeferreds ==
    \A f \in Fibers :
        /\ get[f].on \in {f, D!Nowhere}
        /\ pc[f] = "idle" => ~D!IsSet(f)
        /\ f \in Consumers => cell[f].value \in Producers \cup {D!NoValue}

(* Until its Deferred is completed, the fiber an operation popped still    *)
(* waits or was canceled, and no other operation popped it too.            *)
HeirsWait ==
    \A f \in Fibers : pc[f] = "handing" =>
        /\ pc[heir[f]] \in {"awaiting", "canceled"}
        /\ ~D!IsSet(heir[f])
        /\ f \in Producers <=> heir[f] \in Consumers
        /\ \A g \in Fibers : pc[g] = "handing" /\ heir[g] = heir[f] => g = f

WaitersInv == Places /\ DeferredsOK /\ OwnDeferreds /\ HeirsWait /\ ListsAreExact

(* An element is nowhere before it is offered, with nobody while it is in  *)
(* the queue, nowhere once it is refused, and never with two consumers.    *)
ElementsInv ==
    /\ IsInjective(contents)
    /\ \A e \in Producers :
        /\ e \in ToSet(contents) => pc[e] # "idle" /\ answer[e] # "false"
        /\ e \in ToSet(contents) \/ answer[e] = "false" \/ pc[e] = "idle" =>
            \A c \in Consumers : ~HandedTo(c, e)
        /\ \A c, d \in Consumers : HandedTo(c, e) /\ HandedTo(d, e) => c = d

-----------------------------------------------------------------------------
(* Who waits.                                                              *)

(* offer and tryOffer, branch by branch.                                   *)
LEMMA OfferState ==
    ASSUME StateInv, NEW p \in Producers, Offer(p) \/ TryOffer(p)
    PROVE  StateInv'
<1> USE DEF StateInv, StateOK, NobodyWaitsInVain, Nothing
<1>1. UNCHANGED config
  BY DEF Offer, TryOffer
<1>2. CASE OfferToTaker(p)
  <2>1. takers' \in Seq(Consumers) /\ UNCHANGED <<queue, size, offerers>>
    BY <1>2, TailFacts DEF OfferToTaker
  <2> QED BY <1>1, <1>2, <2>1 DEF OfferToTaker, config
<1>3. CASE OfferToQueue(p)
  BY <1>1, <1>3 DEF OfferToQueue, config
<1>4. CASE BlockOffer(p)
  BY <1>1, <1>4 DEF BlockOffer, NoCapacity, config
<1>5. CASE Overwrite(p)
  <2>1. queue # <<>>
    BY <1>5 DEF Overwrite, NoCapacity
  <2>2. Tail(queue) \in Seq(Producers) /\ Len(Tail(queue)) = Len(queue) - 1
    BY <2>1, TailFacts
  <2>3. queue' \in Seq(Producers) /\ Len(queue') = Len(queue)
    BY <1>5, <2>2 DEF Overwrite
  <2>4. takers = <<>> /\ UNCHANGED <<size, takers, offerers>>
    BY <1>5 DEF Overwrite, NoCapacity
  <2> QED BY <1>1, <2>3, <2>4 DEF config
<1>6. CASE Drop(p, "ok") \/ Drop(p, "false")
  BY <1>1, <1>6 DEF Drop, config, state
<1> QED BY <1>2, <1>3, <1>4, <1>5, <1>6 DEF Offer, TryOffer

(* take and tryTake, branch by branch.                                     *)
LEMMA TakeState ==
    ASSUME StateInv, NEW c \in Consumers, Take(c) \/ TryTake(c)
    PROVE  StateInv'
<1> USE DEF StateInv, StateOK, NobodyWaitsInVain, Nothing
<1>1. UNCHANGED config
  BY DEF Take, TryTake
<1>2. CASE TakeFromQueue(c)
  <2>1. queue' \in Seq(Producers) /\ Len(queue') = Len(queue) - 1
    BY <1>2, TailFacts DEF TakeFromQueue
  <2> QED BY <1>1, <1>2, <2>1 DEF TakeFromQueue, config
<1>3. CASE TakeAndRefill(c)
  <2>1. /\ Tail(queue) \in Seq(Producers) /\ Len(Tail(queue)) = Len(queue) - 1
        /\ Head(offerers) \in Producers /\ Tail(offerers) \in Seq(Producers)
    BY <1>3, TailFacts DEF TakeAndRefill
  <2>2. queue' \in Seq(Producers) /\ Len(queue') = Len(queue)
    BY <1>3, <2>1 DEF TakeAndRefill
  <2>3. takers = <<>> /\ offerers' = Tail(offerers) /\ size = capacity
        /\ UNCHANGED <<size, takers>>
    BY <1>3 DEF TakeAndRefill
  <2> QED BY <1>1, <2>1, <2>2, <2>3 DEF config
<1>4. CASE TakeFromOfferer(c)
  <2>1. offerers' \in Seq(Producers)
    BY <1>4, TailFacts DEF TakeFromOfferer
  <2> QED BY <1>1, <1>4, <2>1 DEF TakeFromOfferer, config
<1>5. CASE BlockTake(c)
  BY <1>1, <1>5 DEF BlockTake, config
<1>6. CASE UNCHANGED state
  BY <1>1, <1>6 DEF config, state
<1> QED BY <1>2, <1>3, <1>4, <1>5, <1>6 DEF Take, TryTake, TakeSome

(* A canceled fiber leaves; nobody else's reason to wait changes.          *)
LEMMA CleanupState ==
    ASSUME StateInv, NEW f \in Fibers, Cleanup(f)
    PROVE  StateInv'
<1>1. /\ takers' \in Seq(Consumers) /\ (takers = <<>> => takers' = <<>>)
      /\ offerers' \in Seq(Producers) /\ (offerers = <<>> => offerers' = <<>>)
  BY WithoutType DEF Cleanup, StateInv, StateOK
<1> QED BY <1>1 DEF Cleanup, StateInv, StateOK, NobodyWaitsInVain, Nothing, config

(* The rest of the steps happen outside the queue's Ref.                   *)
LEMMA OtherState ==
    ASSUME StateInv, UNCHANGED <<config, state>>
    PROVE  StateInv'
BY DEF StateInv, StateOK, NobodyWaitsInVain, Nothing, config, state

(* Every step keeps the invariant: offers, takes, cleanups and the rest.   *)
LEMMA StateNext == StateInv /\ [Next]_vars => StateInv'
<1> SUFFICES ASSUME StateInv, [Next]_vars PROVE StateInv'
  OBVIOUS
<1>1. ASSUME NEW p \in Producers, Offer(p) \/ TryOffer(p) PROVE StateInv'
  BY <1>1, OfferState
<1>2. ASSUME NEW c \in Consumers, Take(c) \/ TryTake(c) PROVE StateInv'
  BY <1>2, TakeState
<1>3. ASSUME NEW f \in Fibers, CancelAwait(f) PROVE StateInv'
  BY <1>3, OtherState DEF CancelAwait
<1>4. ASSUME NEW f \in Fibers, Step(f) PROVE StateInv'
  <2>1. CASE Cleanup(f)
    BY <2>1, CleanupState
  <2>2. CASE CompleteHeir(f) \/ NotifyHeir(f) \/ AwaitStep(f) \/ Awaited(f)
    <3>1. UNCHANGED <<config, state>>
      BY <2>2 DEF CompleteHeir, NotifyHeir, AwaitStep, Awaited
    <3> QED BY <3>1, OtherState
  <2> QED BY <1>4, <2>1, <2>2 DEF Step
<1>5. CASE UNCHANGED vars
  BY <1>5, OtherState DEF vars
<1> QED BY <1>1, <1>2, <1>3, <1>4, <1>5 DEF Next

LEMMA StateAlways == Spec => []StateInv
<1>1. Init => StateInv
  BY QueueAssumption DEF Init, StateInv, StateOK, NobodyWaitsInVain, Nothing
<1> QED BY <1>1, StateNext, PTL DEF Spec

(* On no kind of queue and at no capacity does a taker wait beside an      *)
(* element, or an offerer beside room (offer, take and their cleanups).    *)
THEOREM NoVainWait == Spec => []NobodyWaitsInVain
<1>1. StateInv => NobodyWaitsInVain
  BY DEF StateInv
<1> QED BY StateAlways, <1>1, PTL

-----------------------------------------------------------------------------
(* The Deferreds of the queue and those of DeferredProofs are the same.    *)
LEMMA SameState ==
    /\ D!TypeOK <=> DP!TypeOK
    /\ D!Init <=> DP!Init
    /\ \A d : D!IsSet(d) <=> DP!IsSet(d)
    /\ D!NotGetting = DP!NotGetting /\ D!Nowhere = DP!Nowhere
BY DEF D!TypeOK, D!Init, D!IsSet, D!NotGetting, D!Nowhere, D!NoValue, D!GetPCs,
       D!NobodyToNotify,
       DP!TypeOK, DP!Init, DP!IsSet, DP!NotGetting, DP!Nowhere, DP!NoValue, DP!GetPCs,
       DP!NobodyToNotify

LEMMA SameSteps ==
    ASSUME NEW f
    PROVE  /\ \A d : D!StartGet(f, d) <=> DP!StartGet(f, d)
           /\ \A d : D!Complete(f, d) <=> DP!Complete(f, d)
           /\ D!GetStep(f) <=> DP!GetStep(f)
           /\ D!CancelGet(f) <=> DP!CancelGet(f)
           /\ D!NotifyReader(f) <=> DP!NotifyReader(f)
<1> USE DEF D!At, D!Goto, D!IsSet, D!NoValue, D!NotGetting, D!Nowhere, D!Notifying,
            D!ToNotify, D!NobodyToNotify,
            DP!At, DP!Goto, DP!IsSet, DP!NoValue, DP!NotGetting, DP!Nowhere, DP!Notifying,
            DP!ToNotify, DP!NobodyToNotify
<1>1. \A d : D!StartGet(f, d) <=> DP!StartGet(f, d)
  BY DEF D!StartGet, DP!StartGet
<1>2. \A d : D!Complete(f, d) <=> DP!Complete(f, d)
  BY DEF D!Complete, DP!Complete
<1>3. D!GetStep(f) <=> DP!GetStep(f)
  <2>1. \A s : D!Without(s, f) = DP!Without(s, f)
    BY DEF D!Without, D!ToSet, D!RemoveAt, DP!Without, DP!ToSet, DP!RemoveAt
  <2>2. D!DeleteReader(f) <=> DP!DeleteReader(f)
    BY <2>1 DEF D!DeleteReader, DP!DeleteReader
  <2>3. /\ D!ReadState(f) <=> DP!ReadState(f)
        /\ D!AddReader(f) <=> DP!AddReader(f)
        /\ D!Await(f) <=> DP!Await(f)
        /\ D!Resume(f) <=> DP!Resume(f)
    BY DEF D!ReadState, D!AddReader, D!Await, D!Resume,
           DP!ReadState, DP!AddReader, DP!Await, DP!Resume
  <2> QED BY <2>2, <2>3 DEF D!GetStep, DP!GetStep
<1>4. D!CancelGet(f) <=> DP!CancelGet(f)
  BY DEF D!CancelGet, DP!CancelGet
<1>5. D!NotifyReader(f) <=> DP!NotifyReader(f)
  BY DEF D!NotifyReader, DP!NotifyReader
<1> QED BY <1>1, <1>2, <1>3, <1>4, <1>5

(* No fiber has the name that the model uses for an empty cell.            *)
LEMMA Names == DP!NoValue \notin Fibers /\ DP!Nowhere \notin Fibers
BY QueueAssumption DEF DP!NoValue, DP!Nowhere

(* Nothing happens to them while the Ref is updated.                       *)
LEMMA SameDeferreds ==
    ASSUME DeferredsOK, UNCHANGED deferredVars
    PROVE  DeferredsOK'
BY DEF DeferredsOK, deferredVars, DP!Inv, DP!TypeOK, DP!SetCellsHaveNoReaders,
       DP!NotifiersSetTheCell, DP!ReadersAreParked, DP!NoReaderForgotten,
       DP!IsSet, DP!Notifying, DP!Parked, DP!WillHear, DP!ToNotifyOf, DP!ResultsAreSet

(* The steps of a get(), cancelations and callbacks set no cell.           *)
LEMMA QuietDeferreds ==
    ASSUME DeferredsOK, NEW f \in Fibers,
           D!GetStep(f) \/ D!CancelGet(f) \/ D!NotifyReader(f)
    PROVE  /\ DeferredsOK'
           /\ \A g \in Fibers : /\ cell'[g].value = cell[g].value
                               /\ get'[g].on = get[g].on
<1>1. DP!GetStep(f) \/ DP!CancelGet(f) \/ DP!NotifyReader(f)
  BY SameSteps
<1>2. DP!ClientStep(f)
  BY <1>1 DEF DP!ClientStep
<1>3. DP!TypeOK
  BY DEF DeferredsOK, DP!Inv
<1>4. DeferredsOK'
  BY <1>2, Names, DP!ClientInv, DP!ResultsInv DEF DeferredsOK
<1>5. \A g \in Fibers : cell'[g].value = cell[g].value
  BY <1>1, <1>3, Names, DP!ValuesKept
<1>6. \A g \in Fibers : DP!Moves(g)
  BY <1>1, Names, DP!GetMoves DEF DeferredsOK
<1> QED BY <1>4, <1>5, <1>6 DEF DP!Moves

(* A fiber begins to wait for its own Deferred.                            *)
LEMMA StartDeferred ==
    ASSUME DeferredsOK, NEW f \in Fibers, D!StartGet(f, f)
    PROVE  /\ DeferredsOK'
           /\ \A g \in Fibers : /\ cell'[g].value = cell[g].value
                               /\ get'[g].on = IF g = f THEN f ELSE get[g].on
<1>1. DP!ClientStep(f)
  BY SameSteps DEF DP!ClientStep
<1>2. DeferredsOK'
  BY <1>1, Names, DP!ClientInv, DP!ResultsInv DEF DeferredsOK
<1>3. \A g \in Fibers : cell'[g].value = cell[g].value
  BY DEF D!StartGet
<1>4. \A g \in Fibers : get'[g].on = IF g = f THEN f ELSE get[g].on
  BY DEF D!StartGet, DeferredsOK, DP!Inv, DP!TypeOK
<1> QED BY <1>2, <1>3, <1>4

(* The Deferred of a fiber that waits is completed.                        *)
LEMMA CompleteDeferred ==
    ASSUME DeferredsOK, NEW f \in Fibers, NEW d \in Fibers, ~D!IsSet(d), D!Complete(f, d)
    PROVE  /\ DeferredsOK'
           /\ UNCHANGED get
           /\ cell'[d].value = f /\ f # D!NoValue
           /\ \A g \in Fibers \ {d} : cell'[g].value = cell[g].value
<1>1. DP!Complete(f, d) /\ DP!ClientStep(f)
  BY SameSteps DEF DP!ClientStep
<1>2. DeferredsOK'
  BY <1>1, Names, DP!ClientInv, DP!ResultsInv DEF DeferredsOK
<1>3. DP!TypeOK
  BY DEF DeferredsOK, DP!Inv
<1>4. ~DP!IsSet(d) /\ D!NoValue = DP!NoValue
  BY SameState DEF D!NoValue, DP!NoValue
<1>5. UNCHANGED get /\ cell'[d].value = f /\ \A g \in Fibers \ {d} : cell'[g].value = cell[g].value
  BY <1>1, <1>3, <1>4, Names, DP!CompleteWrites
<1> QED BY <1>2, <1>4, <1>5, Names

-----------------------------------------------------------------------------
(* Who is on the waiting lists.                                            *)

(* The operation needs nobody: the lists stay as they are.                 *)
LEMMA ReturnWaiters ==
    ASSUME WaitersInv, NEW f \in Fibers, NEW a \in Answers, pc[f] = "idle",
           Return(f, a), UNCHANGED <<takers, offerers>>
    PROVE  WaitersInv'
<1>1. DeferredsOK' /\ UNCHANGED <<cell, get, heir>>
  BY SameDeferreds DEF WaitersInv, Return, deferredVars
<1>2. \A g \in Fibers : pc'[g] = IF g = f THEN "done" ELSE pc[g]
  BY DEF WaitersInv, Places, Return
<1>3. Places'
  BY DEF WaitersInv, Places, Return, PCs
<1>4. OwnDeferreds'
  BY <1>1, <1>2 DEF WaitersInv, OwnDeferreds, D!IsSet
<1>5. HeirsWait'
  BY <1>1, <1>2 DEF WaitersInv, HeirsWait, Places, D!IsSet
<1>6. ListsAreExact'
  BY <1>1, <1>2 DEF WaitersInv, ListsAreExact, Chosen, D!IsSet
<1> QED BY <1>1, <1>3, <1>4, <1>5, <1>6 DEF WaitersInv

(* The operation joins a list.                                             *)
LEMMA WaitWaiters ==
    ASSUME WaitersInv, NEW f \in Fibers, pc[f] = "idle", Wait(f),
           IsInjective(takers'), IsInjective(offerers'),
           ToSet(takers') \cup ToSet(offerers') = ToSet(takers) \cup ToSet(offerers) \cup {f}
    PROVE  WaitersInv'
<1>1. ~D!IsSet(f) /\ ~Chosen(f)
  BY DEF WaitersInv, OwnDeferreds, HeirsWait, Chosen
<1>2. /\ DeferredsOK'
      /\ \A g \in Fibers : /\ cell'[g].value = cell[g].value
                          /\ get'[g].on = IF g = f THEN f ELSE get[g].on
  BY StartDeferred DEF WaitersInv, Wait
<1>3. UNCHANGED <<heir, answer>> /\ \A g \in Fibers : pc'[g] = IF g = f THEN "awaiting" ELSE pc[g]
  BY DEF WaitersInv, Places, Wait
<1>4. Places'
  BY DEF WaitersInv, Places, Wait, PCs
<1>5. OwnDeferreds'
  BY <1>2, <1>3 DEF WaitersInv, OwnDeferreds, D!IsSet
<1>6. HeirsWait'
  BY <1>2, <1>3 DEF WaitersInv, HeirsWait, Places, D!IsSet
<1>7. ListsAreExact'
  BY <1>1, <1>2, <1>3 DEF WaitersInv, ListsAreExact, Chosen, D!IsSet
<1> QED BY <1>2, <1>4, <1>5, <1>6, <1>7 DEF WaitersInv

(* The operation takes somebody off a list, to complete its Deferred.      *)
LEMMA HandOverWaiters ==
    ASSUME WaitersInv, NEW f \in Fibers, NEW g \in Fibers, NEW a \in Answers,
           pc[f] = "idle", HandOver(f, g, a), f \in Producers <=> g \in Consumers,
           IsInjective(takers'), IsInjective(offerers'),
           g \in ToSet(takers) \cup ToSet(offerers),
           ToSet(takers') \cup ToSet(offerers') = (ToSet(takers) \cup ToSet(offerers)) \ {g}
    PROVE  WaitersInv'
<1>1. pc[g] = "awaiting" /\ ~D!IsSet(g) /\ ~Chosen(g) /\ g # f
  BY DEF WaitersInv, ListsAreExact
<1>2. DeferredsOK' /\ UNCHANGED <<cell, get>>
  BY SameDeferreds DEF WaitersInv, HandOver, deferredVars
<1>3. \A h \in Fibers : /\ pc'[h] = IF h = f THEN "handing" ELSE pc[h]
                        /\ heir'[h] = IF h = f THEN g ELSE heir[h]
  BY DEF WaitersInv, Places, HandOver
<1>4. Places'
  BY DEF WaitersInv, Places, HandOver, PCs
<1>5. OwnDeferreds'
  BY <1>2, <1>3 DEF WaitersInv, OwnDeferreds, D!IsSet
<1>6. HeirsWait'
  <2>1. \A h \in Fibers : pc[h] = "handing" => heir[h] # g
    BY <1>1 DEF Chosen
  <2> QED BY <1>1, <1>2, <1>3, <2>1 DEF WaitersInv, HeirsWait, Places, D!IsSet
<1>7. ListsAreExact'
  <2>1. ASSUME NEW h \in Fibers PROVE Chosen(h)' <=> Chosen(h) \/ h = g
    BY <1>1, <1>3 DEF Chosen
  <2> QED BY <1>1, <1>2, <1>3, <2>1 DEF WaitersInv, ListsAreExact, D!IsSet
<1> QED BY <1>2, <1>4, <1>5, <1>6, <1>7 DEF WaitersInv

(* offer and tryOffer.                                                     *)
LEMMA OfferWaiters ==
    ASSUME StateInv, WaitersInv, NEW p \in Producers, Offer(p) \/ TryOffer(p)
    PROVE  WaitersInv'
<1>1. /\ p \in Fibers /\ pc[p] = "idle" /\ {"ok", "false"} \subseteq Answers
      /\ IsInjective(takers) /\ IsInjective(offerers)
      /\ takers \in Seq(Consumers) /\ offerers \in Seq(Producers)
      /\ Producers \cap Consumers = {}
  BY QueueAssumption DEF Offer, TryOffer, Fibers, Answers, WaitersInv, ListsAreExact, StateInv, StateOK
<1>2. CASE OfferToTaker(p)
  <2> DEFINE h == Head(takers)
  <2>1. /\ takers # <<>> /\ takers' = Tail(takers) /\ offerers' = offerers
        /\ HandOver(p, h, "ok")
    BY <1>2 DEF OfferToTaker
  <2>2. /\ h \in Consumers /\ h \in ToSet(takers) /\ IsInjective(takers')
        /\ ToSet(takers) = {h} \cup ToSet(takers') /\ h \notin ToSet(takers')
    BY <1>1, <2>1, TailFacts
  <2> HIDE DEF h
  <2>3. h \in Fibers /\ h \notin ToSet(offerers)
    BY <1>1, <2>2 DEF Fibers, ToSet
  <2>4. ToSet(takers') \cup ToSet(offerers') = (ToSet(takers) \cup ToSet(offerers)) \ {h}
    BY <2>1, <2>2, <2>3
  <2> QED BY <1>1, <2>1, <2>2, <2>3, <2>4, HandOverWaiters
<1>3. CASE BlockOffer(p)
  <2>1. offerers' = Append(offerers, p) /\ takers' = takers /\ Wait(p)
    BY <1>3 DEF BlockOffer
  <2>2. p \notin ToSet(offerers)
    BY <1>1 DEF WaitersInv, ListsAreExact
  <2>3. IsInjective(offerers') /\ ToSet(offerers') = ToSet(offerers) \cup {p}
    BY <1>1, <2>1, <2>2, AppendFacts
  <2>4. ToSet(takers') \cup ToSet(offerers') = ToSet(takers) \cup ToSet(offerers) \cup {p}
    BY <2>1, <2>3
  <2> QED BY <1>1, <2>1, <2>3, <2>4, WaitWaiters
<1>4. CASE OfferToQueue(p) \/ Overwrite(p) \/ Drop(p, "ok") \/ Drop(p, "false")
  <2>1. (Return(p, "ok") \/ Return(p, "false")) /\ UNCHANGED <<takers, offerers>>
    BY <1>4 DEF OfferToQueue, Overwrite, Drop, state
  <2> QED BY <1>1, <2>1, ReturnWaiters
<1> QED BY <1>2, <1>3, <1>4 DEF Offer, TryOffer

(* take and tryTake.                                                       *)
LEMMA TakeWaiters ==
    ASSUME StateInv, WaitersInv, NEW c \in Consumers, Take(c) \/ TryTake(c)
    PROVE  WaitersInv'
<1>1. /\ c \in Fibers /\ c \notin Producers /\ pc[c] = "idle"
      /\ Producers \subseteq Answers /\ None \in Answers
      /\ IsInjective(takers) /\ IsInjective(offerers)
      /\ takers \in Seq(Consumers) /\ offerers \in Seq(Producers) /\ queue \in Seq(Producers)
      /\ Producers \cap Consumers = {}
  BY QueueAssumption DEF Take, TryTake, Fibers, Answers, WaitersInv, ListsAreExact, StateInv, StateOK
<1>2. CASE TakeFromQueue(c)
  <2>1. Head(queue) \in Answers
    BY <1>1, <1>2, TailFacts DEF TakeFromQueue
  <2> QED BY <1>1, <1>2, <2>1, ReturnWaiters DEF TakeFromQueue
<1>3. CASE TakeAndRefill(c) \/ TakeFromOfferer(c)
  <2> DEFINE h == Head(offerers)
  <2>1. /\ offerers # <<>> /\ offerers' = Tail(offerers) /\ takers' = takers
        /\ \/ queue # <<>> /\ HandOver(c, h, Head(queue))
           \/ HandOver(c, h, h)
    BY <1>3 DEF TakeAndRefill, TakeFromOfferer
  <2>2. /\ h \in Producers /\ h \in ToSet(offerers) /\ IsInjective(offerers')
        /\ ToSet(offerers) = {h} \cup ToSet(offerers') /\ h \notin ToSet(offerers')
    BY <1>1, <2>1, TailFacts
  <2>3. queue # <<>> => Head(queue) \in Producers
    BY <1>1, TailFacts
  <2> HIDE DEF h
  <2>4. PICK a \in Answers : HandOver(c, h, a)
    BY <1>1, <2>1, <2>2, <2>3
  <2>5. h \in Fibers /\ h \notin Consumers /\ h \notin ToSet(takers)
    BY <1>1, <2>2 DEF Fibers, ToSet
  <2>6. ToSet(takers') \cup ToSet(offerers') = (ToSet(takers) \cup ToSet(offerers)) \ {h}
    BY <2>1, <2>2, <2>5
  <2> QED BY <1>1, <2>1, <2>2, <2>4, <2>5, <2>6, HandOverWaiters
<1>4. CASE BlockTake(c)
  <2>1. takers' = Append(takers, c) /\ offerers' = offerers /\ Wait(c)
    BY <1>4 DEF BlockTake
  <2>2. c \notin ToSet(takers)
    BY <1>1 DEF WaitersInv, ListsAreExact
  <2>3. IsInjective(takers') /\ ToSet(takers') = ToSet(takers) \cup {c}
    BY <1>1, <2>1, <2>2, AppendFacts
  <2>4. ToSet(takers') \cup ToSet(offerers') = ToSet(takers) \cup ToSet(offerers) \cup {c}
    BY <2>1, <2>3
  <2> QED BY <1>1, <2>1, <2>3, <2>4, WaitWaiters
<1>5. CASE Return(c, None) /\ UNCHANGED state
  BY <1>1, <1>5, ReturnWaiters DEF state
<1> QED BY <1>2, <1>3, <1>4, <1>5 DEF Take, TryTake, TakeSome

(* A step inside a get(), or a callback: no Deferred is completed.         *)
LEMMA QuietWaiters ==
    ASSUME WaitersInv, NEW f \in Fibers,
           D!GetStep(f) \/ D!CancelGet(f) \/ D!NotifyReader(f),
           UNCHANGED <<state, pc, heir, answer>>
    PROVE  /\ WaitersInv'
           /\ \A g \in Fibers : cell'[g].value = cell[g].value
<1>1. /\ DeferredsOK'
      /\ \A g \in Fibers : cell'[g].value = cell[g].value /\ get'[g].on = get[g].on
  BY QuietDeferreds DEF WaitersInv
<1>2. Places'
  BY DEF WaitersInv, Places
<1>3. OwnDeferreds'
  BY <1>1 DEF WaitersInv, OwnDeferreds, D!IsSet
<1>4. HeirsWait'
  BY <1>1 DEF WaitersInv, HeirsWait, Places, D!IsSet
<1>5. ListsAreExact'
  BY <1>1 DEF WaitersInv, ListsAreExact, Chosen, D!IsSet, state
<1> QED BY <1>1, <1>2, <1>3, <1>4, <1>5 DEF WaitersInv

(* The popped fiber gets its answer: the element, if it is a consumer.     *)
LEMMA CompleteHeirFacts ==
    ASSUME WaitersInv, NEW f \in Fibers, CompleteHeir(f)
    PROVE  /\ pc[f] = "handing" /\ heir[f] \in Fibers /\ heir[f] # f
           /\ f \in Producers <=> heir[f] \in Consumers
           /\ pc[heir[f]] \in {"awaiting", "canceled"}
           /\ ~D!IsSet(heir[f])
           /\ DeferredsOK' /\ UNCHANGED <<get, heir, answer, takers, offerers>>
           /\ cell'[heir[f]].value = f /\ f # D!NoValue
           /\ \A g \in Fibers \ {heir[f]} : cell'[g].value = cell[g].value
           /\ pc' = [pc EXCEPT ![f] = "notifying"]
<1>1. /\ pc[f] = "handing" /\ heir[f] \in Fibers /\ heir[f] # f
      /\ f \in Producers <=> heir[f] \in Consumers
      /\ pc[heir[f]] \in {"awaiting", "canceled"}
      /\ ~D!IsSet(heir[f]) /\ D!Complete(f, heir[f])
  BY DEF CompleteHeir, WaitersInv, HeirsWait, Places
<1>2. /\ DeferredsOK' /\ UNCHANGED get
      /\ cell'[heir[f]].value = f /\ f # D!NoValue
      /\ \A g \in Fibers \ {heir[f]} : cell'[g].value = cell[g].value
  BY <1>1, CompleteDeferred DEF WaitersInv
<1> QED BY <1>1, <1>2 DEF CompleteHeir, state

LEMMA CompleteHeirWaiters ==
    ASSUME WaitersInv, NEW f \in Fibers, CompleteHeir(f)
    PROVE  WaitersInv'
<1> DEFINE h == heir[f]
<1>1. /\ pc[f] = "handing" /\ h \in Fibers /\ h # f
      /\ f \in Producers <=> h \in Consumers
      /\ pc[h] \in {"awaiting", "canceled"}
      /\ ~D!IsSet(h)
      /\ DeferredsOK' /\ UNCHANGED <<get, heir, answer, takers, offerers>>
      /\ cell'[h].value = f /\ f # D!NoValue
      /\ \A g \in Fibers \ {h} : cell'[g].value = cell[g].value
      /\ pc' = [pc EXCEPT ![f] = "notifying"]
  BY CompleteHeirFacts
<1>2. \A g \in Fibers : pc[g] = "handing" /\ heir[g] = h => g = f
  BY <1>1 DEF WaitersInv, HeirsWait
<1>3. Chosen(h) /\ h \notin ToSet(takers) \cup ToSet(offerers)
  BY <1>1 DEF Chosen, WaitersInv, ListsAreExact
<1>4. heir[f] = h
  OBVIOUS
<1> HIDE DEF h
<1>5. \A g \in Fibers : pc'[g] = IF g = f THEN "notifying" ELSE pc[g]
  BY <1>1 DEF WaitersInv, Places
<1>6. Places'
  BY <1>1 DEF WaitersInv, Places, PCs
<1>7. OwnDeferreds'
  BY <1>1, <1>5 DEF WaitersInv, OwnDeferreds, D!IsSet
<1>8. HeirsWait'
  BY <1>1, <1>2, <1>4, <1>5 DEF WaitersInv, HeirsWait, Places, D!IsSet
<1>9. ListsAreExact'
  <2>1. ASSUME NEW g \in Fibers \ {h} PROVE Chosen(g)' <=> Chosen(g)
    BY <1>1, <1>4, <1>5 DEF Chosen
  <2> QED BY <1>1, <1>3, <1>5, <2>1 DEF WaitersInv, ListsAreExact, D!IsSet
<1> QED BY <1>1, <1>6, <1>7, <1>8, <1>9 DEF WaitersInv

(* The popped fiber has its answer, and goes on.                           *)
LEMMA AwaitedFacts ==
    ASSUME WaitersInv, NEW f \in Fibers, Awaited(f)
    PROVE  /\ D!IsSet(f) /\ pc[f] = "awaiting"
           /\ f \in Consumers => cell[f].value \in Producers
<1>1. get[f].pc = "got" /\ get[f] # D!NotGetting
  BY DEF Awaited, D!At, D!NotGetting
<1>2. get[f].pc \in DP!ResultPCs
  BY <1>1 DEF DP!ResultPCs
<1>3. get[f].on \in Fibers
  BY <1>1, SameState DEF WaitersInv, DeferredsOK, DP!Inv, DP!TypeOK
<1>4. get[f].on = f
  BY <1>3, Names DEF WaitersInv, OwnDeferreds, D!Nowhere, DP!Nowhere
<1>5. D!IsSet(f)
  BY <1>2, <1>4, SameState DEF WaitersInv, DeferredsOK, DP!ResultsAreSet
<1> QED BY <1>5 DEF Awaited, WaitersInv, OwnDeferreds, D!IsSet

LEMMA AwaitedWaiters ==
    ASSUME WaitersInv, NEW f \in Fibers, Awaited(f)
    PROVE  WaitersInv'
<1>1. /\ D!IsSet(f) /\ pc[f] = "awaiting"
      /\ f \in Consumers => cell[f].value \in Producers
  BY AwaitedFacts
<1>2. DeferredsOK' /\ UNCHANGED <<takers, offerers, heir, cell, get>>
  BY SameDeferreds DEF Awaited, WaitersInv, deferredVars, state
<1>3. \A g \in Fibers : pc'[g] = IF g = f THEN "done" ELSE pc[g]
  BY DEF Awaited, WaitersInv, Places
<1>4. Places'
  BY <1>1 DEF Awaited, WaitersInv, Places, PCs, Answers
<1>5. OwnDeferreds'
  BY <1>2, <1>3 DEF WaitersInv, OwnDeferreds, D!IsSet
<1>6. HeirsWait'
  BY <1>1, <1>2, <1>3 DEF WaitersInv, HeirsWait, Places, D!IsSet
<1>7. ListsAreExact'
  BY <1>1, <1>2, <1>3 DEF WaitersInv, ListsAreExact, Chosen, D!IsSet
<1> QED BY <1>2, <1>4, <1>5, <1>6, <1>7 DEF WaitersInv

(* A canceled fiber leaves its list, if nobody popped it before.           *)
LEMMA CleanupWaiters ==
    ASSUME StateInv, WaitersInv, NEW f \in Fibers, Cleanup(f)
    PROVE  WaitersInv'
<1>1. /\ ToSet(takers') = ToSet(takers) \ {f} /\ IsInjective(takers')
      /\ ToSet(offerers') = ToSet(offerers) \ {f} /\ IsInjective(offerers')
  BY WithoutFacts DEF Cleanup, StateInv, StateOK, WaitersInv, ListsAreExact
<1>2. pc[f] = "awaiting" /\ UNCHANGED <<heir, cell, get>>
  BY DEF Cleanup, deferredVars
<1>3. \A g \in Fibers : pc'[g] = IF g = f THEN "canceled" ELSE pc[g]
  BY DEF Cleanup, WaitersInv, Places
<1>4. DeferredsOK'
  BY SameDeferreds DEF Cleanup, WaitersInv
<1>5. Places'
  BY DEF Cleanup, WaitersInv, Places, PCs
<1>6. OwnDeferreds'
  BY <1>2, <1>3 DEF WaitersInv, OwnDeferreds, D!IsSet
<1>7. HeirsWait'
  BY <1>2, <1>3 DEF WaitersInv, HeirsWait, Places, D!IsSet
<1>8. ListsAreExact'
  BY <1>1, <1>2, <1>3 DEF WaitersInv, ListsAreExact, Chosen, D!IsSet
<1> QED BY <1>4, <1>5, <1>6, <1>7, <1>8 DEF WaitersInv

(* An operation that handed something over returns.                        *)
LEMMA ReturnedWaiters ==
    ASSUME WaitersInv, NEW f \in Fibers, pc[f] = "notifying",
           pc' = [pc EXCEPT ![f] = "done"],
           UNCHANGED <<state, heir, answer, deferredVars>>
    PROVE  WaitersInv'
<1>1. DeferredsOK' /\ UNCHANGED <<takers, offerers, cell, get>>
  BY SameDeferreds DEF WaitersInv, deferredVars, state
<1>2. \A g \in Fibers : pc'[g] = IF g = f THEN "done" ELSE pc[g]
  BY DEF WaitersInv, Places
<1>3. Places'
  BY DEF WaitersInv, Places, PCs
<1>4. OwnDeferreds'
  BY <1>1, <1>2 DEF WaitersInv, OwnDeferreds, D!IsSet
<1>5. HeirsWait'
  BY <1>1, <1>2 DEF WaitersInv, HeirsWait, Places, D!IsSet
<1>6. ListsAreExact'
  BY <1>1, <1>2 DEF WaitersInv, ListsAreExact, Chosen, D!IsSet
<1> QED BY <1>1, <1>3, <1>4, <1>5, <1>6 DEF WaitersInv

(* No fiber waits yet.                                                     *)
LEMMA WaitersInit == Init => WaitersInv
<1> SUFFICES ASSUME Init PROVE WaitersInv
  OBVIOUS
<1>1. DP!Init
  BY SameState DEF Init
<1>2. DP!Inv
  BY <1>1, Names, DP!InvInit
<1>3. DP!ResultsAreSet
  BY <1>1 DEF DP!Init, DP!ResultsAreSet, DP!ResultPCs, DP!NotGetting
<1>4. Places
  BY DEF Init, Places, PCs, Answers
<1>5. OwnDeferreds /\ HeirsWait
  BY DEF Init, OwnDeferreds, HeirsWait, D!Init, D!IsSet, D!NotGetting
<1>6. IsInjective(<<>>) /\ ToSet(<<>>) = {}
  BY DEF IsInjective, ToSet
<1>7. ListsAreExact
  BY <1>6 DEF Init, ListsAreExact
<1> QED BY <1>2, <1>3, <1>4, <1>5, <1>7 DEF WaitersInv, DeferredsOK

LEMMA WaitersNext == StateInv /\ WaitersInv /\ [Next]_vars => WaitersInv'
<1> SUFFICES ASSUME StateInv, WaitersInv, [Next]_vars PROVE WaitersInv'
  OBVIOUS
<1>1. ASSUME NEW p \in Producers, Offer(p) \/ TryOffer(p) PROVE WaitersInv'
  BY <1>1, OfferWaiters
<1>2. ASSUME NEW c \in Consumers, Take(c) \/ TryTake(c) PROVE WaitersInv'
  BY <1>2, TakeWaiters
<1>3. ASSUME NEW f \in Fibers, CancelAwait(f) \/ AwaitStep(f) PROVE WaitersInv'
  BY <1>3, QuietWaiters DEF CancelAwait, AwaitStep
<1>4. ASSUME NEW f \in Fibers, CompleteHeir(f) PROVE WaitersInv'
  BY <1>4, CompleteHeirWaiters
<1>5. ASSUME NEW f \in Fibers, NotifyHeir(f) PROVE WaitersInv'
  <2>1. CASE D!Notifying(f)
    BY <1>5, <2>1, QuietWaiters DEF NotifyHeir
  <2>2. CASE ~D!Notifying(f)
    BY <1>5, <2>2, ReturnedWaiters DEF NotifyHeir
  <2> QED BY <2>1, <2>2
<1>6. ASSUME NEW f \in Fibers, Awaited(f) PROVE WaitersInv'
  BY <1>6, AwaitedWaiters
<1>7. ASSUME NEW f \in Fibers, Cleanup(f) PROVE WaitersInv'
  BY <1>7, CleanupWaiters
<1>8. CASE UNCHANGED vars
  <2>1. DeferredsOK'
    BY <1>8, SameDeferreds DEF WaitersInv, vars
  <2> QED BY <1>8, <2>1 DEF vars, state, deferredVars, WaitersInv, Places, OwnDeferreds,
                            HeirsWait, ListsAreExact, Chosen, D!IsSet
<1> QED BY <1>1, <1>2, <1>3, <1>4, <1>5, <1>6, <1>7, <1>8 DEF Next, Step

(* The waiting lists hold exactly the fibers that wait and were not        *)
(* chosen, once each: a cancelation leaves nobody behind on a list and     *)
(* takes nobody else off it.                                               *)
THEOREM ListsExact == Spec => []ListsAreExact
<1>1. WaitersInv => ListsAreExact
  BY DEF WaitersInv
<1> QED BY StateAlways, WaitersInit, WaitersNext, <1>1, PTL DEF Spec

(* The queue, its lists, answers and Deferreds keep their types.           *)
THEOREM TypeCorrect == Spec => []TypeOK
<1> DEFINE ConfigOK == kind \in Kinds /\ capacity \in Capacities
<1>1. Init => ConfigOK
  BY DEF Init
<1>2. ConfigOK /\ [Next]_vars => ConfigOK'
  BY DEF Next, Step, Offer, TryOffer, Take, TryTake, CancelAwait, CompleteHeir, NotifyHeir,
         AwaitStep, Awaited, Cleanup, vars, config
<1>3. StateInv /\ WaitersInv /\ ConfigOK => TypeOK
  BY SameState DEF StateInv, StateOK, NobodyWaitsInVain, WaitersInv, Places, DeferredsOK,
                   DP!Inv, TypeOK
<1> HIDE DEF ConfigOK
<1> QED BY StateAlways, WaitersInit, WaitersNext, <1>1, <1>2, <1>3, PTL DEF Spec

-----------------------------------------------------------------------------
(* Where the elements are, and that each step is a step of a FIFO.         *)

Offered == {e \in Producers : pc[e] # "idle"}
Received == {e \in Producers : Holders(e) # {}}

FIFOStep == [Abstract!Next]_(Abstract!vars)

SameHands == \A c \in Consumers, e \in Producers : HandedTo(c, e)' <=> HandedTo(c, e)

(* Only the producers of P begin their operations.                         *)
OnlyBegin(P) ==
    /\ \A e \in P : pc[e] = "idle" /\ pc'[e] # "idle"
    /\ \A e \in Producers \ P : /\ pc'[e] = "idle" <=> pc[e] = "idle"
                                /\ answer'[e] = "false" <=> answer[e] = "false"

(* Nothing is handed over: an element at most joins or leaves the queue.   *)
LEMMA KeepElements ==
    ASSUME ElementsInv, SameHands, NEW P \in SUBSET Producers, OnlyBegin(P),
           IsInjective(contents'), ToSet(contents') \subseteq ToSet(contents) \cup P,
           \A e \in P : e \in ToSet(contents') => answer'[e] # "false"
    PROVE  /\ ElementsInv'
           /\ Offered' = Offered \cup P /\ P \cap Offered = {}
           /\ Received' = Received
<1>1. Offered' = Offered \cup P /\ P \cap Offered = {}
  BY DEF Offered, OnlyBegin
<1>2. Received' = Received
  BY DEF Received, Holders, SameHands
<1>3. ASSUME NEW e \in Producers
      PROVE  /\ e \in ToSet(contents') => pc'[e] # "idle" /\ answer'[e] # "false"
             /\ e \in ToSet(contents') \/ answer'[e] = "false" \/ pc'[e] = "idle" =>
                  \A c \in Consumers : ~HandedTo(c, e)'
             /\ \A c, d \in Consumers : HandedTo(c, e)' /\ HandedTo(d, e)' => c = d
  BY DEF ElementsInv, SameHands, OnlyBegin
<1>4. ElementsInv'
  BY <1>3 DEF ElementsInv
<1> QED BY <1>1, <1>2, <1>4

(* The element x is handed to the consumer d.                              *)
LEMMA GiveElement ==
    ASSUME ElementsInv, NEW x \in Producers, NEW d \in Consumers,
           \A c \in Consumers : ~HandedTo(c, x),
           \A c \in Consumers, e \in Producers :
                HandedTo(c, e)' <=> HandedTo(c, e) \/ (c = d /\ e = x),
           NEW P \in SUBSET {x}, OnlyBegin(P),
           pc'[x] # "idle", answer'[x] # "false",
           IsInjective(contents'), ToSet(contents') \subseteq ToSet(contents) \ {x}
    PROVE  /\ ElementsInv'
           /\ Offered' = Offered \cup P /\ P \cap Offered = {}
           /\ Received' = Received \cup {x}
<1>1. Offered' = Offered \cup P /\ P \cap Offered = {}
  BY DEF Offered, OnlyBegin
<1>2. Received' = Received \cup {x}
  BY DEF Received, Holders
<1>3. ASSUME NEW e \in Producers
      PROVE  /\ e \in ToSet(contents') => pc'[e] # "idle" /\ answer'[e] # "false"
             /\ e \in ToSet(contents') \/ answer'[e] = "false" \/ pc'[e] = "idle" =>
                  \A c \in Consumers : ~HandedTo(c, e)'
             /\ \A b, c \in Consumers : HandedTo(b, e)' /\ HandedTo(c, e)' => b = c
  <2>1. CASE e = x
    BY <2>1
  <2>2. CASE e # x
    BY <2>2 DEF ElementsInv, OnlyBegin
  <2> QED BY <2>1, <2>2
<1>4. ElementsInv'
  BY <1>3 DEF ElementsInv
<1> QED BY <1>1, <1>2, <1>4

(* A step that moves no element is none of the FIFO.                       *)
LEMMA NoElement ==
    ASSUME ElementsInv, SameHands, OnlyBegin({}), contents' = contents, UNCHANGED config
    PROVE  ElementsInv' /\ FIFOStep
<1>1. /\ ElementsInv'
      /\ Offered' = Offered \cup {} /\ Received' = Received
  BY KeepElements DEF ElementsInv
<1> QED BY <1>1 DEF FIFOStep, Abstract!vars, config, Offered, Received

(* What is in contents.                                                    *)
LEMMA ContentsFacts ==
    ASSUME StateInv, ElementsInv
    PROVE  /\ contents \in Seq(Producers) /\ IsInjective(contents)
           /\ ToSet(contents) = ToSet(queue) \cup ToSet(offerers)
           /\ ToSet(queue) \cap ToSet(offerers) = {}
           /\ Len(contents) = size + Len(offerers) /\ Len(offerers) \in Nat
           /\ size \in Nat /\ capacity \in Nat
           /\ offerers = <<>> => contents = queue
           /\ queue = <<>> => contents = offerers
<1>1. /\ queue \in Seq(Producers) /\ offerers \in Seq(Producers) /\ size = Len(queue)
      /\ IsInjective(queue \o offerers) /\ capacity \in Nat
  BY DEF StateInv, StateOK, NobodyWaitsInVain, ElementsInv, contents
<1>2. Len(queue) \in Nat /\ Len(offerers) \in Nat
  BY <1>1
<1> QED BY <1>1, <1>2, JoinFacts, ConcatEmptySeq DEF contents

(* An operation of f that returns at once, or waits.                       *)
LEMMA OwnStep ==
    ASSUME WaitersInv, NEW f \in Fibers, pc[f] = "idle",
           NEW a \in Answers, f \in Consumers => a = None,
           Return(f, a) \/ Wait(f)
    PROVE  /\ SameHands
           /\ pc'[f] # "idle" /\ answer'[f] \in {a, NoAnswer}
           /\ \A g \in Fibers \ {f} : pc'[g] = pc[g] /\ answer'[g] = answer[g]
<1>1. /\ pc'[f] \in {"done", "awaiting"} /\ heir' = heir
      /\ answer'[f] \in {a, NoAnswer} /\ answer[f] = NoAnswer
      /\ \A g \in Fibers \ {f} : pc'[g] = pc[g] /\ answer'[g] = answer[g]
  BY DEF Return, Wait, WaitersInv, Places
<1>2. \A g \in Fibers : cell'[g].value = cell[g].value
  BY DEF Return, Wait, deferredVars, D!StartGet
<1>3. ASSUME NEW c \in Consumers, NEW e \in Producers PROVE HandedTo(c, e)' <=> HandedTo(c, e)
  <2>1. e \notin {None, NoAnswer} /\ c \in Fibers /\ e \in Fibers
    BY QueueAssumption DEF Fibers
  <2> QED BY <1>1, <1>2, <2>1 DEF HandedTo
<1> QED BY <1>1, <1>3 DEF SameHands

(* offer and tryOffer: Put, Pass, Refuse and Evict.                        *)
LEMMA OfferElements ==
    ASSUME StateInv, WaitersInv, ElementsInv, NEW p \in Producers, Offer(p) \/ TryOffer(p)
    PROVE  ElementsInv' /\ FIFOStep
<1>1. /\ p \in Fibers /\ pc[p] = "idle" /\ p \notin ToSet(contents)
      /\ "ok" \in Answers /\ "false" \in Answers /\ UNCHANGED config
      /\ Producers \subseteq Fibers /\ Consumers \subseteq Fibers /\ p \notin Consumers
      /\ NoAnswer \notin {"ok", "false"}
  BY QueueAssumption DEF Offer, TryOffer, Fibers, Answers, ElementsInv, NoAnswer
<1>2. /\ queue \in Seq(Producers) /\ offerers \in Seq(Producers) /\ takers \in Seq(Consumers)
      /\ size = Len(queue) /\ size <= capacity
      /\ takers # <<>> => Nothing
      /\ offerers # <<>> => size = capacity /\ kind = "bounded"
      /\ kind # "bounded" => capacity > 0
  BY DEF StateInv, StateOK, NobodyWaitsInVain
<1> DEFINE k == contents
<1>3. /\ k \in Seq(Producers) /\ IsInjective(k)
      /\ Len(k) = size + Len(offerers) /\ Len(offerers) \in Nat
      /\ size \in Nat /\ capacity \in Nat
      /\ offerers = <<>> => k = queue
  BY ContentsFacts
<1>4. CASE OfferToTaker(p)
  <2> DEFINE h == Head(takers)
  <2>1. takers # <<>> /\ HandOver(p, h, "ok") /\ UNCHANGED <<queue, size, offerers>>
    BY <1>4 DEF OfferToTaker
  <2>2. h \in Consumers /\ queue = <<>> /\ offerers = <<>>
    BY <1>2, <2>1, TailFacts DEF Nothing
  <2> HIDE DEF h
  <2>3. k = <<>> /\ contents' = k
    BY <1>3, <2>1, <2>2 DEF contents
  <2>4. /\ pc'[p] = "handing" /\ heir'[p] = h /\ answer'[p] = "ok" /\ cell' = cell
        /\ \A g \in Fibers \ {p} : pc'[g] = pc[g] /\ heir'[g] = heir[g] /\ answer'[g] = answer[g]
    BY <1>1, <2>1 DEF HandOver, deferredVars, WaitersInv, Places
  <2>5. \A c \in Consumers, e \in Producers :
            HandedTo(c, e)' <=> HandedTo(c, e) \/ (c = h /\ e = p)
    BY <1>1, <2>4 DEF HandedTo
  <2>6. OnlyBegin({p})
    BY <1>1, <2>4 DEF OnlyBegin
  <2>7. \A c \in Consumers : ~HandedTo(c, p)
    BY <1>1 DEF ElementsInv
  <2>8. ToSet(contents') \subseteq ToSet(contents) \ {p} /\ IsInjective(contents')
    BY <1>1, <1>3, <2>3
  <2>9. /\ ElementsInv'
        /\ Offered' = Offered \cup {p} /\ p \notin Offered
        /\ Received' = Received \cup {p}
    BY <2>2, <2>4, <2>5, <2>6, <2>7, <2>8, GiveElement
  <2>10. Abstract!Pass(p)
    BY <2>3, <2>9 DEF Abstract!Pass, Abstract!OfferFirst, Offered, Received
  <2> QED BY <1>1, <2>9, <2>10 DEF FIFOStep, Abstract!Next, config
<1>5. CASE Return(p, "ok") \/ Return(p, "false") \/ Wait(p)
  <2>1. /\ SameHands /\ OnlyBegin({p})
        /\ ~Return(p, "false") => answer'[p] # "false"
    <3>1. CASE Return(p, "false")
      BY <1>1, <1>5, <3>1, OwnStep DEF OnlyBegin
    <3>2. CASE Return(p, "ok") \/ Wait(p)
      BY <1>1, <1>5, <3>2, OwnStep DEF OnlyBegin
    <3> QED BY <1>5, <3>1, <3>2
  <2>2. CASE OfferToQueue(p) \/ BlockOffer(p)
    <3>1. contents' = Append(k, p) /\ (Len(k) >= capacity => kind = "bounded")
      <4>1. CASE OfferToQueue(p)
        <5>1. /\ queue' = Append(queue, p) /\ offerers' = offerers /\ size < capacity
              /\ offerers = <<>>
          BY <1>2, <1>3, <4>1 DEF OfferToQueue
        <5>2. contents' = Append(queue, p)
          BY <1>2, <5>1, AppendProperties, ConcatEmptySeq DEF contents
        <5> QED BY <1>2, <1>3, <5>1, <5>2
      <4>2. CASE BlockOffer(p)
        BY <1>2, <4>2, JoinAppend DEF BlockOffer, contents
      <4> QED BY <2>2, <4>1, <4>2
    <3>2. IsInjective(contents') /\ ToSet(contents') = ToSet(contents) \cup {p}
      BY <1>1, <1>3, <3>1, AppendFacts
    <3>3. answer'[p] # "false"
      <4>1. answer' = [answer EXCEPT ![p] = "ok"] \/ answer' = answer
        BY <2>2 DEF OfferToQueue, BlockOffer, Return, Wait
      <4> QED BY <1>1, <4>1 DEF WaitersInv, Places
    <3>4. /\ ElementsInv'
          /\ Offered' = Offered \cup {p} /\ p \notin Offered
          /\ Received' = Received
      BY <2>1, <3>2, <3>3, KeepElements
    <3>5. Abstract!Put(p)
      BY <3>1, <3>4 DEF Abstract!Put, Abstract!OfferFirst, Abstract!Full, Offered, Received
    <3> QED BY <1>1, <3>4, <3>5 DEF FIFOStep, Abstract!Next, config
  <2>3. CASE Overwrite(p)
    <3>1. /\ kind = "circular" /\ size >= capacity /\ queue' = Append(Tail(queue), p)
          /\ offerers' = offerers /\ Return(p, "ok")
      BY <2>3 DEF Overwrite, NoCapacity
    <3>2. offerers = <<>> /\ queue # <<>> /\ k = queue
      BY <1>2, <1>3, <3>1
    <3>3. /\ Tail(k) \in Seq(Producers) /\ IsInjective(Tail(k))
          /\ ToSet(k) = {Head(k)} \cup ToSet(Tail(k))
      BY <1>3, <3>2, TailFacts
    <3>4. contents' = Append(Tail(k), p)
      <4>1. Append(Tail(queue), p) \in Seq(Producers)
        BY <3>2, <3>3, AppendProperties
      <4>2. contents' = Append(Tail(queue), p) \o <<>>
        BY <3>1, <3>2 DEF contents
      <4>3. contents' = Append(Tail(queue), p)
        BY <4>1, <4>2, ConcatEmptySeq
      <4> QED BY <3>2, <4>3
    <3>5. IsInjective(contents') /\ ToSet(contents') = ToSet(Tail(k)) \cup {p}
      <4> DEFINE t == Tail(k)
      <4>1. t \in Seq(Producers) /\ IsInjective(t) /\ p \notin ToSet(t)
        BY <1>1, <3>3
      <4>2. contents' = Append(t, p)
        BY <3>4
      <4> HIDE DEF t
      <4>3. IsInjective(contents') /\ ToSet(contents') = ToSet(t) \cup {p}
        BY <4>1, <4>2, AppendFacts
      <4> QED BY <4>3 DEF t
    <3>6. answer'[p] # "false"
      BY <1>1, <3>1 DEF Return, WaitersInv, Places
    <3>7. /\ ElementsInv'
          /\ Offered' = Offered \cup {p} /\ p \notin Offered
          /\ Received' = Received
      BY <2>1, <3>3, <3>5, <3>6, KeepElements
    <3>8. Abstract!Evict(p)
      BY <1>3, <3>1, <3>4, <3>7
         DEF Abstract!Evict, Abstract!OfferFirst, Abstract!Full, Offered, Received
    <3> QED BY <1>1, <3>7, <3>8 DEF FIFOStep, Abstract!Next, config
  <2>4. CASE /\ Drop(p, "ok") \/ Drop(p, "false")
             /\ kind # "circular"
    <3>1. contents' = k /\ size >= capacity
      BY <2>4 DEF Drop, NoCapacity, state, contents
    <3>2. /\ ElementsInv'
          /\ Offered' = Offered \cup {p} /\ p \notin Offered
          /\ Received' = Received
      BY <1>1, <1>3, <2>1, <3>1, KeepElements
    <3>3. Abstract!Refuse(p)
      BY <1>3, <2>4, <3>1, <3>2
         DEF Abstract!Refuse, Abstract!OfferFirst, Abstract!Full, Offered, Received
    <3> QED BY <1>1, <3>2, <3>3 DEF FIFOStep, Abstract!Next, config
  <2> QED BY <1>4, <2>2, <2>3, <2>4 DEF Offer, TryOffer
<1> QED BY <1>4, <1>5 DEF Offer, TryOffer, OfferToQueue, BlockOffer, Overwrite, Drop

(* take and tryTake: Deliver, or nothing.                                  *)
LEMMA TakeElements ==
    ASSUME StateInv, WaitersInv, ElementsInv, NEW c \in Consumers, Take(c) \/ TryTake(c)
    PROVE  ElementsInv' /\ FIFOStep
<1>1. /\ c \in Fibers /\ pc[c] = "idle" /\ c \notin Producers /\ UNCHANGED config
      /\ Producers \subseteq Fibers /\ Consumers \subseteq Fibers /\ None \in Answers
  BY QueueAssumption DEF Take, TryTake, Fibers, Answers
<1>2. queue \in Seq(Producers) /\ offerers \in Seq(Producers)
  BY DEF StateInv, StateOK
<1> DEFINE k == contents
           x == Head(k)
<1>3. /\ k \in Seq(Producers) /\ IsInjective(k)
      /\ offerers = <<>> => k = queue
      /\ queue = <<>> => k = offerers
  BY ContentsFacts
<1>4. CASE TakeSome(c)
  <2>1. k # <<>> /\ contents' = Tail(k)
    <3>1. CASE TakeFromQueue(c)
      <4>1. Tail(queue) \in Seq(Producers)
        BY <1>2, <3>1, TailFacts DEF TakeFromQueue
      <4> QED BY <1>3, <3>1, <4>1, ConcatEmptySeq DEF TakeFromQueue, contents
    <3>2. CASE TakeAndRefill(c)
      <4>1. /\ queue # <<>> /\ offerers # <<>> /\ Tail(queue) \in Seq(Producers)
            /\ contents' = Append(Tail(queue), Head(offerers)) \o Tail(offerers)
        BY <1>2, <3>2, TailFacts DEF TakeAndRefill, contents
      <4>2. contents' = Tail(queue) \o offerers
        BY <1>2, <4>1, JoinShift
      <4> QED BY <1>2, <4>1, <4>2, JoinTail DEF contents
    <3>3. CASE TakeFromOfferer(c)
      <4>1. Tail(offerers) \in Seq(Producers)
        BY <1>2, <3>3, TailFacts DEF TakeFromOfferer
      <4> QED BY <1>3, <3>3, <4>1, ConcatEmptySeq DEF TakeFromOfferer, contents
    <3> QED BY <1>4, <3>1, <3>2, <3>3 DEF TakeSome
  <2>2. \/ Return(c, x)
        \/ \E g \in Producers : HandOver(c, g, x)
    <3>1. CASE TakeFromQueue(c)
      BY <1>3, <3>1 DEF TakeFromQueue
    <3>2. CASE TakeAndRefill(c)
      <4>1. Head(queue) = x /\ Head(offerers) \in Producers
        BY <1>2, <3>2, JoinTail, TailFacts DEF TakeAndRefill, contents
      <4> QED BY <3>2, <4>1 DEF TakeAndRefill
    <3>3. CASE TakeFromOfferer(c)
      <4>1. Head(offerers) = x /\ Head(offerers) \in Producers
        BY <1>2, <1>3, <3>3, TailFacts DEF TakeFromOfferer
      <4> QED BY <3>3, <4>1 DEF TakeFromOfferer
    <3> QED BY <1>4, <3>1, <3>2, <3>3 DEF TakeSome
  <2>3. /\ x \in Producers /\ x \in ToSet(k) /\ IsInjective(contents')
        /\ ToSet(k) = {x} \cup ToSet(contents') /\ x \notin ToSet(contents')
    BY <1>3, <2>1, TailFacts
  <2> HIDE DEF x
  <2>4. /\ answer'[c] = x /\ answer[c] = NoAnswer /\ cell' = cell
        /\ \A g \in Fibers \ {c} : pc'[g] = pc[g] /\ heir'[g] = heir[g] /\ answer'[g] = answer[g]
    BY <1>1, <2>2 DEF Return, HandOver, deferredVars, WaitersInv, Places
  <2>5. \A d \in Consumers, e \in Producers :
            HandedTo(d, e)' <=> HandedTo(d, e) \/ (d = c /\ e = x)
    <3>1. NoAnswer \notin Producers
      BY QueueAssumption
    <3> QED BY <1>1, <2>4, <3>1 DEF HandedTo
  <2>6. OnlyBegin({})
    BY <1>1, <2>4 DEF OnlyBegin
  <2>7. /\ \A d \in Consumers : ~HandedTo(d, x)
        /\ pc'[x] # "idle" /\ answer'[x] # "false"
    BY <1>1, <2>3, <2>4 DEF ElementsInv
  <2>8. ToSet(contents') \subseteq ToSet(contents) \ {x}
    BY <2>3
  <2>9. /\ ElementsInv'
        /\ Offered' = Offered \cup {} /\ Received' = Received \cup {x}
    BY <2>3, <2>5, <2>6, <2>7, <2>8, GiveElement
  <2>10. Abstract!Deliver
    BY <2>1, <2>9 DEF Abstract!Deliver, Offered, Received, x
  <2> QED BY <1>1, <2>9, <2>10 DEF FIFOStep, Abstract!Next, config
<1>5. CASE BlockTake(c) \/ (Return(c, None) /\ UNCHANGED state)
  <2>1. (Return(c, None) \/ Wait(c)) /\ contents' = contents
    BY <1>5 DEF BlockTake, state, contents
  <2>2. SameHands /\ OnlyBegin({})
    BY <1>1, <2>1, OwnStep DEF OnlyBegin
  <2> QED BY <1>1, <2>1, <2>2, NoElement
<1> QED BY <1>4, <1>5 DEF Take, TryTake

(* A canceled offer withdraws its element, if that is not in the queue yet.*)
LEMMA CleanupElements ==
    ASSUME StateInv, WaitersInv, ElementsInv, NEW f \in Fibers, Cleanup(f)
    PROVE  ElementsInv' /\ FIFOStep
<1>1. /\ pc[f] = "awaiting" /\ pc'[f] = "canceled"
      /\ UNCHANGED <<config, heir, answer, cell, queue>>
      /\ \A g \in Fibers \ {f} : pc'[g] = pc[g]
      /\ offerers' = Without(offerers, f)
      /\ Producers \subseteq Fibers /\ Consumers \subseteq Fibers
  BY DEF Cleanup, deferredVars, WaitersInv, Places, Fibers
<1>2. SameHands /\ OnlyBegin({})
  BY <1>1 DEF SameHands, HandedTo, OnlyBegin
<1>3. CASE f \notin ToSet(offerers)
  <2>1. contents' = contents
    BY <1>1, <1>3 DEF Without, contents
  <2> QED BY <1>1, <1>2, <2>1, NoElement
<1>4. CASE f \in ToSet(offerers)
  <2>1. /\ queue \in Seq(Producers) /\ offerers \in Seq(Producers) /\ offerers # <<>>
        /\ IsInjective(offerers)
    BY <1>4 DEF StateInv, StateOK, WaitersInv, ListsAreExact, ToSet
  <2>2. PICK i \in DOMAIN contents : i > Len(queue) /\ contents' = RemoveAt(contents, i)
    <3>1. \E i \in DOMAIN (queue \o offerers) :
            /\ i > Len(queue) /\ (queue \o offerers)[i] = f
            /\ queue \o Without(offerers, f) = RemoveAt(queue \o offerers, i)
      BY <1>4, <2>1, JoinWithout
    <3> QED BY <1>1, <3>1 DEF contents
  <2>3. /\ offerers' \in Seq(Producers) /\ ToSet(offerers') = ToSet(offerers) \ {f}
        /\ IsInjective(offerers')
    BY <1>1, <2>1, WithoutFacts
  <2>4. contents' = queue \o offerers'
    BY <1>1 DEF contents
  <2>5. IsInjective(contents') /\ ToSet(contents') \subseteq ToSet(contents) \cup {}
    <3>1. ToSet(contents') = ToSet(queue) \cup ToSet(offerers')
      BY <2>1, <2>3, <2>4, JoinFacts
    <3>2. IsInjective(queue) /\ ToSet(queue) \cap ToSet(offerers) = {}
      BY <2>1, JoinFacts DEF ElementsInv, contents
    <3>3. IsInjective(contents')
      BY <2>1, <2>3, <2>4, <3>2, JoinInjective
    <3> QED BY <2>3, <3>1, <3>3, ContentsFacts
  <2>6. /\ ElementsInv'
        /\ Offered' = Offered \cup {} /\ Received' = Received
    BY <1>2, <2>5, KeepElements
  <2>7. i > capacity
    BY <2>1, <2>2 DEF StateInv, NobodyWaitsInVain
  <2>8. Abstract!Withdraw(i)
    BY <2>2, <2>6, <2>7 DEF Abstract!Withdraw, Abstract!RemoveAt, RemoveAt, Offered, Received
  <2> QED BY <1>1, <2>2, <2>6, <2>8 DEF FIFOStep, Abstract!Next, config
<1> QED BY <1>3, <1>4

(* The other steps move no element.                                        *)
LEMMA OtherElements ==
    ASSUME WaitersInv, ElementsInv, NEW f \in Fibers,
           CompleteHeir(f) \/ NotifyHeir(f) \/ AwaitStep(f) \/ Awaited(f) \/ CancelAwait(f)
    PROVE  ElementsInv' /\ FIFOStep
<1>1. contents' = contents /\ UNCHANGED <<config, state, heir>>
  BY DEF CompleteHeir, NotifyHeir, AwaitStep, Awaited, CancelAwait, state, contents
<1>2. Producers \subseteq Fibers /\ Consumers \subseteq Fibers /\ Producers \cap Consumers = {}
      /\ NoAnswer \notin Producers
  BY QueueAssumption DEF Fibers
<1>3. SameHands /\ OnlyBegin({})
  <2>1. CASE CompleteHeir(f)
    <3>1. /\ pc[f] = "handing" /\ heir[f] \in Fibers
          /\ f \in Producers <=> heir[f] \in Consumers
          /\ ~D!IsSet(heir[f])
          /\ UNCHANGED <<heir, answer>>
          /\ cell'[heir[f]].value = f
          /\ \A g \in Fibers \ {heir[f]} : cell'[g].value = cell[g].value
          /\ pc' = [pc EXCEPT ![f] = "notifying"]
      BY <2>1, CompleteHeirFacts
    <3>2. \A g \in Fibers : pc'[g] = IF g = f THEN "notifying" ELSE pc[g]
      BY <3>1 DEF WaitersInv, Places
    <3>3. ASSUME NEW c \in Consumers, NEW e \in Producers
          PROVE  HandedTo(c, e)' <=> HandedTo(c, e)
      <4>1. D!NoValue # e
        BY <1>2, Names DEF D!NoValue, DP!NoValue
      <4>2. CASE c = heir[f]
        BY <1>2, <3>1, <3>2, <4>1, <4>2 DEF HandedTo, D!IsSet
      <4>3. CASE c # heir[f]
        BY <1>2, <3>1, <3>2, <4>3 DEF HandedTo
      <4> QED BY <4>2, <4>3
    <3> QED BY <1>2, <3>1, <3>2, <3>3 DEF SameHands, OnlyBegin
  <2>2. CASE Awaited(f)
    <3>1. /\ pc[f] = "awaiting" /\ answer[f] = NoAnswer /\ cell' = cell
          /\ \A g \in Fibers : pc'[g] = IF g = f THEN "done" ELSE pc[g]
          /\ answer'[f] = IF f \in Consumers THEN cell[f].value ELSE "ok"
          /\ \A g \in Fibers \ {f} : answer'[g] = answer[g]
      BY <2>2 DEF Awaited, deferredVars, WaitersInv, Places
    <3>2. SameHands
      BY <1>1, <1>2, <3>1 DEF SameHands, HandedTo
    <3>3. NoAnswer # "false"
      BY DEF NoAnswer
    <3> QED BY <1>2, <3>1, <3>2, <3>3 DEF OnlyBegin
  <2>3. CASE NotifyHeir(f) /\ ~D!Notifying(f)
    <3>1. /\ pc[f] = "notifying" /\ UNCHANGED <<answer, cell>>
          /\ \A g \in Fibers : pc'[g] = IF g = f THEN "done" ELSE pc[g]
      BY <2>3 DEF NotifyHeir, deferredVars, WaitersInv, Places
    <3> QED BY <1>1, <1>2, <3>1 DEF SameHands, HandedTo, OnlyBegin
  <2>4. CASE AwaitStep(f) \/ CancelAwait(f) \/ (NotifyHeir(f) /\ D!Notifying(f))
    <3>1. /\ D!GetStep(f) \/ D!CancelGet(f) \/ D!NotifyReader(f)
          /\ UNCHANGED <<pc, answer>>
      BY <2>4 DEF AwaitStep, CancelAwait, NotifyHeir
    <3>2. \A g \in Fibers : cell'[g].value = cell[g].value
      BY <1>1, <3>1, QuietWaiters
    <3> QED BY <1>1, <1>2, <3>1, <3>2 DEF SameHands, HandedTo, OnlyBegin
  <2> QED BY <2>1, <2>2, <2>3, <2>4
<1> QED BY <1>1, <1>3, NoElement

LEMMA ElementsNext ==
    StateInv /\ WaitersInv /\ ElementsInv /\ [Next]_vars => ElementsInv' /\ FIFOStep
<1> SUFFICES ASSUME StateInv, WaitersInv, ElementsInv, [Next]_vars
             PROVE  ElementsInv' /\ FIFOStep
  OBVIOUS
<1>1. CASE UNCHANGED vars
  <2>1. SameHands /\ OnlyBegin({}) /\ contents' = contents /\ UNCHANGED config
    BY <1>1 DEF vars, state, deferredVars, SameHands, HandedTo, OnlyBegin, contents
  <2> QED BY <2>1, NoElement
<1> QED BY <1>1, OfferElements, TakeElements, CleanupElements, OtherElements DEF Next, Step

LEMMA ElementsInit == Init => ElementsInv
<1> SUFFICES ASSUME Init PROVE ElementsInv
  OBVIOUS
<1>1. contents = <<>>
  BY DEF Init, contents
<1>2. IsInjective(contents) /\ ToSet(contents) = {}
  BY <1>1 DEF IsInjective, ToSet
<1>3. \A c \in Consumers, e \in Producers : ~HandedTo(c, e)
  BY QueueAssumption DEF Init, HandedTo, D!Init, Fibers, D!NoValue
<1>4. \A e \in Producers : answer[e] # "false"
  BY DEF Init, Fibers, NoAnswer
<1> QED BY <1>2, <1>3, <1>4 DEF ElementsInv

(* No element is in two places: not twice in the queue, not with two       *)
(* consumers, and with none while it is queued or once it was refused.     *)
THEOREM NoElementTwice == Spec => []ElementsAccounted
<1>1. ElementsInv => ElementsAccounted
  <2> SUFFICES ASSUME ElementsInv, NEW e \in Producers
               PROVE  /\ Cardinality(Holders(e)) <= 1
                      /\ e \in ToSet(contents) \/ answer[e] = "false" => Holders(e) = {}
    BY DEF ElementsAccounted, ElementsInv
  <2>1. e \in ToSet(contents) \/ answer[e] = "false" => Holders(e) = {}
    BY DEF ElementsInv, Holders
  <2>2. CASE Holders(e) = {}
    BY <2>1, <2>2, FS_EmptySet
  <2>3. CASE Holders(e) # {}
    <3>1. PICK c \in Consumers : HandedTo(c, e)
      BY <2>3 DEF Holders
    <3>2. Holders(e) = {c}
      BY <3>1 DEF ElementsInv, Holders
    <3>3. Cardinality(Holders(e)) = 1
      BY <3>2, FS_Singleton
    <3> QED BY <2>1, <3>3
  <2> QED BY <2>2, <2>3
<1> QED BY StateAlways, WaitersInit, WaitersNext, ElementsInit, ElementsNext, <1>1, PTL DEF Spec

(* Whatever waits, is canceled or resumed, the elements pass as through    *)
(* FIFO: every step of a queue is one of FIFO's, or moves no element.      *)
THEOREM RefinesFIFO == Spec => ImplementsFIFO
<1>1. Init => Abstract!Init
  <2> SUFFICES ASSUME Init PROVE Abstract!Init
    OBVIOUS
  <2>1. \A e \in Producers : Holders(e) = {}
    BY ElementsInit DEF ElementsInv, Init, Holders, Fibers
  <2>2. contents = <<>> /\ \A e \in Producers : pc[e] = "idle"
    BY DEF Init, contents, Fibers
  <2> QED BY <2>1, <2>2, QueueAssumption DEF Init, Abstract!Init
<1> QED BY StateAlways, WaitersInit, WaitersNext, ElementsInit, ElementsNext, <1>1, PTL
        DEF Spec, FIFOStep, ImplementsFIFO, Abstract!Spec
=============================================================================
