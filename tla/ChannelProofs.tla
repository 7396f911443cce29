--------------------------- MODULE ChannelProofs ---------------------------
(***************************************************************************)
(* Proofs about Channel, for any senders, capacities and cancelations: the *)
(* order and the conservation of the elements, and that the consumer never *)
(* waits beside an element nobody will tell it of.                         *)
(***************************************************************************)
EXTENDS Channel, DataProofs

DP == INSTANCE DeferredProofs WITH Deferreds <- Fibers, Interruptible <- {}

(* The consumer signals no closure and notifies nobody but the producers.  *)
ConsumerPCs == {"idle", "blocking", "awaiting", "unblocking", "done", "canceled"}

ConsumerPlace == pc[Consumer] \in ConsumerPCs

(* A fiber is in the get() of its Deferred only where it awaits it.        *)
OnlyAwaitingGets == \A f \in Fibers : get[f] # D!NotGetting => pc[f] = "awaiting"

(* What was taken is emitted before the consumer looks again.              *)
OneBatch == batch # <<>> => pc[Consumer] \in {"unblocking", "canceled"}

(* No element was accepted twice, and the next of a sender is new.         *)
AcceptedOnce ==
    /\ IsInjective(accepted)
    /\ \A e \in ToSet(accepted) : e[2] <= sent[e[1]]

(* NoVainWait, for the consumer that blocks or is parked, and for one that *)
(* is anywhere else between the two.                                       *)
Noticed ==
    /\ size = Len(values) /\ size <= capacity
    /\ producers # <<>> => size = capacity
    /\ waiting => values = <<>> /\ producers = <<>>
    /\ pc[Consumer] \in {"blocking", "awaiting"} /\ ~D!IsSet(Consumer) =>
         waiting \/ Owed \/ Deserted

Inv ==
    /\ TypeOK
    /\ ConsumerPlace
    /\ OnlyAwaitingGets
    /\ OneBatch
    /\ AcceptedOnce
    /\ InOrder
    /\ Noticed

-----------------------------------------------------------------------------
(* The Deferreds of the channel and those of DeferredProofs are the same.  *)
LEMMA SameState ==
    /\ D!TypeOK <=> DP!TypeOK
    /\ \A d : D!IsSet(d) <=> DP!IsSet(d)
    /\ D!NotGetting = DP!NotGetting /\ D!NoValue = DP!NoValue
BY DEF D!TypeOK, D!IsSet, D!NotGetting, D!Nowhere, D!NoValue, D!GetPCs, D!NobodyToNotify,
       DP!TypeOK, DP!IsSet, DP!NotGetting, DP!Nowhere, DP!NoValue, DP!GetPCs, DP!NobodyToNotify

LEMMA SameSteps ==
    ASSUME NEW f
    PROVE  /\ \A d : D!StartGet(f, d) <=> DP!StartGet(f, d)
           /\ \A d : D!Complete(f, d) <=> DP!Complete(f, d)
           /\ D!GetStep(f) <=> DP!GetStep(f)
           /\ D!LeaveGet(f) <=> DP!LeaveGet(f)
           /\ D!CancelGet(f) <=> DP!CancelGet(f)
           /\ D!NotifyReader(f) <=> DP!NotifyReader(f)
<1> USE DEF D!At, D!Goto, D!IsSet, D!NoValue, D!NotGetting, D!Nowhere, D!Notifying,
            D!ToNotify, D!NobodyToNotify,
            DP!At, DP!Goto, DP!IsSet, DP!NoValue, DP!NotGetting, DP!Nowhere, DP!Notifying,
            DP!ToNotify, DP!NobodyToNotify
<1>1. \A d : D!StartGet(f, d) <=> DP!StartGet(f, d)
  BY DEF D!StartGet, DP!StartGet
<1>2. \A d : D!Complete(f, d) <=> DP!Complete(f, d)
  BY DEF D!Complete, DP!Complete
<1>3. D!GetStep(f) <=> DP!GetStep(f)
  <2>1. \A s : D!Without(s, f) = DP!Without(s, f)
    BY DEF D!Without, D!ToSet, D!RemoveAt, DP!Without, DP!ToSet, DP!RemoveAt
  <2>2. D!DeleteReader(f) <=> DP!DeleteReader(f)
    BY <2>1 DEF D!DeleteReader, DP!DeleteReader
  <2>3. /\ D!ReadState(f) <=> DP!ReadState(f)
        /\ D!AddReader(f) <=> DP!AddReader(f)
        /\ D!Await(f) <=> DP!Await(f)
        /\ D!Resume(f) <=> DP!Resume(f)
    BY DEF D!ReadState, D!AddReader, D!Await, D!Resume,
           DP!ReadState, DP!AddReader, DP!Await, DP!Resume
  <2> QED BY <2>2, <2>3 DEF D!GetStep, DP!GetStep
<1>4. D!LeaveGet(f) <=> DP!LeaveGet(f)
  BY DEF D!LeaveGet, DP!LeaveGet
<1>5. D!CancelGet(f) <=> DP!CancelGet(f)
  BY DEF D!CancelGet, DP!CancelGet
<1>6. D!NotifyReader(f) <=> DP!NotifyReader(f)
  BY DEF D!NotifyReader, DP!NotifyReader
<1> QED BY <1>1, <1>2, <1>3, <1>4, <1>5, <1>6

(* No fiber has the name that the model uses for an empty cell.            *)
LEMMA Names == DP!NoValue \notin Fibers /\ DP!Nowhere \notin Fibers
BY ChannelAssumption DEF DP!NoValue, DP!Nowhere

(* What the steps of a get(), and callbacks, leave alone.                  *)
LEMMA GetSteps ==
    ASSUME D!TypeOK, NEW f \in Fibers,
           D!GetStep(f) \/ D!CancelGet(f) \/ D!NotifyReader(f)
    PROVE  /\ D!TypeOK'
           /\ \A g \in Fibers : get'[g] = D!NotGetting <=> get[g] = D!NotGetting
           /\ \A g \in Fibers : cell'[g].value = cell[g].value
<1>1. DP!GetStep(f) \/ DP!CancelGet(f) \/ DP!NotifyReader(f)
  BY SameSteps
<1>2. DP!ClientStep(f) /\ DP!TypeOK
  BY <1>1, SameState DEF DP!ClientStep
<1>3. DP!TypeOK' /\ \A g \in Fibers : get'[g] = DP!NotGetting <=> get[g] = DP!NotGetting
  BY <1>1, <1>2, Names, DP!TypesKept
<1>4. \A g \in Fibers : cell'[g].value = cell[g].value
  BY <1>1, <1>2, Names, DP!ValuesKept
<1>5. D!TypeOK'
  BY <1>3 DEF D!TypeOK, D!NotGetting, D!Nowhere, D!NoValue, D!GetPCs, D!NobodyToNotify,
              DP!TypeOK, DP!NotGetting, DP!Nowhere, DP!NoValue, DP!GetPCs, DP!NobodyToNotify
<1> QED BY <1>3, <1>4, <1>5, SameState

(* A get() begins, or ends.                                                *)
LEMMA GetEnds ==
    ASSUME D!TypeOK, NEW f \in Fibers, D!StartGet(f, f) \/ D!LeaveGet(f)
    PROVE  /\ D!TypeOK'
           /\ \A g \in Fibers \ {f} : get'[g] = get[g]
           /\ D!LeaveGet(f) => get'[f] = D!NotGetting
           /\ UNCHANGED cell
BY DEF D!StartGet, D!LeaveGet, D!TypeOK, D!GetPCs

(* A complete() sets the cell it is called on, and resets none.            *)
LEMMA Completes ==
    ASSUME D!TypeOK, NEW f \in Fibers, NEW d \in Fibers, D!Complete(f, d)
    PROVE  /\ D!TypeOK'
           /\ UNCHANGED get
           /\ cell'[d].value # D!NoValue
           /\ \A e \in Fibers : D!IsSet(e) => cell'[e].value # D!NoValue
           /\ \A e \in Fibers \ {d} : cell'[e].value = cell[e].value
<1>1. DP!Complete(f, d) /\ DP!ClientStep(f) /\ DP!TypeOK
  BY SameSteps, SameState DEF DP!ClientStep
<1>2. DP!TypeOK'
  BY <1>1, Names, DP!TypesKept
<1>3. D!TypeOK'
  BY <1>2 DEF D!TypeOK, D!NotGetting, D!Nowhere, D!NoValue, D!GetPCs, D!NobodyToNotify,
              DP!TypeOK, DP!NotGetting, DP!Nowhere, DP!NoValue, DP!GetPCs, DP!NobodyToNotify
<1>4. /\ UNCHANGED get
      /\ \A e \in Fibers : DP!IsSet(e) \/ e # d => cell'[e].value = cell[e].value
      /\ \A e \in Fibers : DP!IsSet(e) \/ e = d => cell'[e].value # DP!NoValue
  BY <1>1, Names, DP!CompleteWrites
<1> QED BY <1>3, <1>4, SameState

(* A fiber's Deferred is allocated anew.                                   *)
LEMMA Allocates ==
    ASSUME D!TypeOK, NEW f \in Fibers, Allocate(f)
    PROVE  /\ D!TypeOK'
           /\ UNCHANGED get
           /\ \A e \in Fibers \ {f} : cell'[e] = cell[e]
<1>1. <<>> \in Seq(Fibers)
  OBVIOUS
<1> QED BY <1>1 DEF Allocate, D!TypeOK

-----------------------------------------------------------------------------
(* A fiber moves to p, in an operation that neither adds nor takes         *)
(* elements. A notification it owes is made, or it is deserted.            *)
LEMMA MovesInv ==
    ASSUME Inv, NEW f \in Fibers, NEW p \in PCs, pc' = [pc EXCEPT ![f] = p],
           UNCHANGED <<capacity, state, after, sent, batch, unblock, history>>,
           gate' \in BOOLEAN, D!TypeOK',
           \A g \in Fibers : D!IsSet(g) => cell'[g].value # D!NoValue,
           f = Consumer =>
             /\ p \in ConsumerPCs
             /\ pc[f] \in {"unblocking", "canceled"} => p \in {"unblocking", "canceled"}
             /\ p \in {"blocking", "awaiting"} => pc[f] \in {"blocking", "awaiting"},
           \A g \in Fibers \ {f} : get'[g] # D!NotGetting => get[g] # D!NotGetting,
           get'[f] # D!NotGetting => p = "awaiting",
           pc[f] = "deserted" => p = "deserted",
           pc[f] = "notify" =>
             p \in {"notify", "deserted"} \/ cell'[Consumer].value # D!NoValue
    PROVE  Inv'
<1>1. /\ pc'[f] = p /\ \A g \in Fibers \ {f} : pc'[g] = pc[g]
      /\ pc' \in [Fibers -> PCs] /\ Consumer \in Fibers
  BY DEF Inv, TypeOK, Fibers
<1>2. UNCHANGED <<values, size, waiting, producers, closed, emitted, accepted>>
  BY DEF state, history
<1>3. TypeOK'
  BY <1>1, <1>2 DEF Inv, TypeOK
<1>4. ConsumerPlace' /\ OneBatch'
  BY <1>1 DEF Inv, ConsumerPlace, OneBatch
<1>5. OnlyAwaitingGets'
  BY <1>1 DEF Inv, OnlyAwaitingGets
<1>6. AcceptedOnce' /\ InOrder'
  BY <1>2 DEF Inv, AcceptedOnce, InOrder
<1>7. Noticed'
  <2> SUFFICES ASSUME pc'[Consumer] \in {"blocking", "awaiting"},
                      cell'[Consumer].value = D!NoValue
               PROVE  (waiting \/ Owed \/ Deserted)'
    BY <1>2 DEF Inv, Noticed, D!IsSet
  <2>1. pc[Consumer] \in {"blocking", "awaiting"} /\ ~D!IsSet(Consumer)
    BY <1>1
  <2>2. waiting \/ Owed \/ Deserted
    BY <2>1 DEF Inv, Noticed
  <2>3. ASSUME NEW g \in Senders, At(g, "notify") PROVE (Owed \/ Deserted)'
    <3>1. g \in Fibers
      BY DEF Fibers
    <3> QED BY <1>1, <2>3, <3>1 DEF Owed, Deserted, At
  <2>4. ASSUME NEW g \in Senders, At(g, "deserted") PROVE Deserted'
    <3>1. g \in Fibers
      BY DEF Fibers
    <3> QED BY <1>1, <2>4, <3>1 DEF Deserted, At
  <2> QED BY <1>2, <2>2, <2>3, <2>4 DEF Owed, Deserted
<1> QED BY <1>3, <1>4, <1>5, <1>6, <1>7 DEF Inv

LEMMA StepInv ==
    ASSUME Inv, NEW f \in Fibers,
           NotifyStream(f) \/ Notified(f) \/ Block(f) \/ Await(f) \/ Awaited(f) \/ SignalClosure(f)
    PROVE  Inv'
<1>1. D!TypeOK /\ Consumer \in Fibers /\ pc[f] \in PCs /\ gate \in BOOLEAN
  BY DEF Inv, TypeOK, Fibers
<1>2. f = Consumer => pc[f] \in ConsumerPCs
  BY DEF Inv, ConsumerPlace
<1>3. \A g \in Fibers : get[g] # D!NotGetting => pc[g] = "awaiting"
  BY DEF Inv, OnlyAwaitingGets
<1>4. pc' = [pc EXCEPT ![f] = pc[f]] \/ pc' # pc
  BY DEF Inv, TypeOK
<1>5. CASE NotifyStream(f)
  <2>1. /\ pc[f] = "notify" /\ D!Complete(f, Consumer)
        /\ pc' = [pc EXCEPT ![f] = "notifying"]
        /\ UNCHANGED <<capacity, state, gate, after, sent, batch, unblock, history>>
    BY <1>5 DEF NotifyStream, At, Goto, local
  <2>2. f # Consumer
    BY <1>2, <2>1 DEF ConsumerPCs
  <2>3. /\ D!TypeOK' /\ UNCHANGED get /\ cell'[Consumer].value # D!NoValue
        /\ \A e \in Fibers : D!IsSet(e) => cell'[e].value # D!NoValue
    BY <1>1, <2>1, Completes
  <2>4. get'[f] = D!NotGetting
    BY <1>3, <2>1, <2>3
  <2>5. "notifying" \in PCs
    BY DEF PCs
  <2> QED BY <1>1, <2>1, <2>2, <2>3, <2>4, <2>5, MovesInv
<1>6. CASE Notified(f)
  <2>1. /\ pc[f] = "notifying"
        /\ UNCHANGED <<capacity, state, gate, after, sent, batch, unblock, history>>
    BY <1>6 DEF Notified, At, local
  <2>2. f # Consumer /\ f \in Senders
    BY <1>2, <2>1 DEF ConsumerPCs, Fibers
  <2>3. CASE D!NotifyReader(f) /\ UNCHANGED pc
    <3>1. /\ D!TypeOK'
          /\ \A g \in Fibers : get'[g] = D!NotGetting <=> get[g] = D!NotGetting
          /\ \A g \in Fibers : cell'[g].value = cell[g].value
      BY <1>1, <2>3, GetSteps
    <3>2. pc' = [pc EXCEPT ![f] = pc[f]]
      BY <1>4, <2>3
    <3> QED BY <1>1, <1>3, <2>1, <2>2, <3>1, <3>2, MovesInv DEF D!IsSet
  <2>4. CASE Goto(f, after[f]) /\ UNCHANGED deferredVars
    <3>1. after[f] \in {"idle", "blocking", "signaling"}
      BY <2>2 DEF Inv, TypeOK
    <3>2. after[f] \in PCs
      BY <3>1 DEF PCs
    <3>3. D!TypeOK' /\ UNCHANGED <<cell, get>> /\ pc' = [pc EXCEPT ![f] = after[f]]
      BY <1>1, <2>4 DEF deferredVars, D!TypeOK, Goto
    <3> QED BY <1>1, <1>3, <2>1, <2>2, <3>2, <3>3, MovesInv DEF D!IsSet
  <2> QED BY <1>6, <2>3, <2>4 DEF Notified
<1>7. CASE Block(f)
  <2>1. /\ pc[f] = "blocking" /\ D!StartGet(f, f)
        /\ pc' = [pc EXCEPT ![f] = "awaiting"]
        /\ UNCHANGED <<capacity, state, gate, after, sent, batch, unblock, history>>
    BY <1>7 DEF Block, At, Goto, local
  <2>2. D!TypeOK' /\ UNCHANGED cell /\ \A g \in Fibers \ {f} : get'[g] = get[g]
    BY <1>1, <2>1, GetEnds
  <2>3. "awaiting" \in PCs /\ "awaiting" \in ConsumerPCs
    BY DEF PCs, ConsumerPCs
  <2> QED BY <1>1, <2>1, <2>2, <2>3, MovesInv DEF D!IsSet
<1>8. CASE Await(f)
  <2>1. /\ pc[f] = "awaiting" /\ D!GetStep(f) /\ UNCHANGED pc
        /\ UNCHANGED <<capacity, state, gate, after, sent, batch, unblock, history>>
    BY <1>8 DEF Await, At, local
  <2>2. /\ D!TypeOK'
        /\ \A g \in Fibers : get'[g] = D!NotGetting <=> get[g] = D!NotGetting
        /\ \A g \in Fibers : cell'[g].value = cell[g].value
    BY <1>1, <2>1, GetSteps
  <2>3. pc' = [pc EXCEPT ![f] = pc[f]]
    BY <1>4, <2>1
  <2> QED BY <1>1, <1>2, <1>3, <2>1, <2>2, <2>3, MovesInv DEF D!IsSet
<1>9. CASE Awaited(f)
  <2>1. /\ pc[f] = "awaiting" /\ D!LeaveGet(f)
        /\ pc' = [pc EXCEPT ![f] = "idle"]
        /\ UNCHANGED <<capacity, state, gate, after, sent, batch, unblock, history>>
    BY <1>9 DEF Awaited, At, Goto, local
  <2>2. /\ D!TypeOK' /\ UNCHANGED cell /\ get'[f] = D!NotGetting
        /\ \A g \in Fibers \ {f} : get'[g] = get[g]
    BY <1>1, <2>1, GetEnds
  <2>3. "idle" \in PCs /\ "idle" \in ConsumerPCs
    BY DEF PCs, ConsumerPCs
  <2> QED BY <1>1, <2>1, <2>2, <2>3, MovesInv DEF D!IsSet
<1>10. CASE SignalClosure(f)
  <2>1. /\ pc[f] = "signaling" /\ gate' \in BOOLEAN
        /\ pc' = [pc EXCEPT ![f] = "done"]
        /\ UNCHANGED <<capacity, state, after, sent, batch, unblock, history>>
        /\ UNCHANGED deferredVars
    BY <1>10 DEF SignalClosure, At, Goto
  <2>2. f # Consumer
    BY <1>2, <2>1 DEF ConsumerPCs
  <2>3. D!TypeOK' /\ UNCHANGED <<cell, get>>
    BY <1>1, <2>1 DEF deferredVars, D!TypeOK
  <2>4. "done" \in PCs
    BY DEF PCs
  <2> QED BY <1>1, <1>3, <2>1, <2>2, <2>3, <2>4, MovesInv DEF D!IsSet
<1> QED BY <1>5, <1>6, <1>7, <1>8, <1>9, <1>10

(* Cancelation: a fiber that has not yet notified the stream is deserted.  *)
LEMMA CancelInv ==
    ASSUME Inv, NEW f \in Fibers, Cancel(f) \/ CancelAwait(f)
    PROVE  Inv'
<1>1. D!TypeOK /\ Consumer \in Fibers /\ pc[f] \in PCs /\ gate \in BOOLEAN
  BY DEF Inv, TypeOK, Fibers
<1>2. f = Consumer => pc[f] \in ConsumerPCs
  BY DEF Inv, ConsumerPlace
<1>3. \A g \in Fibers : get[g] # D!NotGetting => pc[g] = "awaiting"
  BY DEF Inv, OnlyAwaitingGets
<1>4. CASE Cancel(f)
  <2> DEFINE p == IF At(f, "notify") \/ (At(f, "notifying") /\ D!Notifying(f))
                    THEN "deserted" ELSE "canceled"
  <2>1. /\ pc[f] \in {"idle", "blocking", "unblocking", "notify", "notifying"}
        /\ pc' = [pc EXCEPT ![f] = p]
        /\ notify' = [notify EXCEPT ![f] = D!NobodyToNotify]
        /\ UNCHANGED <<cell, get>>
        /\ UNCHANGED <<capacity, state, gate, after, sent, batch, unblock, history>>
    BY <1>4 DEF Cancel, Unmasked, Goto, local
  <2>2. p \in PCs /\ (pc[f] = "notify" => p = "deserted")
        /\ (f = Consumer => p = "canceled")
    BY <1>2 DEF PCs, At, ConsumerPCs
  <2> HIDE DEF p
  <2>3. D!TypeOK'
    BY <1>1, <2>1 DEF D!TypeOK
  <2>4. get'[f] = D!NotGetting
    BY <1>3, <2>1
  <2>5. "canceled" \in ConsumerPCs
    BY DEF ConsumerPCs
  <2> QED BY <1>1, <2>1, <2>2, <2>3, <2>4, <2>5, MovesInv DEF D!IsSet
<1>5. CASE CancelAwait(f)
  <2>1. /\ pc[f] = "awaiting" /\ D!CancelGet(f) /\ UNCHANGED pc
        /\ UNCHANGED <<capacity, state, gate, after, sent, batch, unblock, history>>
    BY <1>5 DEF CancelAwait, At, local
  <2>2. /\ D!TypeOK'
        /\ \A g \in Fibers : get'[g] = D!NotGetting <=> get[g] = D!NotGetting
        /\ \A g \in Fibers : cell'[g].value = cell[g].value
    BY <1>1, <2>1, GetSteps
  <2>3. pc' = [pc EXCEPT ![f] = pc[f]]
    BY <2>1 DEF Inv, TypeOK
  <2> QED BY <1>1, <1>2, <1>3, <2>1, <2>2, <2>3, MovesInv DEF D!IsSet
<1> QED BY <1>4, <1>5

-----------------------------------------------------------------------------
(* The effect of an update: the consumer that was registered is notified.  *)
LEMMA NotifyThenKeeps ==
    ASSUME Inv, NEW f \in Senders, pc[f] = "idle",
           NEW where \in {"idle", "blocking", "signaling"}, NotifyThen(f, where),
           cell'[Consumer] = cell[Consumer]
    PROVE  /\ pc' \in [Fibers -> PCs] /\ after' \in [Senders -> {"idle", "blocking", "signaling"}]
           /\ waiting' = FALSE
           /\ \A g \in Fibers \ {f} : pc'[g] = pc[g]
           /\ pc'[Consumer] = pc[Consumer]
           /\ pc[Consumer] \in {"blocking", "awaiting"} /\ cell[Consumer].value = D!NoValue =>
                (Owed \/ Deserted)'
<1>1. f # Consumer /\ f \in Fibers /\ Consumer \in Fibers
  BY ChannelAssumption DEF Fibers
<1>2. /\ waiting' = FALSE /\ pc' = [pc EXCEPT ![f] = IF waiting THEN "notify" ELSE where]
      /\ after' = [after EXCEPT ![f] = where]
  BY DEF NotifyThen, Goto
<1>3. pc' \in [Fibers -> PCs] /\ after' \in [Senders -> {"idle", "blocking", "signaling"}]
  BY <1>1, <1>2 DEF Inv, TypeOK, PCs
<1>4. pc'[f] = (IF waiting THEN "notify" ELSE where) /\ \A g \in Fibers \ {f} : pc'[g] = pc[g]
  BY <1>1, <1>2 DEF Inv, TypeOK
<1>5. ASSUME pc[Consumer] \in {"blocking", "awaiting"}, cell[Consumer].value = D!NoValue
      PROVE  (Owed \/ Deserted)'
  <2>1. waiting \/ Owed \/ Deserted
    BY <1>5 DEF Inv, Noticed, D!IsSet
  <2>2. \A g \in Senders : g # f => pc'[g] = pc[g]
    BY <1>4 DEF Fibers
  <2>3. CASE waiting
    BY <1>4, <2>3 DEF Owed, At
  <2>4. CASE Owed \/ Deserted
    BY <2>2, <2>4 DEF Owed, Deserted, At
  <2> QED BY <2>1, <2>3, <2>4
<1> QED BY <1>1, <1>2, <1>3, <1>4, <1>5

(* A new element behind those that were accepted.                          *)
LEMMA Accepts ==
    ASSUME Inv, NEW f \in Senders, sent[f] < MaxSends,
           NEW e, e = <<f, sent[f] + 1>>, Accept(f, e)
    PROVE  /\ e \in Elements
           /\ sent' \in [Senders -> 0..MaxSends]
           /\ accepted' = Append(accepted, e) /\ accepted' \in Seq(Elements)
           /\ AcceptedOnce'
           /\ D!TypeOK' /\ UNCHANGED get
           /\ cell'[Consumer] = cell[Consumer]
<1>1. sent[f] \in 0..MaxSends /\ MaxSends \in Nat /\ f # Consumer /\ f \in Fibers /\ Consumer \in Fibers
  BY ChannelAssumption DEF Inv, TypeOK, Fibers
<1>2. e \in Elements /\ e[1] = f /\ e[2] = sent[f] + 1
  BY <1>1 DEF Elements
<1>3. sent' \in [Senders -> 0..MaxSends] /\ sent' = [sent EXCEPT ![f] = @ + 1]
  BY <1>1 DEF Accept, Inv, TypeOK
<1>4. accepted \in Seq(Elements) /\ accepted' = Append(accepted, e)
  BY DEF Inv, TypeOK, Accept
<1>5. e \notin ToSet(accepted)
  BY <1>1, <1>2 DEF Inv, AcceptedOnce
<1>6. /\ accepted' \in Seq(Elements) /\ IsInjective(accepted')
      /\ ToSet(accepted') = ToSet(accepted) \cup {e}
  <2>1. IsInjective(accepted)
    BY DEF Inv, AcceptedOnce
  <2> QED BY <1>2, <1>4, <1>5, <2>1, AppendFacts
<1>7. AcceptedOnce'
  <2> SUFFICES ASSUME NEW d \in ToSet(accepted') PROVE d[2] <= sent'[d[1]]
    BY <1>6 DEF AcceptedOnce
  <2>1. d \in Elements
    BY <1>6 DEF ToSet
  <2>2. d[1] \in Senders /\ d[2] \in Nat
    BY <2>1 DEF Elements
  <2>3. sent'[d[1]] = IF d[1] = f THEN sent[f] + 1 ELSE sent[d[1]]
    BY <1>3, <2>2 DEF Inv, TypeOK
  <2>4. CASE d = e
    BY <1>2, <1>3, <2>4, <2>3, <1>1
  <2>5. CASE d # e
    <3>1. d[2] <= sent[d[1]]
      BY <1>6, <2>5 DEF Inv, AcceptedOnce
    <3>2. sent[d[1]] \in Nat
      BY <2>2 DEF Inv, TypeOK
    <3> QED BY <2>2, <2>3, <3>1, <3>2
  <2> QED BY <2>4, <2>5
<1>8. D!TypeOK' /\ UNCHANGED get /\ cell'[Consumer] = cell[Consumer]
  BY <1>1, Allocates DEF Accept, Inv, TypeOK
<1> QED BY <1>2, <1>3, <1>4, <1>6, <1>7, <1>8

LEMMA SendInv ==
    ASSUME Inv, NEW f \in Senders, Send(f)
    PROVE  Inv'
<1> DEFINE e == <<f, sent[f] + 1>>
<1>1. /\ pc[f] = "idle" /\ sent[f] < MaxSends
      /\ UNCHANGED <<capacity, gate, batch, unblock, emitted>>
      /\ SendClosed(f) \/ SendToBuffer(f, e) \/ SendAndBlock(f, e)
  BY DEF Send, At
<1>2. f \in Fibers /\ f # Consumer /\ Consumer \in Fibers
  BY ChannelAssumption DEF Fibers
<1>3. get[f] = D!NotGetting
  BY <1>1, <1>2 DEF Inv, OnlyAwaitingGets
<1>4. /\ values \in Seq(Elements) /\ producers \in Seq(Elements) /\ batch \in Seq(Elements)
      /\ emitted \in Seq(Elements) /\ accepted = emitted \o batch \o values \o producers
      /\ size \in Nat /\ capacity \in Nat /\ size = Len(values) /\ size <= capacity
      /\ producers # <<>> => size = capacity
  BY ChannelAssumption DEF Inv, TypeOK, InOrder, Noticed
<1>5. CASE SendClosed(f)
  <2>1. /\ pc' = [pc EXCEPT ![f] = "done"]
        /\ UNCHANGED <<capacity, state, gate, after, sent, batch, unblock, history>>
        /\ UNCHANGED deferredVars
    BY <1>1, <1>5 DEF SendClosed, Goto, history
  <2>2. D!TypeOK /\ D!TypeOK' /\ UNCHANGED <<cell, get>> /\ gate' \in BOOLEAN
    BY <2>1 DEF Inv, TypeOK, deferredVars, D!TypeOK
  <2>3. "done" \in PCs
    BY DEF PCs
  <2> QED BY <1>1, <1>2, <1>3, <2>1, <2>2, <2>3, MovesInv DEF D!IsSet
<1> HIDE DEF e
<1>6. ASSUME Accept(f, e), NEW where \in {"idle", "blocking", "signaling"}, NotifyThen(f, where),
             values' \in Seq(Elements), producers' \in Seq(Elements), size' \in Nat, UNCHANGED closed,
             InOrder', size' = Len(values'), size' <= capacity, producers' # <<>> => size' = capacity
      PROVE  Inv'
  <2>1. /\ sent' \in [Senders -> 0..MaxSends] /\ accepted' \in Seq(Elements) /\ AcceptedOnce'
        /\ D!TypeOK' /\ UNCHANGED get /\ cell'[Consumer] = cell[Consumer]
    BY <1>1, <1>6, Accepts DEF e
  <2>2. /\ pc' \in [Fibers -> PCs] /\ after' \in [Senders -> {"idle", "blocking", "signaling"}]
        /\ waiting' = FALSE /\ \A g \in Fibers \ {f} : pc'[g] = pc[g]
        /\ pc'[Consumer] = pc[Consumer]
        /\ pc[Consumer] \in {"blocking", "awaiting"} /\ cell[Consumer].value = D!NoValue =>
                (Owed \/ Deserted)'
    BY <1>1, <1>6, <2>1, NotifyThenKeeps
  <2>3. TypeOK'
    BY <1>1, <1>6, <2>1, <2>2 DEF Inv, TypeOK
  <2>4. ConsumerPlace' /\ OneBatch'
    BY <1>1, <2>2 DEF Inv, ConsumerPlace, OneBatch
  <2>5. OnlyAwaitingGets'
    BY <1>3, <2>1, <2>2 DEF Inv, OnlyAwaitingGets
  <2>6. Noticed'
    BY <1>1, <1>6, <2>1, <2>2 DEF Noticed, D!IsSet
  <2> QED BY <1>6, <2>1, <2>3, <2>4, <2>5, <2>6 DEF Inv
<1>7. CASE SendToBuffer(f, e)
  <2>1. /\ size < capacity /\ values' = Append(values, e) /\ size' = size + 1
        /\ NotifyThen(f, "idle") /\ Accept(f, e) /\ UNCHANGED <<producers, closed>>
    BY <1>7 DEF SendToBuffer
  <2>2. producers = <<>>
    BY <1>4, <2>1
  <2>3. e \in Elements /\ accepted' = Append(accepted, e)
    BY <1>1, <2>1, Accepts DEF e
  <2>4. values' \in Seq(Elements) /\ Len(values') = Len(values) + 1
    BY <1>4, <2>1, <2>3
  <2>5. InOrder'
    <3> DEFINE taken == emitted \o batch
    <3>1. taken \in Seq(Elements)
      BY <1>4, ConcatProperties
    <3>2. taken \o values \in Seq(Elements) /\ taken \o values' \in Seq(Elements)
      BY <1>4, <2>4, <3>1, ConcatProperties
    <3>3. accepted = taken \o values
      BY <1>4, <2>2, <3>2, ConcatEmptySeq
    <3> HIDE DEF taken
    <3>4. taken \o values' = Append(taken \o values, e)
      <4>1. values \in Seq(Elements) /\ values' = Append(values, e) /\ e \in Elements
        BY <1>4, <2>1, <2>3
      <4> QED BY <3>1, <4>1, JoinAppend
    <3>5. (taken \o values') \o producers = taken \o values'
      BY <2>2, <3>2, ConcatEmptySeq
    <3>6. emitted' \o batch' = taken /\ producers' = producers
      BY <1>1, <2>1 DEF taken
    <3> QED BY <2>3, <3>3, <3>4, <3>5, <3>6 DEF InOrder
  <2> QED BY <1>4, <1>6, <2>1, <2>2, <2>4, <2>5
<1>8. CASE SendAndBlock(f, e)
  <2>1. /\ size >= capacity /\ producers' = Append(producers, e)
        /\ NotifyThen(f, "blocking") /\ Accept(f, e) /\ UNCHANGED <<values, size, closed>>
    BY <1>8 DEF SendAndBlock
  <2>2. e \in Elements /\ accepted' = Append(accepted, e)
    BY <1>1, <2>1, Accepts DEF e
  <2>3. producers' \in Seq(Elements)
    BY <1>4, <2>1, <2>2
  <2>4. InOrder'
    <3> DEFINE taken == emitted \o batch \o values
    <3>1. taken \in Seq(Elements)
      BY <1>4, ConcatProperties
    <3>2. emitted' \o batch' \o values' = taken /\ accepted = taken \o producers
      BY <1>1, <1>4, <2>1
    <3> HIDE DEF taken
    <3>3. taken \o producers' = Append(taken \o producers, e)
      <4>1. producers \in Seq(Elements) /\ producers' = Append(producers, e) /\ e \in Elements
        BY <1>4, <2>1, <2>2
      <4> QED BY <3>1, <4>1, JoinAppend
    <3> QED BY <2>2, <3>2, <3>3 DEF InOrder
  <2> QED BY <1>4, <1>6, <2>1, <2>3, <2>4
<1> QED BY <1>1, <1>5, <1>7, <1>8

-----------------------------------------------------------------------------
(* close() adds no element, and notifies as a send does.                   *)
LEMMA CloseInv ==
    ASSUME Inv, NEW f \in Senders, Close(f)
    PROVE  Inv'
<1>1. f \in Fibers /\ f # Consumer /\ Consumer \in Fibers /\ pc[f] = "idle"
  BY ChannelAssumption DEF Fibers, Close, At
<1>2. get[f] = D!NotGetting
  BY <1>1 DEF Inv, OnlyAwaitingGets
<1>3. /\ UNCHANGED <<capacity, values, size, producers, gate, sent, batch, unblock, emitted, accepted>>
      /\ UNCHANGED <<cell, get, notify>>
  BY DEF Close, history, deferredVars
<1>4. D!TypeOK /\ D!TypeOK'
  BY <1>3 DEF Inv, TypeOK, D!TypeOK
<1>5. CASE closed
  <2>1. pc' = [pc EXCEPT ![f] = "done"] /\ UNCHANGED <<closed, waiting, after>>
    BY <1>5 DEF Close, Goto
  <2>2. UNCHANGED <<capacity, state, after, sent, batch, unblock, history>> /\ gate' \in BOOLEAN
    BY <1>3, <2>1 DEF Inv, TypeOK, state, history
  <2>3. "done" \in PCs
    BY DEF PCs
  <2> QED BY <1>1, <1>2, <1>3, <1>4, <2>1, <2>2, <2>3, MovesInv DEF D!IsSet
<1>6. CASE ~closed
  <2>1. closed' = TRUE /\ NotifyThen(f, "signaling")
    BY <1>6 DEF Close
  <2>2. /\ pc' \in [Fibers -> PCs] /\ after' \in [Senders -> {"idle", "blocking", "signaling"}]
        /\ waiting' = FALSE /\ \A g \in Fibers \ {f} : pc'[g] = pc[g]
        /\ pc'[Consumer] = pc[Consumer]
        /\ pc[Consumer] \in {"blocking", "awaiting"} /\ cell[Consumer].value = D!NoValue =>
                (Owed \/ Deserted)'
    BY <1>1, <1>3, <2>1, NotifyThenKeeps
  <2>3. TypeOK'
    BY <1>3, <1>4, <2>1, <2>2 DEF Inv, TypeOK
  <2>4. ConsumerPlace' /\ OneBatch' /\ OnlyAwaitingGets'
    BY <1>2, <1>3, <2>2 DEF Inv, ConsumerPlace, OneBatch, OnlyAwaitingGets
  <2>5. AcceptedOnce' /\ InOrder'
    BY <1>3 DEF Inv, AcceptedOnce, InOrder
  <2>6. Noticed'
    BY <1>3, <2>2 DEF Inv, Noticed, D!IsSet
  <2> QED BY <2>3, <2>4, <2>5, <2>6 DEF Inv
<1> QED BY <1>5, <1>6

(* A canceled send leaves the blocked sends, and all that were accepted.   *)
LEMMA AwaitCanceledInv ==
    ASSUME Inv, NEW f \in Fibers, AwaitCanceled(f)
    PROVE  Inv'
<1>1. /\ pc[f] = "awaiting" /\ D!LeaveGet(f) /\ pc' = [pc EXCEPT ![f] = "canceled"]
      /\ UNCHANGED <<capacity, values, size, waiting, closed, gate, after, sent, batch, unblock, emitted>>
  BY DEF AwaitCanceled, At, Goto
<1>2. D!TypeOK /\ Consumer \in Fibers
  BY DEF Inv, TypeOK, Fibers
<1>3. /\ D!TypeOK' /\ UNCHANGED cell /\ get'[f] = D!NotGetting
      /\ \A g \in Fibers \ {f} : get'[g] = get[g]
  BY <1>1, <1>2, GetEnds
<1>4. "canceled" \in PCs /\ "canceled" \in ConsumerPCs
  BY DEF PCs, ConsumerPCs
<1>5. CASE f = Consumer
  <2>1. UNCHANGED <<capacity, state, after, sent, batch, unblock, history>> /\ gate' \in BOOLEAN
    BY <1>1, <1>5 DEF AwaitCanceled, state, history, Inv, TypeOK
  <2> QED BY <1>1, <1>3, <1>4, <1>5, <2>1, MovesInv DEF D!IsSet
<1>6. CASE f # Consumer
  <2> DEFINE e == <<f, sent[f]>>
             taken == emitted \o batch \o values
  <2>1. /\ producers' = Without(producers, e)
        /\ accepted' = IF e \in ToSet(producers) THEN Without(accepted, e) ELSE accepted
    BY <1>6 DEF AwaitCanceled
  <2>2. /\ values \in Seq(Elements) /\ producers \in Seq(Elements) /\ accepted \in Seq(Elements)
        /\ taken \in Seq(Elements) /\ accepted = taken \o producers /\ IsInjective(accepted)
    <3>1. batch \in Seq(Elements) /\ emitted \in Seq(Elements) /\ values \in Seq(Elements)
      BY DEF Inv, TypeOK
    <3>2. taken \in Seq(Elements)
      BY <3>1, ConcatProperties
    <3> QED BY <3>1, <3>2 DEF Inv, TypeOK, InOrder, AcceptedOnce
  <2>3. taken' = taken
    BY <1>1
  <2> HIDE DEF e, taken
  <2>4. producers' \in Seq(Elements) /\ (producers = <<>> => producers' = <<>>)
    BY <2>1, <2>2, WithoutType
  <2>5. /\ accepted' = taken \o producers' /\ accepted' \in Seq(Elements)
        /\ IsInjective(accepted') /\ ToSet(accepted') \subseteq ToSet(accepted)
    <3>1. CASE e \in ToSet(producers)
      <4>1. accepted' = Without(accepted, e)
        BY <2>1, <3>1
      <4>2. Without(taken \o producers, e) = taken \o Without(producers, e)
        BY <2>2, <3>1, JoinWithoutOnce
      <4>3. /\ Without(accepted, e) \in Seq(Elements) /\ IsInjective(Without(accepted, e))
            /\ ToSet(Without(accepted, e)) = ToSet(accepted) \ {e}
        BY <2>2, WithoutFacts
      <4> QED BY <2>1, <2>2, <4>1, <4>2, <4>3
    <3>2. CASE e \notin ToSet(producers)
      BY <2>1, <2>2, <3>2 DEF Without
    <3> QED BY <3>1, <3>2
  <2>6. pc' \in [Fibers -> PCs] /\ \A g \in Fibers \ {f} : pc'[g] = pc[g]
    BY <1>1, <1>4 DEF Inv, TypeOK
  <2>7. TypeOK'
    BY <1>1, <1>3, <2>4, <2>5, <2>6 DEF Inv, TypeOK
  <2>8. ConsumerPlace' /\ OneBatch' /\ OnlyAwaitingGets'
    BY <1>1, <1>2, <1>3, <1>6, <2>6 DEF Inv, ConsumerPlace, OneBatch, OnlyAwaitingGets
  <2>9. AcceptedOnce'
    BY <1>1, <2>5 DEF Inv, AcceptedOnce
  <2>10. InOrder'
    BY <2>3, <2>5 DEF InOrder, taken
  <2>11. Noticed'
    <3>1. (waiting \/ Owed \/ Deserted) => (waiting \/ Owed \/ Deserted)'
      <4>1. \A g \in Senders : pc[g] \in {"notify", "deserted"} => pc'[g] = pc[g]
        BY <1>1, <2>6 DEF Fibers
      <4> QED BY <1>1, <4>1 DEF Owed, Deserted, At
    <3> QED BY <1>1, <1>2, <1>3, <1>6, <2>4, <2>6, <3>1 DEF Inv, Noticed, D!IsSet
  <2> QED BY <2>7, <2>8, <2>9, <2>10, <2>11 DEF Inv
<1> QED BY <1>5, <1>6

-----------------------------------------------------------------------------
(* The consumer's own steps: nobody else moves.                            *)
LEMMA ConsumeInv ==
    ASSUME Inv, Consume
    PROVE  Inv'
<1>1. /\ pc[Consumer] = "idle" /\ Consumer \in Fibers
      /\ UNCHANGED <<capacity, gate, after, sent, emitted, accepted>>
  BY DEF Consume, At, history, Fibers
<1>2. /\ values \in Seq(Elements) /\ producers \in Seq(Elements) /\ emitted \in Seq(Elements)
      /\ batch = <<>> /\ accepted = emitted \o batch \o values \o producers
      /\ capacity \in Nat /\ size \in Nat
  BY <1>1, ChannelAssumption DEF Inv, TypeOK, InOrder, OneBatch
<1>3. get[Consumer] = D!NotGetting
  BY <1>1 DEF Inv, OnlyAwaitingGets
<1> DEFINE none == <<>>
<1>4. none = <<>> /\ none \in Seq(Elements) /\ Len(none) = 0
  OBVIOUS
<1>5. CASE TakeAll
  <2>1. /\ batch' = values \o producers /\ unblock' = SendersOf(producers)
        /\ values' = <<>> /\ size' = 0 /\ waiting' = FALSE /\ producers' = <<>>
        /\ pc' = [pc EXCEPT ![Consumer] = "unblocking"]
        /\ UNCHANGED closed /\ UNCHANGED <<cell, get, notify>>
    BY <1>5 DEF TakeAll, Goto, deferredVars
  <2>2. /\ pc' \in [Fibers -> PCs] /\ pc'[Consumer] = "unblocking"
        /\ \A g \in Fibers \ {Consumer} : pc'[g] = pc[g]
    BY <1>1, <2>1 DEF Inv, TypeOK, PCs
  <2>3. unblock' \in Seq(Senders)
    <3>1. \A i \in DOMAIN producers : producers[i][1] \in Senders
      BY <1>2 DEF Elements
    <3>2. DOMAIN producers = 1..Len(producers) /\ Len(producers) \in Nat
      BY <1>2
    <3>3. unblock' = [i \in 1..Len(producers) |-> producers[i][1]]
      BY <2>1, <3>2 DEF SendersOf
    <3>4. unblock' \in [1..Len(producers) -> Senders]
      BY <3>1, <3>2, <3>3
    <3>5. \A n \in Nat : [1..n -> Senders] \subseteq Seq(Senders)
      OBVIOUS
    <3> QED BY <3>2, <3>4, <3>5
  <2>4. batch' \in Seq(Elements)
    BY <1>2, <2>1, ConcatProperties
  <2>5. D!TypeOK'
    BY <2>1 DEF Inv, TypeOK, D!TypeOK
  <2>6. TypeOK'
    <3>1. values' \in Seq(Elements) /\ producers' \in Seq(Elements) /\ size' \in Nat
      BY <2>1
    <3> QED BY <1>1, <2>1, <2>2, <2>3, <2>4, <2>5, <3>1 DEF Inv, TypeOK
  <2>7. ConsumerPlace' /\ OneBatch' /\ OnlyAwaitingGets'
    BY <1>3, <2>1, <2>2 DEF Inv, ConsumerPlace, ConsumerPCs, OneBatch, OnlyAwaitingGets
  <2>8. AcceptedOnce'
    BY <1>1 DEF Inv, AcceptedOnce
  <2>9. InOrder'
    <3>1. values' = none /\ producers' = none /\ batch = none
      BY <1>2, <2>1
    <3> HIDE DEF none
    <3>2. emitted \o batch = emitted
      BY <1>2, <3>1, <1>4, ConcatEmptySeq
    <3>3. accepted = emitted \o (values \o producers)
      BY <1>2, <3>2, ConcatAssociative
    <3>4. emitted \o batch' \in Seq(Elements)
      BY <1>2, <2>4, ConcatProperties
    <3>5. (emitted \o batch') \o none = emitted \o batch'
      BY <1>4, <3>4, ConcatEmptySeq
    <3> QED BY <1>1, <2>1, <3>1, <3>3, <3>5 DEF InOrder
  <2>10. Noticed'
    BY <1>1, <1>2, <1>4, <2>1, <2>2 DEF Noticed
  <2> QED BY <2>6, <2>7, <2>8, <2>9, <2>10 DEF Inv
<1>6. CASE TakeNothing
  <2>1. /\ values = <<>> /\ producers = <<>> /\ waiting' = TRUE
        /\ pc' = [pc EXCEPT ![Consumer] = IF closed THEN "done" ELSE "blocking"]
        /\ Allocate(Consumer) /\ UNCHANGED <<values, size, producers, closed, batch, unblock>>
    BY <1>6 DEF TakeNothing, Goto
  <2>2. /\ pc' \in [Fibers -> PCs] /\ pc'[Consumer] \in {"done", "blocking"}
        /\ \A g \in Fibers \ {Consumer} : pc'[g] = pc[g]
    BY <1>1, <2>1 DEF Inv, TypeOK, PCs
  <2>3. D!TypeOK' /\ UNCHANGED get
    BY <1>1, <2>1, Allocates DEF Inv, TypeOK
  <2>4. TypeOK'
    BY <1>1, <2>1, <2>2, <2>3 DEF Inv, TypeOK
  <2>5. ConsumerPlace' /\ OneBatch' /\ OnlyAwaitingGets'
    BY <1>2, <1>3, <2>1, <2>2, <2>3 DEF Inv, ConsumerPlace, ConsumerPCs, OneBatch, OnlyAwaitingGets
  <2>6. AcceptedOnce' /\ InOrder'
    BY <1>1, <2>1 DEF Inv, AcceptedOnce, InOrder
  <2>7. Noticed'
    BY <1>1, <2>1 DEF Inv, Noticed
  <2> QED BY <2>4, <2>5, <2>6, <2>7 DEF Inv
<1> QED BY <1>5, <1>6 DEF Consume

LEMMA UnblockInv ==
    ASSUME Inv, Unblock
    PROVE  Inv'
<1>1. /\ pc[Consumer] = "unblocking" /\ Consumer \in Fibers
      /\ UNCHANGED <<capacity, values, size, waiting, producers, closed, gate, pc, after,
                     sent, batch, emitted, accepted>>
  BY DEF Unblock, At, state, history, Fibers
<1>2. D!TypeOK
  BY DEF Inv, TypeOK
<1>3. /\ D!TypeOK' /\ unblock' \in Seq(Senders)
      /\ \A g \in Fibers : get'[g] = D!NotGetting <=> get[g] = D!NotGetting
  <2>1. unblock \in Seq(Senders)
    BY DEF Inv, TypeOK
  <2>2. CASE D!NotifyReader(Consumer) /\ UNCHANGED unblock
    BY <1>1, <1>2, <2>1, <2>2, GetSteps
  <2>3. CASE unblock # <<>> /\ D!Complete(Consumer, Head(unblock)) /\ unblock' = Tail(unblock)
    <3>1. Head(unblock) \in Fibers /\ Tail(unblock) \in Seq(Senders)
      BY <2>1, <2>3 DEF Fibers
    <3> QED BY <1>1, <1>2, <2>3, <3>1, Completes
  <2> QED BY <2>2, <2>3 DEF Unblock
<1>4. TypeOK'
  BY <1>1, <1>3 DEF Inv, TypeOK
<1>5. ConsumerPlace' /\ OneBatch' /\ OnlyAwaitingGets'
  BY <1>1, <1>3 DEF Inv, ConsumerPlace, OneBatch, OnlyAwaitingGets
<1>6. AcceptedOnce' /\ InOrder'
  BY <1>1 DEF Inv, AcceptedOnce, InOrder
<1>7. Noticed'
  BY <1>1 DEF Inv, Noticed
<1> QED BY <1>4, <1>5, <1>6, <1>7 DEF Inv

LEMMA EmitInv ==
    ASSUME Inv, Emit
    PROVE  Inv'
<1>1. /\ pc[Consumer] = "unblocking" /\ Consumer \in Fibers
      /\ emitted' = emitted \o batch /\ batch' = <<>> /\ pc' = [pc EXCEPT ![Consumer] = "idle"]
      /\ UNCHANGED <<capacity, values, size, waiting, producers, closed, gate, after,
                     sent, unblock, accepted, cell, get, notify>>
  BY DEF Emit, At, Goto, state, deferredVars, Fibers
<1>2. /\ pc' \in [Fibers -> PCs] /\ pc'[Consumer] = "idle"
      /\ \A g \in Fibers \ {Consumer} : pc'[g] = pc[g]
  BY <1>1 DEF Inv, TypeOK, PCs
<1>3. emitted \in Seq(Elements) /\ batch \in Seq(Elements) /\ emitted' \in Seq(Elements)
  <2>1. emitted \in Seq(Elements) /\ batch \in Seq(Elements)
    BY DEF Inv, TypeOK
  <2> QED BY <1>1, <2>1, ConcatProperties
<1>4. TypeOK'
  <2>1. D!TypeOK'
    BY <1>1 DEF Inv, TypeOK, D!TypeOK
  <2>2. batch' \in Seq(Elements)
    BY <1>1
  <2> QED BY <1>1, <1>2, <1>3, <2>1, <2>2 DEF Inv, TypeOK
<1>5. ConsumerPlace' /\ OneBatch' /\ OnlyAwaitingGets'
  BY <1>1, <1>2 DEF Inv, ConsumerPlace, ConsumerPCs, OneBatch, OnlyAwaitingGets
<1>6. AcceptedOnce'
  BY <1>1 DEF Inv, AcceptedOnce
<1>7. InOrder'
  <2> DEFINE none == <<>>
  <2>1. batch' = none
    BY <1>1
  <2> HIDE DEF none
  <2>2. emitted' \o none = emitted'
    BY <1>3, ConcatEmptySeq DEF none
  <2>3. accepted = emitted' \o values \o producers
    BY <1>1 DEF Inv, InOrder
  <2> QED BY <1>1, <2>1, <2>2, <2>3 DEF InOrder
<1>8. Noticed'
  BY <1>1, <1>2 DEF Inv, Noticed
<1> QED BY <1>4, <1>5, <1>6, <1>7, <1>8 DEF Inv

-----------------------------------------------------------------------------
(* The invariant holds of a new channel, and every step keeps it.          *)
LEMMA InvInit == Init => Inv
<1> SUFFICES ASSUME Init PROVE Inv
  OBVIOUS
<1> DEFINE none == <<>>
<1>1. /\ none = <<>> /\ none \in Seq(Elements) /\ none \in Seq(Senders) /\ none \in Seq(Fibers)
      /\ Len(none) = 0 /\ IsInjective(none) /\ ToSet(none) = {}
  BY DEF IsInjective, ToSet
<1>2. /\ values = none /\ producers = none /\ batch = none /\ unblock = none
      /\ emitted = none /\ accepted = none /\ size = 0 /\ capacity \in Capacities
      /\ waiting = FALSE /\ closed = FALSE /\ gate = FALSE
      /\ pc = [f \in Fibers |-> "idle"] /\ after = [f \in Senders |-> "idle"]
      /\ sent = [f \in Senders |-> 0]
  BY DEF Init
<1>3. D!TypeOK /\ \A f \in Fibers : get[f] = D!NotGetting
  BY DEF Init, D!Init, D!TypeOK
<1>4. Consumer \in Fibers /\ MaxSends \in Nat /\ capacity \in Nat
  BY <1>2, ChannelAssumption DEF Fibers
<1> HIDE DEF none
<1>5. TypeOK
  <2>1. /\ pc \in [Fibers -> PCs] /\ after \in [Senders -> {"idle", "blocking", "signaling"}]
        /\ sent \in [Senders -> 0..MaxSends]
    BY <1>2, <1>4 DEF PCs
  <2> QED BY <1>1, <1>2, <1>3, <2>1 DEF TypeOK
<1>6. ConsumerPlace /\ OneBatch /\ OnlyAwaitingGets
  BY <1>1, <1>2, <1>3, <1>4 DEF ConsumerPlace, ConsumerPCs, OneBatch, OnlyAwaitingGets
<1>7. AcceptedOnce
  <2>1. accepted = none
    BY <1>2
  <2> QED BY <1>1, <2>1 DEF AcceptedOnce
<1>8. InOrder
  <2>1. none \o none = none
    BY <1>1, ConcatEmptySeq
  <2> QED BY <1>2, <2>1 DEF InOrder
<1>9. Noticed
  BY <1>1, <1>2, <1>4 DEF Noticed
<1> QED BY <1>5, <1>6, <1>7, <1>8, <1>9 DEF Inv

LEMMA InvNext == Inv /\ [Next]_vars => Inv'
<1> SUFFICES ASSUME Inv, [Next]_vars PROVE Inv'
  OBVIOUS
<1>1. ASSUME NEW f \in Senders, Send(f) \/ Close(f) PROVE Inv'
  BY <1>1, SendInv, CloseInv
<1>2. CASE Loop
  BY <1>2, ConsumeInv, UnblockInv, EmitInv DEF Loop
<1>3. ASSUME NEW f \in Fibers, Step(f) \/ Cancel(f) \/ CancelAwait(f) PROVE Inv'
  BY <1>3, StepInv, AwaitCanceledInv, CancelInv DEF Step
<1>4. CASE UNCHANGED vars
  BY <1>4 DEF vars, state, history, deferredVars, Inv, TypeOK, D!TypeOK, ConsumerPlace,
              OnlyAwaitingGets, OneBatch, AcceptedOnce, InOrder, Noticed, Owed, Deserted,
              At, D!IsSet
<1> QED BY <1>1, <1>2, <1>3, <1>4 DEF Next

LEMMA InvAlways == Spec => []Inv
BY InvInit, InvNext, PTL DEF Spec

(* The variables of the channel, its fibers and their Deferreds keep their *)
(* types, through the updates of state in channel.ts and cancelations.     *)
THEOREM TypeCorrect == Spec => []TypeOK
<1>1. Inv => TypeOK
  BY DEF Inv
<1> QED BY InvAlways, <1>1, PTL

(* The channel neither reorders, nor repeats, nor loses the elements of    *)
(* send(), those of blocked sends and of canceled ones included.           *)
THEOREM ElementsInOrder == Spec => []InOrder
<1>1. Inv => InOrder
  BY DEF Inv
<1> QED BY InvAlways, <1>1, PTL

(* The consumer that waits in consumeLoop is registered or about to be     *)
(* woken, unless a sender was canceled before its notifyStream.            *)
THEOREM ConsumerNotified == Spec => []NoVainWait
<1>1. Inv => NoVainWait
  <2> SUFFICES ASSUME Inv PROVE NoVainWait
    OBVIOUS
  <2>1. ConsumerParked => pc[Consumer] \in {"blocking", "awaiting"}
    <3>1. D!Parked(Consumer) => get[Consumer] # D!NotGetting
      BY DEF D!Parked, D!NotGetting
    <3> QED BY <3>1 DEF ConsumerParked, Inv, OnlyAwaitingGets, Fibers
  <2> QED BY <2>1 DEF Inv, Noticed, NoVainWait
<1> QED BY InvAlways, <1>1, PTL
-----------------------------------------------------------------------------
(* A fiber's Deferred has no reader but the fiber, and is set when its     *)
(* get() has a result. Somebody notifies on it only while the fiber is in  *)
(* that get(), or was canceled: nobody does when it is allocated anew.     *)
Listed == {"registered", "waiting", "deleting"}

InTurn(d) ==
    /\ get[d].on \in {d, D!Nowhere}
    /\ get[d].pc \in {"fired", "resumed", "got"} => D!IsSet(d)
    /\ cell[d].readers \in {<<>>, <<d>>}
    /\ cell[d].readers # <<>> => get[d].pc \in Listed /\ ~D!IsSet(d)
    /\ \A f \in Fibers : D!Notifying(f) /\ notify[f].on = d =>
        /\ notify[f].readers = <<d>> /\ cell[d].value = f
        /\ get[d].pc \in Listed \cup {"canceled"} \/ pc[d] = "canceled"

DeferredsInTurn == \A d \in Fibers : InTurn(d)

(* The Deferred of a fiber that the step does not concern.                 *)
LEMMA InTurnStays ==
    ASSUME NEW d \in Fibers, InTurn(d), cell'[d] = cell[d], get'[d] = get[d],
           pc[d] = "canceled" => pc'[d] = "canceled",
           \A f \in Fibers : D!Notifying(f)' /\ notify'[f].on = d => notify'[f] = notify[f]
    PROVE  InTurn(d)'
<1>1. \A f \in Fibers : D!Notifying(f)' /\ notify'[f].on = d => D!Notifying(f) /\ notify[f].on = d
  BY DEF D!Notifying
<1> QED BY <1>1 DEF InTurn, D!IsSet

(* Types of a fiber's get() and of what it notifies.                       *)
LEMMA GetKinds ==
    ASSUME D!TypeOK, DeferredsInTurn, NEW f \in Fibers
    PROVE  /\ get[f] = D!NotGetting \/ (get[f].pc \in D!GetPCs /\ get[f].on = f)
           /\ D!NotGetting.pc = "none" /\ D!NotGetting.on = D!Nowhere /\ D!Nowhere \notin Fibers
           /\ D!Notifying(f) => notify[f].on \in Fibers
           /\ D!NoValue \notin Fibers
<1>1. D!Nowhere \notin Fibers /\ D!NoValue \notin Fibers
  BY ChannelAssumption DEF D!Nowhere, D!NoValue
<1>2. get[f] \in {D!NotGetting} \cup [pc : D!GetPCs, on : Fibers]
  BY DEF D!TypeOK
<1>3. get[f].on \in {f, D!Nowhere}
  BY DEF DeferredsInTurn, InTurn
<1>4. D!Notifying(f) => notify[f].on \in Fibers
  BY DEF D!TypeOK, D!Notifying, D!NobodyToNotify
<1> QED BY <1>1, <1>2, <1>3, <1>4 DEF D!NotGetting

(* The fiber's own steps in its get().                                     *)
LEMMA GetTurn ==
    ASSUME D!TypeOK, DeferredsInTurn, NEW f \in Fibers, D!GetStep(f) \/ D!CancelGet(f),
           \A g \in Fibers : pc[g] = "canceled" => pc'[g] = "canceled"
    PROVE  DeferredsInTurn'
<1>1. UNCHANGED notify /\ get[f].pc \in D!GetPCs /\ get[f].on = f
  <2>1. UNCHANGED notify /\ get[f].pc # "none"
    BY DEF D!GetStep, D!ReadState, D!AddReader, D!Await, D!Resume, D!DeleteReader,
           D!CancelGet, D!At
  <2> QED BY <2>1, GetKinds
<1>2. \A d \in Fibers \ {f} : get'[d] = get[d] /\ cell'[d] = cell[d]
  BY <1>1 DEF D!GetStep, D!ReadState, D!AddReader, D!Await, D!Resume, D!DeleteReader,
              D!CancelGet, D!Goto, D!TypeOK
<1>3. InTurn(f)
  BY DEF DeferredsInTurn
<1>4. cell \in [Fibers -> [value : Fibers \cup {D!NoValue}, readers : Seq(Fibers)]]
  BY DEF D!TypeOK
<1>5. \A p : D!Goto(f, p) => get'[f].pc = p /\ get'[f].on = f
  <2>1. get[f] \in [pc : D!GetPCs, on : Fibers]
    BY <1>1, GetKinds DEF D!TypeOK
  <2> QED BY <1>1, <2>1 DEF D!Goto, D!TypeOK
<1>6. ASSUME NEW p, D!Goto(f, p), cell' = cell,
             p \in {"fired", "resumed", "got"} => D!IsSet(f),
             get[f].pc \in Listed => p \in Listed,
             get[f].pc = "canceled" => p = "canceled"
      PROVE  InTurn(f)'
  BY <1>1, <1>3, <1>5, <1>6 DEF InTurn, D!IsSet, D!Notifying
<1>7. ASSUME D!ReadState(f) PROVE InTurn(f)'
  BY <1>1, <1>3, <1>6, <1>7 DEF D!ReadState, D!At, Listed
<1>8. ASSUME D!AddReader(f) PROVE InTurn(f)'
  <2>1. get[f].pc = "entering"
    BY <1>8 DEF D!AddReader, D!At
  <2>2. CASE D!IsSet(f)
    BY <1>1, <1>6, <1>8, <2>1, <2>2 DEF D!AddReader, Listed
  <2>3. CASE ~D!IsSet(f)
    <3>1. D!Goto(f, "registered") /\ cell' = [cell EXCEPT ![f].readers = Append(@, f)]
      BY <1>1, <1>8, <2>3 DEF D!AddReader
    <3>2. cell[f].readers = <<>>
      BY <1>3, <2>1 DEF InTurn, Listed
    <3>3. cell'[f].value = cell[f].value /\ cell'[f].readers = <<f>>
      BY <1>4, <3>1, <3>2
    <3>4. \A g \in Fibers : ~(D!Notifying(g) /\ notify[g].on = f) \/ pc[f] = "canceled"
      BY <1>3, <2>1 DEF InTurn, Listed
    <3>5. get'[f].pc = "registered" /\ get'[f].on = f
      BY <1>5, <3>1
    <3> QED BY <1>1, <1>3, <2>3, <3>3, <3>4, <3>5 DEF InTurn, D!IsSet, D!Notifying, Listed
  <2> QED BY <2>2, <2>3
<1>9. ASSUME D!Await(f) PROVE InTurn(f)'
  <2>1. /\ get[f].pc \in {"registered", "fired"} /\ cell' = cell
        /\ D!Goto(f, IF D!At(f, "fired") THEN "got" ELSE "waiting")
    BY <1>9 DEF D!Await
  <2>2. get[f].pc = "fired" => D!IsSet(f)
    BY <1>3 DEF InTurn
  <2> QED BY <1>6, <2>1, <2>2 DEF D!At, Listed
<1>10. ASSUME D!Resume(f) PROVE InTurn(f)'
  <2>1. get[f].pc = "resumed" /\ cell' = cell /\ D!Goto(f, "got")
    BY <1>10 DEF D!Resume, D!At
  <2>2. D!IsSet(f)
    BY <1>3, <2>1 DEF InTurn
  <2> QED BY <1>6, <2>1, <2>2 DEF Listed
<1>11. ASSUME D!DeleteReader(f) PROVE InTurn(f)'
  <2>1. get[f].pc = "deleting" /\ D!Goto(f, "canceled")
    BY <1>11 DEF D!DeleteReader, D!At
  <2>2. cell'[f].value = cell[f].value /\ cell'[f].readers = <<>>
    <3>1. CASE D!IsSet(f)
      BY <1>1, <1>3, <1>11, <3>1 DEF D!DeleteReader, InTurn
    <3>2. CASE ~D!IsSet(f)
      <4>1. cell' = [cell EXCEPT ![f].readers = D!Without(@, f)]
        BY <1>1, <1>11, <3>2 DEF D!DeleteReader
      <4>2. D!Without(<<>>, f) = <<>> /\ D!Without(<<f>>, f) = <<>>
        <5>1. D!Without(<<>>, f) = Without(<<>>, f) /\ D!Without(<<f>>, f) = Without(<<f>>, f)
          BY DEF D!Without, D!ToSet, D!RemoveAt, Without, ToSet, RemoveAt
        <5>2. <<f>> \in Seq({f}) /\ <<>> \in Seq({f}) /\ IsInjective(<<f>>)
          BY DEF IsInjective
        <5>3. Without(<<f>>, f) \in Seq({f}) /\ ToSet(Without(<<f>>, f)) = ToSet(<<f>>) \ {f}
          BY <5>2, WithoutFacts
        <5>4. ToSet(<<f>>) = {f}
          BY DEF ToSet
        <5>5. Without(<<f>>, f) = <<>>
          BY <5>3, <5>4, EmptySeq DEF ToSet
        <5>6. Without(<<>>, f) = <<>>
          BY <5>2, WithoutType
        <5> QED BY <5>1, <5>5, <5>6
      <4>3. cell[f].readers \in {<<>>, <<f>>}
        BY <1>3 DEF InTurn
      <4> QED BY <1>4, <4>1, <4>2, <4>3
    <3> QED BY <3>1, <3>2
  <2>3. get'[f].pc = "canceled" /\ get'[f].on = f
    BY <1>5, <2>1
  <2> QED BY <1>1, <1>3, <2>1, <2>2, <2>3 DEF InTurn, D!IsSet, D!Notifying, Listed
<1>12. ASSUME D!CancelGet(f) PROVE InTurn(f)'
  BY <1>6, <1>12 DEF D!CancelGet, Listed
<1>13. InTurn(f)'
  BY <1>7, <1>8, <1>9, <1>10, <1>11, <1>12 DEF D!GetStep
<1>14. ASSUME NEW d \in Fibers \ {f} PROVE InTurn(d)'
  BY <1>1, <1>2, InTurnStays DEF DeferredsInTurn
<1> QED BY <1>13, <1>14 DEF DeferredsInTurn

(* The callback of a reader, which is the fiber whose Deferred it is.      *)
LEMMA NotifyTurn ==
    ASSUME D!TypeOK, DeferredsInTurn, NEW f \in Fibers, D!NotifyReader(f),
           \A g \in Fibers : pc[g] = "canceled" => pc'[g] = "canceled"
    PROVE  DeferredsInTurn'
<1>0. PICK d \in Fibers : d = notify[f].on
  BY GetKinds DEF D!NotifyReader
<1>1. D!Notifying(f) /\ d = notify[f].on /\ UNCHANGED cell
  BY <1>0 DEF D!NotifyReader
<1>2. InTurn(d) /\ notify[f].readers = <<d>> /\ cell[d].value = f /\ D!IsSet(d)
  BY <1>1, GetKinds DEF DeferredsInTurn, InTurn, D!IsSet
<1>3. notify' = [notify EXCEPT ![f] = D!NobodyToNotify]
  BY <1>1, <1>2 DEF D!NotifyReader, D!ToNotify
<1>4. /\ notify'[f] = D!NobodyToNotify /\ ~D!Notifying(f)'
      /\ \A g \in Fibers \ {f} : notify'[g] = notify[g]
  BY <1>3 DEF D!TypeOK, D!NobodyToNotify, D!Notifying
<1>5. \/ get' = get
      \/ /\ get' = [get EXCEPT ![d].pc = CASE @ = "registered" -> "fired"
                                           [] @ = "waiting" -> "resumed"
                                           [] OTHER -> @]
         /\ get[d].on = d
  BY <1>1, <1>2 DEF D!NotifyReader
<1>6. \A g \in Fibers \ {d} : get'[g] = get[g]
  BY <1>5 DEF D!TypeOK
<1>7. /\ get'[d].on \in {d, D!Nowhere}
      /\ get'[d].pc \in {"fired", "resumed", "got"} => D!IsSet(d)
  <2>1. CASE get' = get
    BY <1>2, <2>1 DEF InTurn
  <2>2. CASE get' # get
    <3>1. get[d] \in [pc : D!GetPCs, on : Fibers]
      BY <1>1, <1>5, <2>2, GetKinds DEF D!TypeOK
    <3>2. get'[d].on = get[d].on
      BY <1>1, <1>5, <2>2, <3>1 DEF D!TypeOK
    <3> QED BY <1>2, <3>2 DEF InTurn
  <2> QED BY <2>1, <2>2
<1>8. InTurn(d)'
  <2>1. \A g \in Fibers : ~(D!Notifying(g)' /\ notify'[g].on = d)
    <3> SUFFICES ASSUME NEW g \in Fibers, D!Notifying(g)', notify'[g].on = d PROVE FALSE
      OBVIOUS
    <3>1. g # f /\ notify'[g] = notify[g]
      BY <1>4
    <3>2. D!Notifying(g) /\ notify[g].on = d
      BY <3>1 DEF D!Notifying
    <3>3. cell[d].value = g
      BY <1>2, <3>2 DEF InTurn
    <3> QED BY <1>2, <3>1, <3>3
  <2> QED BY <1>1, <1>2, <1>7, <2>1 DEF InTurn, D!IsSet
<1>9. ASSUME NEW g \in Fibers \ {d} PROVE InTurn(g)'
  <2>1. \A h \in Fibers : D!Notifying(h)' /\ notify'[h].on = g => notify'[h] = notify[h]
    BY <1>4
  <2> QED BY <1>1, <1>6, <2>1, InTurnStays DEF DeferredsInTurn
<1> QED BY <1>8, <1>9 DEF DeferredsInTurn

(* complete() of a Deferred owes its one reader, if any, a callback.       *)
LEMMA CompleteTurn ==
    ASSUME D!TypeOK, DeferredsInTurn, NEW f \in Fibers, NEW d \in Fibers, D!Complete(f, d),
           \A g \in Fibers : pc[g] = "canceled" => pc'[g] = "canceled"
    PROVE  DeferredsInTurn'
<1>1. UNCHANGED get /\ ~D!Notifying(f) /\ InTurn(d)
  BY DEF D!Complete, DeferredsInTurn
<1>2. CASE D!IsSet(d)
  BY <1>2, InTurnStays DEF D!Complete, DeferredsInTurn
<1>3. CASE ~D!IsSet(d)
  <2>1. /\ notify' = [notify EXCEPT ![f] = D!ToNotify(d, cell[d].readers)]
        /\ cell' = [cell EXCEPT ![d] = [value |-> f, readers |-> <<>>]]
    BY <1>3 DEF D!Complete
  <2>2. /\ notify'[f] = D!ToNotify(d, cell[d].readers)
        /\ \A g \in Fibers \ {f} : notify'[g] = notify[g]
        /\ cell'[d].value = f /\ cell'[d].readers = <<>> /\ f # D!NoValue
        /\ \A g \in Fibers \ {d} : cell'[g] = cell[g]
    BY <2>1, GetKinds DEF D!TypeOK
  <2>3. \A g \in Fibers : ~(D!Notifying(g) /\ notify[g].on = d)
    BY <1>1, <1>3, GetKinds DEF InTurn, D!IsSet
  <2>4. /\ D!Notifying(f)' => cell[d].readers = <<d>> /\ notify'[f] = [on |-> d, readers |-> <<d>>]
        /\ cell[d].readers # <<>> => get[d].pc \in Listed
    BY <1>1, <2>2 DEF InTurn, D!Notifying, D!ToNotify, D!NobodyToNotify
  <2>5. InTurn(d)'
    <3> SUFFICES ASSUME NEW g \in Fibers, D!Notifying(g)', notify'[g].on = d
                 PROVE  /\ notify'[g].readers = <<d>> /\ cell'[d].value = g
                        /\ get'[d].pc \in Listed
      BY <1>1, <2>2 DEF InTurn, D!IsSet
    <3>1. CASE g = f
      BY <1>1, <2>2, <2>4, <3>1
    <3>2. CASE g # f
      BY <2>2, <2>3, <3>2 DEF D!Notifying
    <3> QED BY <3>1, <3>2
  <2>6. ASSUME NEW g \in Fibers \ {d} PROVE InTurn(g)'
    <3>1. \A h \in Fibers : D!Notifying(h)' /\ notify'[h].on = g => notify'[h] = notify[h]
      BY <2>2, <2>4
    <3> QED BY <1>1, <2>2, <3>1, InTurnStays DEF DeferredsInTurn
  <2> QED BY <2>5, <2>6 DEF DeferredsInTurn
<1> QED BY <1>2, <1>3

(* A Deferred nobody gets or notifies on is allocated anew.                *)
LEMMA AllocateTurn ==
    ASSUME D!TypeOK, DeferredsInTurn, NEW f \in Fibers, Allocate(f),
           get[f] = D!NotGetting, pc[f] # "canceled",
           \A g \in Fibers : pc[g] = "canceled" => pc'[g] = "canceled"
    PROVE  DeferredsInTurn'
<1>1. /\ UNCHANGED <<get, notify>> /\ cell'[f] = [value |-> D!NoValue, readers |-> <<>>]
      /\ \A g \in Fibers \ {f} : cell'[g] = cell[g]
  BY DEF Allocate, D!TypeOK
<1>2. get[f].pc = "none" /\ get[f].on = D!Nowhere
  BY GetKinds
<1>3. \A g \in Fibers : ~(D!Notifying(g) /\ notify[g].on = f)
  BY <1>2 DEF DeferredsInTurn, InTurn, Listed
<1>4. InTurn(f)'
  BY <1>1, <1>2, <1>3 DEF InTurn, D!Notifying
<1>5. ASSUME NEW g \in Fibers \ {f} PROVE InTurn(g)'
  BY <1>1, InTurnStays DEF DeferredsInTurn
<1> QED BY <1>4, <1>5 DEF DeferredsInTurn

(* A get() begins, or ends with a result or with the fiber's cancelation.  *)
LEMMA EndsTurn ==
    ASSUME D!TypeOK, DeferredsInTurn, NEW f \in Fibers, D!StartGet(f, f) \/ D!LeaveGet(f),
           get[f] = D!NotGetting => pc[f] # "canceled",
           get[f].pc = "canceled" => pc'[f] = "canceled",
           \A g \in Fibers : pc[g] = "canceled" => pc'[g] = "canceled"
    PROVE  DeferredsInTurn'
<1>1. /\ UNCHANGED <<cell, notify>>
      /\ \A g \in Fibers \ {f} : get'[g] = get[g]
      /\ get'[f].pc \in {"none", "reading"} /\ get'[f].on \in {f, D!Nowhere}
      /\ get[f].pc \in {"none", "got", "canceled"}
  BY GetKinds DEF D!StartGet, D!LeaveGet, D!TypeOK
<1>2. InTurn(f)
  BY DEF DeferredsInTurn
<1>3. \A g \in Fibers : D!Notifying(g) /\ notify[g].on = f => pc'[f] = "canceled"
  BY <1>1, <1>2 DEF InTurn, Listed
<1>4. InTurn(f)'
  BY <1>1, <1>2, <1>3 DEF InTurn, D!IsSet, D!Notifying, Listed
<1>5. ASSUME NEW g \in Fibers \ {f} PROVE InTurn(g)'
  BY <1>1, InTurnStays DEF DeferredsInTurn
<1> QED BY <1>4, <1>5 DEF DeferredsInTurn

(* All other steps leave the Deferreds alone, or give up notifying.        *)
LEMMA RestTurn ==
    ASSUME D!TypeOK, DeferredsInTurn, UNCHANGED <<cell, get>>,
           \A f \in Fibers : notify'[f] \in {notify[f], D!NobodyToNotify},
           \A g \in Fibers : pc[g] = "canceled" => pc'[g] = "canceled"
    PROVE  DeferredsInTurn'
<1> SUFFICES ASSUME NEW d \in Fibers PROVE InTurn(d)'
  BY DEF DeferredsInTurn
<1>1. \A f \in Fibers : D!Notifying(f)' => notify'[f] = notify[f]
  BY DEF D!Notifying, D!NobodyToNotify
<1> QED BY <1>1, InTurnStays DEF DeferredsInTurn

-----------------------------------------------------------------------------
(* Whose elements are blocked, and whom the consumer has still to release: *)
(* senders that are blocked, by their last element and once each, or gone. *)
Gone(f) == pc[f] \in {"canceled", "deserted"}

BlockedOnce ==
    /\ \A e \in ToSet(producers) : e[2] = sent[e[1]] /\ (Blocked(e[1]) \/ Gone(e[1]))
    /\ \A f \in ToSet(unblock) : Blocked(f) \/ Gone(f)
    /\ IsInjective(unblock)
    /\ unblock # <<>> => pc[Consumer] \in {"unblocking", "canceled"}

HeldInv == Inv /\ DeferredsInTurn /\ BlockedOnce /\ SendersHeld

(* The elements and the senders in these lists.                            *)
LEMMA ListKinds ==
    ASSUME Inv
    PROVE  /\ producers \in Seq(Elements) /\ unblock \in Seq(Senders)
           /\ ToSet(producers) \subseteq Elements /\ ToSet(unblock) \subseteq Senders
           /\ \A e \in Elements : e[1] \in Senders /\ e = <<e[1], e[2]>>
           /\ Senders \subseteq Fibers /\ Consumer \in Fibers \ Senders
           /\ IsInjective(producers)
<1>1. producers \in Seq(Elements) /\ unblock \in Seq(Senders)
  BY DEF Inv, TypeOK
<1>2. IsInjective(producers)
  <2> DEFINE rest == emitted \o batch \o values
  <2>1. emitted \in Seq(Elements) /\ batch \in Seq(Elements) /\ values \in Seq(Elements)
    BY DEF Inv, TypeOK
  <2>2. rest \in Seq(Elements) /\ IsInjective(rest \o producers)
    BY <2>1, ConcatProperties DEF Inv, InOrder, AcceptedOnce
  <2> HIDE DEF rest
  <2> QED BY <1>1, <2>2, JoinFacts
<1> QED BY <1>1, <1>2, ChannelAssumption DEF Elements, Fibers, ToSet

(* A step that moves fibers, but changes neither list nor sets a sender's  *)
(* Deferred: nobody blocks, and only those go on whose Deferred is set.    *)
LEMMA HeldMoves ==
    ASSUME Inv, BlockedOnce, SendersHeld, UNCHANGED <<producers, unblock, sent>>,
           \A f \in Senders : D!IsSet(f)' <=> D!IsSet(f),
           \A f \in Senders : Blocked(f)' => Blocked(f),
           \A f \in Senders : Blocked(f) => Blocked(f)' \/ Gone(f)' \/ D!IsSet(f),
           \A f \in Senders : Gone(f) => Gone(f)',
           unblock # <<>> => pc'[Consumer] \in {"unblocking", "canceled"}
    PROVE  BlockedOnce' /\ SendersHeld'
<1>1. \A f \in Senders : (InProducers(f))' <=> InProducers(f)
  BY DEF InProducers
<1>2. \A f \in Senders : Blocked(f) /\ (InProducers(f) \/ f \in ToSet(unblock)) => ~D!IsSet(f)
  BY DEF SendersHeld
<1>3. \A e \in ToSet(producers) :
        /\ e[1] \in Senders /\ e[2] = sent[e[1]] /\ InProducers(e[1])
        /\ Blocked(e[1]) \/ Gone(e[1])
  BY ListKinds DEF BlockedOnce, InProducers
<1>4. \A f \in Senders : (InProducers(f) \/ f \in ToSet(unblock)) /\ (Blocked(f) \/ Gone(f)) =>
                            Blocked(f)' \/ Gone(f)'
  BY <1>2
<1>5. BlockedOnce'
  BY <1>3, <1>4, ListKinds DEF BlockedOnce
<1>6. SendersHeld'
  BY <1>1 DEF SendersHeld
<1> QED BY <1>5, <1>6

(* One fiber moves to p.                                                   *)
LEMMA HeldMove ==
    ASSUME Inv, BlockedOnce, SendersHeld, UNCHANGED <<producers, unblock, sent>>,
           \A f \in Senders : D!IsSet(f)' <=> D!IsSet(f),
           NEW f \in Fibers, NEW p, pc' = [pc EXCEPT ![f] = p],
           \A g \in Senders \ {f} : after'[g] = after[g],
           f \in Senders => /\ Blocked(f)' => Blocked(f)
                            /\ Blocked(f) => Blocked(f)' \/ Gone(f)' \/ D!IsSet(f)
                            /\ ~Gone(f),
           f = Consumer => unblock = <<>> \/ p \in {"unblocking", "canceled"}
    PROVE  BlockedOnce' /\ SendersHeld'
<1>1. \A g \in Fibers \ {f} : pc'[g] = pc[g]
  BY DEF Inv, TypeOK
<1>2. f = Consumer => pc'[f] = p
  BY DEF Inv, TypeOK
<1>3. \A g \in Senders \ {f} : (Blocked(g)' <=> Blocked(g)) /\ (Gone(g)' <=> Gone(g))
  BY <1>1, ListKinds DEF Blocked, Gone
<1>4. unblock # <<>> => pc'[Consumer] \in {"unblocking", "canceled"}
  BY <1>1, <1>2, ListKinds DEF BlockedOnce
<1> QED BY <1>3, <1>4, HeldMoves

(* A fiber with nothing of its own in the channel.                         *)
LEMMA IdleFree ==
    ASSUME Inv, BlockedOnce, NEW f \in Senders, pc[f] = "idle"
    PROVE  /\ \A e \in ToSet(producers) : e[1] # f
           /\ f \notin ToSet(unblock)
           /\ ~Blocked(f) /\ ~Gone(f)
           /\ \A n : <<f, n>> \notin ToSet(producers)
<1>1. ~Blocked(f) /\ ~Gone(f)
  BY DEF Blocked, Gone
<1>2. \A n : <<f, n>>[1] = f
  OBVIOUS
<1> QED BY <1>1, <1>2 DEF BlockedOnce

(* What a move of one fiber leaves alone.                                  *)
LEMMA MoveStays ==
    ASSUME Inv, NEW f \in Fibers, NEW p, pc' = [pc EXCEPT ![f] = p], pc[f] # "canceled"
    PROVE  /\ pc'[f] = p /\ \A g \in Fibers \ {f} : pc'[g] = pc[g]
           /\ \A g \in Fibers : pc[g] = "canceled" => pc'[g] = "canceled"
BY DEF Inv, TypeOK

(* The steps of a fiber that adds and takes nothing.                       *)
LEMMA StepHeld ==
    ASSUME HeldInv, NEW f \in Fibers,
           NotifyStream(f) \/ Notified(f) \/ Block(f) \/ Await(f) \/ Awaited(f) \/ SignalClosure(f)
    PROVE  DeferredsInTurn' /\ BlockedOnce' /\ SendersHeld'
<1> USE DEF HeldInv
<1>1. D!TypeOK /\ Consumer \in Fibers /\ (f # Consumer => f \in Senders)
  BY DEF Inv, TypeOK, Fibers
<1>2. D!TypeOK /\ \A g \in Senders : g \in Fibers /\ g # Consumer
  BY ListKinds DEF Inv, TypeOK
<1>3. f = Consumer => pc[f] \in ConsumerPCs
  BY DEF Inv, ConsumerPlace
<1>4. UNCHANGED <<producers, unblock, sent, after>>
  BY DEF NotifyStream, Notified, Block, Await, Awaited, SignalClosure, local, state
<1>5. CASE NotifyStream(f)
  <2>1. pc[f] = "notify" /\ pc' = [pc EXCEPT ![f] = "notifying"] /\ D!Complete(f, Consumer)
    BY <1>5 DEF NotifyStream, At, Goto
  <2>2. f # Consumer /\ pc'[f] = "notifying"
        /\ \A g \in Fibers : pc[g] = "canceled" => pc'[g] = "canceled"
    BY <1>3, <2>1, MoveStays DEF ConsumerPCs
  <2>3. \A g \in Senders : D!IsSet(g)' <=> D!IsSet(g)
    BY <1>1, <1>2, <2>1, ListKinds, Completes DEF D!IsSet
  <2>4. DeferredsInTurn'
    BY <1>2, <2>1, <2>2, ListKinds, CompleteTurn
  <2>5. (Blocked(f)' <=> Blocked(f)) /\ ~Gone(f)
    BY <1>4, <2>1, <2>2 DEF Blocked, Gone
  <2> QED BY <1>4, <2>1, <2>2, <2>3, <2>4, <2>5, HeldMove
<1>6. CASE Notified(f) /\ D!NotifyReader(f) /\ UNCHANGED pc
  <2>1. \A g \in Senders : D!IsSet(g)' <=> D!IsSet(g)
    BY <1>2, <1>6, GetSteps DEF D!IsSet
  <2>2. DeferredsInTurn'
    BY <1>2, <1>6, NotifyTurn
  <2> QED BY <1>4, <1>6, <2>1, <2>2, HeldMoves DEF Blocked, Gone, BlockedOnce
<1>7. CASE Notified(f) /\ Goto(f, after[f]) /\ UNCHANGED deferredVars
  <2>1. pc[f] = "notifying" /\ pc' = [pc EXCEPT ![f] = after[f]] /\ UNCHANGED <<cell, get, notify>>
    BY <1>7 DEF Notified, At, Goto, deferredVars
  <2>2. f # Consumer /\ pc'[f] = after[f]
        /\ \A g \in Fibers : pc[g] = "canceled" => pc'[g] = "canceled"
    BY <1>3, <2>1, MoveStays DEF ConsumerPCs
  <2>3. after[f] \in {"idle", "blocking", "signaling"}
    BY <1>1, <2>2 DEF Inv, TypeOK
  <2>4. (Blocked(f)' <=> Blocked(f)) /\ ~Gone(f)
    BY <1>4, <2>1, <2>2, <2>3 DEF Blocked, Gone
  <2>5. DeferredsInTurn'
    BY <1>2, <2>1, <2>2, RestTurn
  <2> QED BY <1>4, <2>1, <2>2, <2>4, <2>5, HeldMove DEF D!IsSet
<1>8. CASE Block(f)
  <2>1. pc[f] = "blocking" /\ pc' = [pc EXCEPT ![f] = "awaiting"] /\ D!StartGet(f, f)
    BY <1>8 DEF Block, At, Goto
  <2>2. /\ pc'[f] = "awaiting" /\ UNCHANGED cell /\ get[f].pc # "canceled"
        /\ \A g \in Fibers : pc[g] = "canceled" => pc'[g] = "canceled"
    BY <1>2, <2>1, MoveStays, GetKinds DEF D!StartGet
  <2>3. DeferredsInTurn'
    BY <1>2, <2>1, <2>2, EndsTurn
  <2>4. (Blocked(f)' <=> Blocked(f)) /\ ~Gone(f)
    BY <1>4, <2>1, <2>2 DEF Blocked, Gone
  <2>5. f = Consumer => unblock = <<>>
    BY <2>1 DEF BlockedOnce
  <2> QED BY <1>4, <2>1, <2>2, <2>3, <2>4, <2>5, HeldMove DEF D!IsSet
<1>9. CASE Await(f)
  <2>1. UNCHANGED pc /\ D!GetStep(f)
    BY <1>9 DEF Await
  <2>2. \A g \in Senders : D!IsSet(g)' <=> D!IsSet(g)
    BY <1>2, <2>1, GetSteps DEF D!IsSet
  <2>3. DeferredsInTurn'
    BY <1>2, <2>1, GetTurn
  <2> QED BY <1>4, <2>1, <2>2, <2>3, HeldMoves DEF Blocked, Gone, BlockedOnce
<1>10. CASE Awaited(f)
  <2>1. /\ pc[f] = "awaiting" /\ pc' = [pc EXCEPT ![f] = "idle"]
        /\ D!LeaveGet(f) /\ get[f].pc = "got"
    BY <1>10 DEF Awaited, At, Goto, D!At
  <2>2. /\ pc'[f] = "idle" /\ UNCHANGED cell /\ get[f] # D!NotGetting
        /\ \A g \in Fibers : pc[g] = "canceled" => pc'[g] = "canceled"
    BY <1>2, <2>1, MoveStays, GetKinds DEF D!LeaveGet
  <2>3. DeferredsInTurn'
    BY <1>2, <2>1, <2>2, EndsTurn
  <2>4. D!IsSet(f)
    BY <2>1 DEF DeferredsInTurn, InTurn
  <2>5. ~Blocked(f)' /\ ~Gone(f)
    BY <1>4, <2>1, <2>2 DEF Blocked, Gone
  <2>6. f = Consumer => unblock = <<>>
    BY <2>1 DEF BlockedOnce
  <2> QED BY <1>4, <2>1, <2>2, <2>3, <2>4, <2>5, <2>6, HeldMove DEF D!IsSet
<1>11. CASE SignalClosure(f)
  <2>1. /\ pc[f] = "signaling" /\ pc' = [pc EXCEPT ![f] = "done"]
        /\ UNCHANGED <<cell, get, notify>>
    BY <1>11 DEF SignalClosure, At, Goto, deferredVars
  <2>2. /\ f # Consumer /\ pc'[f] = "done"
        /\ \A g \in Fibers : pc[g] = "canceled" => pc'[g] = "canceled"
    BY <1>3, <2>1, MoveStays DEF ConsumerPCs
  <2>3. DeferredsInTurn'
    BY <1>2, <2>1, <2>2, RestTurn
  <2>4. ~Blocked(f)' /\ ~Blocked(f) /\ ~Gone(f)
    BY <2>1, <2>2 DEF Blocked, Gone
  <2> QED BY <1>4, <2>1, <2>2, <2>3, <2>4, HeldMove DEF D!IsSet
<1> QED BY <1>5, <1>6, <1>7, <1>8, <1>9, <1>10, <1>11 DEF Notified

(* Cancelation: the fiber is gone, or about to leave its get().            *)
LEMMA CancelHeld ==
    ASSUME HeldInv, NEW f \in Fibers, Cancel(f) \/ CancelAwait(f)
    PROVE  DeferredsInTurn' /\ BlockedOnce' /\ SendersHeld'
<1> USE DEF HeldInv
<1>1. D!TypeOK /\ \A g \in Senders : g \in Fibers /\ g # Consumer
  BY ListKinds DEF Inv, TypeOK
<1>2. f = Consumer => pc[f] \in ConsumerPCs
  BY DEF Inv, ConsumerPlace
<1>3. UNCHANGED <<producers, unblock, sent, after>>
  BY DEF Cancel, CancelAwait, local, state
<1>4. CASE Cancel(f)
  <2> DEFINE p == IF At(f, "notify") \/ (At(f, "notifying") /\ D!Notifying(f))
                    THEN "deserted" ELSE "canceled"
  <2>1. /\ pc' = [pc EXCEPT ![f] = p] /\ p \in {"canceled", "deserted"}
        /\ p = "deserted" => pc[f] \in {"notify", "notifying"}
    BY <1>4 DEF Cancel, Goto, At
  <2> HIDE DEF p
  <2>2. /\ pc[f] \in {"idle", "blocking", "unblocking", "notify", "notifying"}
        /\ notify' = [notify EXCEPT ![f] = D!NobodyToNotify] /\ UNCHANGED <<cell, get>>
    BY <1>4 DEF Cancel, Unmasked
  <2>3. /\ pc'[f] = p
        /\ \A g \in Fibers : pc[g] = "canceled" => pc'[g] = "canceled"
    BY <2>1, <2>2, MoveStays
  <2>4. \A g \in Fibers : notify'[g] \in {notify[g], D!NobodyToNotify}
    BY <1>1, <2>2 DEF D!TypeOK
  <2>5. DeferredsInTurn'
    BY <1>1, <2>2, <2>3, <2>4, RestTurn
  <2>6. ~Blocked(f)' /\ Gone(f)' /\ ~Gone(f)
    BY <2>1, <2>2, <2>3 DEF Blocked, Gone
  <2>7. f = Consumer => p = "canceled"
    BY <1>2, <2>1 DEF ConsumerPCs
  <2> QED BY <1>3, <2>1, <2>2, <2>5, <2>6, <2>7, HeldMove DEF D!IsSet
<1>5. CASE CancelAwait(f)
  <2>1. UNCHANGED pc /\ D!CancelGet(f)
    BY <1>5 DEF CancelAwait
  <2>2. \A g \in Senders : D!IsSet(g)' <=> D!IsSet(g)
    BY <1>1, <2>1, GetSteps DEF D!IsSet
  <2>3. DeferredsInTurn'
    BY <1>1, <2>1, GetTurn
  <2> QED BY <1>3, <2>1, <2>2, <2>3, HeldMoves DEF Blocked, Gone, BlockedOnce
<1> QED BY <1>4, <1>5

-----------------------------------------------------------------------------
(* The effect of an update by a fiber that had nothing in the channel.     *)
LEMMA UpdateMoves ==
    ASSUME HeldInv, NEW f \in Senders, pc[f] = "idle",
           NEW where \in {"idle", "blocking", "signaling"}, NotifyThen(f, where)
    PROVE  /\ pc'[f] \in {"notify", where} /\ after'[f] = where
           /\ Blocked(f)' <=> where = "blocking"
           /\ ~Gone(f)'
           /\ \A g \in Senders \ {f} : (Blocked(g)' <=> Blocked(g)) /\ (Gone(g)' <=> Gone(g))
           /\ pc'[Consumer] = pc[Consumer]
           /\ \A g \in Fibers : pc[g] = "canceled" => pc'[g] = "canceled"
<1>1. f \in Fibers /\ Consumer \in Fibers \ Senders /\ \A g \in Senders : g \in Fibers
  BY ListKinds DEF HeldInv
<1>2. /\ pc'[f] \in {"notify", where} /\ \A g \in Fibers \ {f} : pc'[g] = pc[g]
      /\ after'[f] = where /\ \A g \in Senders \ {f} : after'[g] = after[g]
  BY <1>1 DEF NotifyThen, Goto, HeldInv, Inv, TypeOK
<1>3. Blocked(f)' <=> where = "blocking"
  BY <1>2 DEF Blocked
<1>4. ~Gone(f)'
  BY <1>2 DEF Gone
<1>5. \A g \in Senders \ {f} : (Blocked(g)' <=> Blocked(g)) /\ (Gone(g)' <=> Gone(g))
  BY <1>1, <1>2 DEF Blocked, Gone
<1> QED BY <1>1, <1>2, <1>3, <1>4, <1>5

(* A send, which finds the channel closed, or not full, or blocks.         *)
LEMMA SendHeld ==
    ASSUME HeldInv, NEW f \in Senders, Send(f)
    PROVE  DeferredsInTurn' /\ BlockedOnce' /\ SendersHeld'
<1> USE DEF HeldInv
<1> DEFINE e == <<f, sent[f] + 1>>
<1>1. /\ pc[f] = "idle" /\ sent[f] < MaxSends /\ UNCHANGED unblock
      /\ SendClosed(f) \/ SendToBuffer(f, e) \/ SendAndBlock(f, e)
  BY DEF Send, At
<1>2. f \in Fibers /\ f # Consumer /\ Consumer \in Fibers /\ \A g \in Senders : g \in Fibers
  BY ListKinds
<1>3. D!TypeOK /\ get[f] = D!NotGetting
  BY <1>1, <1>2 DEF Inv, OnlyAwaitingGets, TypeOK
<1>4. /\ \A d \in ToSet(producers) : d[1] \in Senders \ {f}
      /\ \A g \in ToSet(unblock) : g \in Senders \ {f}
      /\ ~Blocked(f) /\ ~Gone(f)
  BY <1>1, IdleFree, ListKinds
<1>5. CASE SendClosed(f)
  <2>1. /\ pc' = [pc EXCEPT ![f] = "done"] /\ UNCHANGED <<producers, sent, after, cell, get, notify>>
    BY <1>5 DEF SendClosed, Goto, state, deferredVars
  <2>2. /\ pc'[f] = "done" /\ \A g \in Fibers : pc[g] = "canceled" => pc'[g] = "canceled"
    BY <1>1, <1>2, <2>1, MoveStays
  <2>3. DeferredsInTurn'
    BY <1>3, <2>1, <2>2, RestTurn
  <2>4. ~Blocked(f)'
    BY <2>2 DEF Blocked
  <2> QED BY <1>1, <1>2, <1>4, <2>1, <2>3, <2>4, HeldMove DEF D!IsSet
<1> HIDE DEF e
<1>6. ASSUME Accept(f, e), NEW where \in {"idle", "blocking", "signaling"}, NotifyThen(f, where)
      PROVE  /\ DeferredsInTurn'
             /\ ~D!IsSet(f)' /\ \A g \in Senders \ {f} : D!IsSet(g)' <=> D!IsSet(g)
             /\ e = <<f, sent'[f]>> /\ \A g \in Senders \ {f} : sent'[g] = sent[g]
             /\ Blocked(f)' <=> where = "blocking"
             /\ \A g \in Senders \ {f} : (Blocked(g)' <=> Blocked(g)) /\ (Gone(g)' <=> Gone(g))
             /\ pc'[Consumer] = pc[Consumer]
  <2>1. Allocate(f) /\ sent' = [sent EXCEPT ![f] = @ + 1]
    BY <1>6 DEF Accept
  <2>2. /\ Blocked(f)' <=> where = "blocking"
        /\ \A g \in Senders \ {f} : (Blocked(g)' <=> Blocked(g)) /\ (Gone(g)' <=> Gone(g))
        /\ pc'[Consumer] = pc[Consumer]
        /\ \A g \in Fibers : pc[g] = "canceled" => pc'[g] = "canceled"
    BY <1>1, <1>6, UpdateMoves
  <2>3. DeferredsInTurn'
    BY <1>1, <1>2, <1>3, <2>1, <2>2, AllocateTurn
  <2>4. ~D!IsSet(f)' /\ \A g \in Senders \ {f} : D!IsSet(g)' <=> D!IsSet(g)
    BY <1>2, <1>3, <2>1 DEF Allocate, D!IsSet, D!TypeOK
  <2>5. e = <<f, sent'[f]>> /\ \A g \in Senders \ {f} : sent'[g] = sent[g]
    BY <2>1 DEF e, Inv, TypeOK
  <2> QED BY <2>2, <2>3, <2>4, <2>5
<1>7. CASE SendToBuffer(f, e)
  <2>1. Accept(f, e) /\ NotifyThen(f, "idle") /\ UNCHANGED producers
    BY <1>7 DEF SendToBuffer
  <2>2. /\ DeferredsInTurn' /\ ~Blocked(f)'
        /\ \A g \in Senders \ {f} : D!IsSet(g)' <=> D!IsSet(g)
        /\ \A g \in Senders \ {f} : sent'[g] = sent[g]
        /\ \A g \in Senders \ {f} : (Blocked(g)' <=> Blocked(g)) /\ (Gone(g)' <=> Gone(g))
        /\ pc'[Consumer] = pc[Consumer]
    BY <1>6, <2>1
  <2>3. BlockedOnce'
    BY <1>1, <1>4, <2>1, <2>2 DEF BlockedOnce
  <2>4. SendersHeld'
    BY <1>1, <2>1, <2>2 DEF SendersHeld, InProducers
  <2> QED BY <2>2, <2>3, <2>4
<1>8. CASE SendAndBlock(f, e)
  <2>1. Accept(f, e) /\ NotifyThen(f, "blocking") /\ producers' = Append(producers, e)
    BY <1>8 DEF SendAndBlock
  <2>2. /\ DeferredsInTurn' /\ Blocked(f)' /\ ~D!IsSet(f)' /\ e = <<f, sent'[f]>>
        /\ \A g \in Senders \ {f} : D!IsSet(g)' <=> D!IsSet(g)
        /\ \A g \in Senders \ {f} : sent'[g] = sent[g]
        /\ \A g \in Senders \ {f} : (Blocked(g)' <=> Blocked(g)) /\ (Gone(g)' <=> Gone(g))
        /\ pc'[Consumer] = pc[Consumer]
    BY <1>6, <2>1
  <2>3. ToSet(producers') = ToSet(producers) \cup {e} /\ e[1] = f /\ e[2] = sent'[f]
    <3>1. e \in Elements
      BY <1>1, <2>1, Accepts DEF e
    <3>2. producers \in Seq(Elements)
      BY ListKinds
    <3>3. ToSet(producers') = ToSet(producers) \cup {e}
      BY <2>1, <3>1, <3>2, AppendFacts
    <3> QED BY <2>2, <3>3
  <2>4. BlockedOnce'
    BY <1>1, <1>4, <2>2, <2>3 DEF BlockedOnce
  <2>5. \A g \in Senders \ {f} : (InProducers(g))' <=> InProducers(g)
    <3> SUFFICES ASSUME NEW g \in Senders \ {f} PROVE (InProducers(g))' <=> InProducers(g)
      OBVIOUS
    <3>1. <<g, sent[g]>> # e
      BY <2>2
    <3> QED BY <2>2, <2>3, <3>1 DEF InProducers
  <2>6. SendersHeld'
    <3>1. (InProducers(f))' /\ f \notin ToSet(unblock)
      BY <1>4, <2>2, <2>3 DEF InProducers
    <3> QED BY <1>1, <2>2, <2>5, <3>1 DEF SendersHeld
  <2> QED BY <2>2, <2>4, <2>6
<1> QED BY <1>1, <1>5, <1>7, <1>8 DEF e

(* close() blocks nobody.                                                  *)
LEMMA CloseHeld ==
    ASSUME HeldInv, NEW f \in Senders, Close(f)
    PROVE  DeferredsInTurn' /\ BlockedOnce' /\ SendersHeld'
<1> USE DEF HeldInv
<1>1. pc[f] = "idle" /\ UNCHANGED <<producers, unblock, sent, cell, get, notify>>
  BY DEF Close, At, deferredVars
<1>2. f \in Fibers /\ f # Consumer /\ Consumer \in Fibers
  BY ListKinds
<1>3. D!TypeOK /\ ~Blocked(f) /\ ~Gone(f)
  BY <1>1, IdleFree DEF Inv, TypeOK
<1>4. CASE closed
  <2>1. pc' = [pc EXCEPT ![f] = "done"] /\ UNCHANGED after
    BY <1>4 DEF Close, Goto
  <2>2. pc'[f] = "done" /\ \A g \in Fibers : pc[g] = "canceled" => pc'[g] = "canceled"
    BY <1>1, <1>2, <2>1, MoveStays
  <2>3. DeferredsInTurn' /\ ~Blocked(f)'
    BY <1>1, <1>3, <2>2, RestTurn DEF Blocked
  <2> QED BY <1>1, <1>2, <1>3, <2>1, <2>3, HeldMove DEF D!IsSet
<1>5. CASE ~closed
  <2>1. NotifyThen(f, "signaling")
    BY <1>5 DEF Close
  <2>2. /\ ~Blocked(f)' /\ ~Gone(f)' /\ pc'[Consumer] = pc[Consumer]
        /\ \A g \in Senders \ {f} : (Blocked(g)' <=> Blocked(g)) /\ (Gone(g)' <=> Gone(g))
        /\ \A g \in Fibers : pc[g] = "canceled" => pc'[g] = "canceled"
    BY <1>1, <2>1, UpdateMoves
  <2>3. DeferredsInTurn'
    BY <1>1, <1>3, <2>2, RestTurn
  <2>4. \A g \in Senders : (Blocked(g)' <=> Blocked(g)) /\ (Gone(g)' <=> Gone(g))
    BY <1>3, <2>2
  <2>5. unblock # <<>> => pc'[Consumer] \in {"unblocking", "canceled"}
    BY <2>2 DEF BlockedOnce
  <2> QED BY <1>1, <2>3, <2>4, <2>5, HeldMoves DEF D!IsSet
<1> QED BY <1>4, <1>5

(* A canceled send leaves the producers, and the consumer its Deferred.    *)
LEMMA AwaitCanceledHeld ==
    ASSUME HeldInv, NEW f \in Fibers, AwaitCanceled(f)
    PROVE  DeferredsInTurn' /\ BlockedOnce' /\ SendersHeld'
<1> USE DEF HeldInv
<1>1. /\ pc[f] = "awaiting" /\ D!LeaveGet(f) /\ pc' = [pc EXCEPT ![f] = "canceled"]
      /\ UNCHANGED <<after, sent, unblock, cell>>
  BY DEF AwaitCanceled, At, Goto, D!LeaveGet
<1>2. /\ pc'[f] = "canceled" /\ \A g \in Fibers \ {f} : pc'[g] = pc[g]
      /\ \A g \in Fibers : pc[g] = "canceled" => pc'[g] = "canceled"
  BY <1>1, MoveStays
<1>3. DeferredsInTurn'
  <2>1. D!TypeOK
    BY DEF Inv, TypeOK
  <2> QED BY <1>1, <1>2, <2>1, EndsTurn
<1>4. ~Blocked(f)' /\ Gone(f)' /\ ~Gone(f)
  BY <1>1, <1>2 DEF Blocked, Gone
<1>5. CASE f = Consumer
  <2>1. UNCHANGED producers /\ f \notin Senders
    BY <1>5, ListKinds DEF AwaitCanceled
  <2> QED BY <1>1, <1>3, <2>1, HeldMove DEF D!IsSet
<1>6. CASE f # Consumer
  <2> DEFINE e == <<f, sent[f]>>
  <2>1. producers' = Without(producers, e)
    BY <1>6 DEF AwaitCanceled
  <2>2. ToSet(producers') = ToSet(producers) \ {e}
    <3>1. producers \in Seq(Elements) /\ IsInjective(producers)
      BY ListKinds
    <3> HIDE DEF e
    <3> QED BY <2>1, <3>1, WithoutFacts
  <2>3. f \in Senders /\ Consumer \in Fibers \ {f} /\ \A g \in Senders : g \in Fibers
    BY <1>6, ListKinds DEF Fibers
  <2>4. \A g \in Senders \ {f} : (Blocked(g)' <=> Blocked(g)) /\ (Gone(g)' <=> Gone(g))
    BY <1>1, <1>2, <2>3 DEF Blocked, Gone
  <2>5. \A d \in ToSet(producers') : d \in ToSet(producers) /\ d[1] \in Senders \ {f}
    <3> SUFFICES ASSUME NEW d \in ToSet(producers') PROVE d \in ToSet(producers) /\ d[1] # f
      BY <2>2, ListKinds
    <3>1. d \in ToSet(producers) /\ d # e
      BY <2>2
    <3>2. d[2] = sent[d[1]] /\ d = <<d[1], d[2]>>
      BY <3>1, ListKinds DEF BlockedOnce
    <3> QED BY <3>1, <3>2
  <2>6. \A g \in Senders \ {f} : (InProducers(g))' <=> InProducers(g)
    <3> SUFFICES ASSUME NEW g \in Senders \ {f} PROVE (InProducers(g))' <=> InProducers(g)
      OBVIOUS
    <3>1. <<g, sent[g]>> # e
      OBVIOUS
    <3> QED BY <1>1, <2>2, <3>1 DEF InProducers
  <2> HIDE DEF e
  <2>7. BlockedOnce'
    <3>1. pc'[Consumer] = pc[Consumer]
      BY <1>2, <2>3
    <3>2. \A g \in ToSet(unblock) : Blocked(g)' \/ Gone(g)'
      BY <1>4, <2>4, ListKinds DEF BlockedOnce
    <3>3. \A d \in ToSet(producers') :
            d[2] = sent'[d[1]] /\ (Blocked(d[1])' \/ Gone(d[1])')
      BY <1>1, <2>4, <2>5 DEF BlockedOnce
    <3> QED BY <1>1, <3>1, <3>2, <3>3 DEF BlockedOnce
  <2>8. SendersHeld'
    BY <1>1, <1>4, <2>4, <2>6 DEF SendersHeld, D!IsSet
  <2> QED BY <1>3, <2>7, <2>8
<1> QED BY <1>5, <1>6

(* Every blocked send is taken off the producers and to be unblocked, once *)
(* each: a sender has one blocked element, that of its last send.          *)
LEMMA ConsumeHeld ==
    ASSUME HeldInv, Consume
    PROVE  DeferredsInTurn' /\ BlockedOnce' /\ SendersHeld'
<1> USE DEF HeldInv
<1>1. pc[Consumer] = "idle" /\ UNCHANGED <<after, sent>>
  BY DEF Consume, At
<1>2. unblock = <<>>
  BY <1>1 DEF BlockedOnce
<1>3. /\ D!TypeOK /\ get[Consumer] = D!NotGetting
      /\ Consumer \in Fibers \ Senders /\ \A g \in Senders : g \in Fibers
  BY <1>1, ListKinds DEF Inv, TypeOK, OnlyAwaitingGets
<1>4. CASE TakeNothing
  <2> DEFINE p == IF closed THEN "done" ELSE "blocking"
  <2>1. pc' = [pc EXCEPT ![Consumer] = p] /\ Allocate(Consumer) /\ UNCHANGED <<producers, unblock>>
    BY <1>4 DEF TakeNothing, Goto
  <2> HIDE DEF p
  <2>2. \A g \in Fibers : pc[g] = "canceled" => pc'[g] = "canceled"
    BY <1>1, <1>3, <2>1, MoveStays
  <2>3. DeferredsInTurn'
    BY <1>1, <1>3, <2>1, <2>2, AllocateTurn
  <2>4. \A g \in Senders : D!IsSet(g)' <=> D!IsSet(g)
    BY <1>3, <2>1, Allocates DEF D!IsSet
  <2> QED BY <1>1, <1>2, <1>3, <2>1, <2>3, <2>4, HeldMove
<1>5. CASE TakeAll
  <2>1. /\ unblock' = SendersOf(producers) /\ producers' = <<>>
        /\ pc' = [pc EXCEPT ![Consumer] = "unblocking"] /\ UNCHANGED <<cell, get, notify>>
    BY <1>5 DEF TakeAll, Goto, deferredVars
  <2>2. /\ pc'[Consumer] = "unblocking" /\ \A g \in Fibers \ {Consumer} : pc'[g] = pc[g]
        /\ \A g \in Fibers : pc[g] = "canceled" => pc'[g] = "canceled"
    BY <1>1, <1>3, <2>1, MoveStays
  <2>3. DeferredsInTurn'
    BY <1>3, <2>1, <2>2, RestTurn
  <2>4. \A g \in Senders : (Blocked(g)' <=> Blocked(g)) /\ (Gone(g)' <=> Gone(g))
    BY <1>1, <1>3, <2>2 DEF Blocked, Gone
  <2>5. \A i \in DOMAIN producers :
          /\ producers[i] \in ToSet(producers) /\ producers[i][1] \in Senders
          /\ producers[i] = <<producers[i][1], sent[producers[i][1]]>>
    <3> SUFFICES ASSUME NEW i \in DOMAIN producers
                 PROVE  /\ producers[i] \in ToSet(producers) /\ producers[i][1] \in Senders
                        /\ producers[i] = <<producers[i][1], sent[producers[i][1]]>>
      OBVIOUS
    <3>1. producers[i] \in ToSet(producers)
      BY DEF ToSet
    <3> QED BY <3>1, ListKinds DEF BlockedOnce
  <2>6. /\ DOMAIN unblock' = DOMAIN producers
        /\ \A i \in DOMAIN producers : unblock'[i] = producers[i][1]
    BY <2>1 DEF SendersOf
  <2>7. IsInjective(unblock')
    <3>1. IsInjective(producers)
      BY ListKinds
    <3> SUFFICES ASSUME NEW i \in DOMAIN producers, NEW j \in DOMAIN producers,
                        producers[i][1] = producers[j][1]
                 PROVE  i = j
      BY <2>6 DEF IsInjective
    <3>2. producers[i] = producers[j]
      BY <2>5
    <3> QED BY <3>1, <3>2 DEF IsInjective
  <2>8. ASSUME NEW g \in ToSet(unblock')
        PROVE  g \in Senders /\ InProducers(g) /\ (Blocked(g) \/ Gone(g))
    <3>1. PICK i \in DOMAIN producers : g = producers[i][1]
      BY <2>6, <2>8 DEF ToSet
    <3>2. producers[i] \in ToSet(producers) /\ g \in Senders /\ producers[i] = <<g, sent[g]>>
      BY <2>5, <3>1
    <3> QED BY <3>1, <3>2 DEF InProducers, BlockedOnce
  <2>9. ASSUME NEW g \in Senders, InProducers(g) PROVE g \in ToSet(unblock')
    <3>1. PICK i \in DOMAIN producers : producers[i] = <<g, sent[g]>>
      BY <2>9 DEF InProducers, ToSet
    <3>2. unblock'[i] = g /\ i \in DOMAIN unblock'
      BY <2>6, <3>1
    <3> QED BY <3>2 DEF ToSet
  <2>10. ToSet(producers') = {}
    BY <2>1 DEF ToSet
  <2>11. BlockedOnce'
    <3>1. \A g \in ToSet(unblock') : Blocked(g)' \/ Gone(g)'
      BY <2>4, <2>8
    <3> QED BY <2>2, <2>7, <2>10, <3>1 DEF BlockedOnce
  <2>12. SendersHeld'
    <3>1. ToSet(unblock) = {}
      BY <1>2 DEF ToSet
    <3>2. \A g \in Senders : ~(InProducers(g))' /\ (D!IsSet(g)' <=> D!IsSet(g))
      BY <2>1, <2>10 DEF InProducers, D!IsSet
    <3> SUFFICES ASSUME NEW g \in Senders, Blocked(g)
                 PROVE  /\ g \in ToSet(unblock') \/ D!IsSet(g)
                        /\ g \in ToSet(unblock') => ~D!IsSet(g)
      BY <2>4, <3>2 DEF SendersHeld
    <3>3. (InProducers(g) \/ D!IsSet(g)) /\ (InProducers(g) => ~D!IsSet(g))
      BY <3>1 DEF SendersHeld
    <3>4. g \in ToSet(unblock') <=> InProducers(g)
      BY <2>8, <2>9
    <3> QED BY <3>3, <3>4
  <2> QED BY <2>3, <2>11, <2>12
<1> QED BY <1>4, <1>5 DEF Consume

(* The first sender on the consumer's list is unblocked and leaves it.     *)
LEMMA UnblockHeld ==
    ASSUME HeldInv, Unblock
    PROVE  DeferredsInTurn' /\ BlockedOnce' /\ SendersHeld'
<1> USE DEF HeldInv
<1>1. UNCHANGED <<producers, pc, after, sent>> /\ pc[Consumer] = "unblocking"
  BY DEF Unblock, At, state
<1>2. /\ D!TypeOK /\ Consumer \in Fibers /\ \A g \in Senders : g \in Fibers
      /\ \A g \in Fibers : pc[g] = "canceled" => pc'[g] = "canceled"
  BY <1>1, ListKinds DEF Inv, TypeOK
<1>3. CASE D!NotifyReader(Consumer) /\ UNCHANGED unblock
  <2>1. \A g \in Senders : D!IsSet(g)' <=> D!IsSet(g)
    BY <1>2, <1>3, GetSteps DEF D!IsSet
  <2>2. DeferredsInTurn'
    BY <1>2, <1>3, NotifyTurn
  <2> QED BY <1>1, <1>3, <2>1, <2>2, HeldMoves DEF Blocked, Gone, BlockedOnce
<1>4. CASE unblock # <<>> /\ D!Complete(Consumer, Head(unblock)) /\ unblock' = Tail(unblock)
  <2>0. PICK d \in Senders : d = Head(unblock)
    <3>1. unblock \in Seq(Senders)
      BY ListKinds
    <3> QED BY <1>4, <3>1, TailFacts
  <2>1. /\ d \in ToSet(unblock) /\ d \notin ToSet(unblock')
        /\ ToSet(unblock) = {d} \cup ToSet(unblock') /\ IsInjective(unblock')
    <3>1. unblock \in Seq(Senders) /\ IsInjective(unblock)
      BY ListKinds DEF BlockedOnce
    <3> QED BY <1>4, <2>0, <3>1, TailFacts
  <2>2. D!Complete(Consumer, d)
    BY <1>4, <2>0
  <2>3. D!IsSet(d)' /\ \A g \in Senders \ {d} : D!IsSet(g)' <=> D!IsSet(g)
    <3>1. /\ cell'[d].value # D!NoValue
          /\ \A g \in Fibers \ {d} : cell'[g].value = cell[g].value
      BY <1>2, <2>1, <2>2, Completes
    <3> QED BY <1>2, <3>1 DEF D!IsSet
  <2>4. DeferredsInTurn'
    BY <1>2, <2>1, <2>2, CompleteTurn
  <2>5. \A g : (Blocked(g)' <=> Blocked(g)) /\ (Gone(g)' <=> Gone(g))
             /\ ((InProducers(g))' <=> InProducers(g))
    BY <1>1 DEF Blocked, Gone, InProducers
  <2>6. BlockedOnce'
    BY <1>1, <2>1, <2>5 DEF BlockedOnce
  <2>7. SendersHeld'
    <3>1. Blocked(d) => ~InProducers(d)
      BY <2>1 DEF SendersHeld
    <3> SUFFICES ASSUME NEW g \in Senders, Blocked(g)
                 PROVE  /\ InProducers(g) \/ g \in ToSet(unblock') \/ D!IsSet(g)'
                        /\ InProducers(g) => g \notin ToSet(unblock') /\ ~D!IsSet(g)'
                        /\ g \in ToSet(unblock') => ~D!IsSet(g)'
      BY <2>5 DEF SendersHeld
    <3>2. CASE g = d
      BY <2>1, <2>3, <3>1, <3>2
    <3>3. CASE g # d
      <4>1. g \in ToSet(unblock') <=> g \in ToSet(unblock)
        BY <2>1, <3>3
      <4>2. D!IsSet(g)' <=> D!IsSet(g)
        BY <2>3, <3>3
      <4> QED BY <4>1, <4>2 DEF SendersHeld
    <3> QED BY <3>2, <3>3
  <2> QED BY <2>4, <2>6, <2>7
<1> QED BY <1>3, <1>4 DEF Unblock

(* The consumer goes on when it has nobody left to unblock.                *)
LEMMA EmitHeld ==
    ASSUME HeldInv, Emit
    PROVE  DeferredsInTurn' /\ BlockedOnce' /\ SendersHeld'
<1> USE DEF HeldInv
<1>1. /\ pc[Consumer] = "unblocking" /\ unblock = <<>> /\ pc' = [pc EXCEPT ![Consumer] = "idle"]
      /\ UNCHANGED <<producers, unblock, after, sent, cell, get, notify>>
  BY DEF Emit, At, Goto, state, deferredVars
<1>2. D!TypeOK /\ Consumer \in Fibers \ Senders
  BY ListKinds DEF Inv, TypeOK
<1>3. \A g \in Fibers : pc[g] = "canceled" => pc'[g] = "canceled"
  BY <1>1, <1>2, MoveStays
<1>4. DeferredsInTurn'
  BY <1>1, <1>2, <1>3, RestTurn
<1> QED BY <1>1, <1>2, <1>4, HeldMove DEF D!IsSet

(* A new channel holds nobody, and every step keeps HeldInv.               *)
LEMMA HeldInit == Init => HeldInv
<1> SUFFICES ASSUME Init PROVE DeferredsInTurn /\ BlockedOnce /\ SendersHeld
  BY InvInit DEF HeldInv
<1>1. ASSUME NEW d \in Fibers PROVE InTurn(d)
  <2>1. /\ cell[d] = [value |-> D!NoValue, readers |-> <<>>] /\ get[d] = D!NotGetting
        /\ \A f \in Fibers : ~D!Notifying(f)
    BY DEF Init, D!Init, D!Notifying, D!NobodyToNotify
  <2> QED BY <2>1 DEF InTurn, D!NotGetting
<1>2. \A f \in Senders : ~Blocked(f)
  BY DEF Init, Blocked, Fibers
<1>3. BlockedOnce
  BY DEF Init, BlockedOnce, ToSet, IsInjective
<1> QED BY <1>1, <1>2, <1>3 DEF DeferredsInTurn, SendersHeld

LEMMA HeldNext == HeldInv /\ [Next]_vars => HeldInv'
<1> SUFFICES ASSUME HeldInv, [Next]_vars PROVE DeferredsInTurn' /\ BlockedOnce' /\ SendersHeld'
  BY InvNext DEF HeldInv
<1>1. ASSUME NEW f \in Senders, Send(f) \/ Close(f)
      PROVE  DeferredsInTurn' /\ BlockedOnce' /\ SendersHeld'
  BY <1>1, SendHeld, CloseHeld
<1>2. CASE Loop
  BY <1>2, ConsumeHeld, UnblockHeld, EmitHeld DEF Loop
<1>3. ASSUME NEW f \in Fibers, Step(f) \/ Cancel(f) \/ CancelAwait(f)
      PROVE  DeferredsInTurn' /\ BlockedOnce' /\ SendersHeld'
  BY <1>3, StepHeld, AwaitCanceledHeld, CancelHeld DEF Step
<1>4. CASE UNCHANGED vars
  <2>1. UNCHANGED <<producers, unblock, sent, pc, after, cell, get, notify>>
    BY <1>4 DEF vars, state, deferredVars
  <2>2. D!TypeOK
    BY DEF HeldInv, Inv, TypeOK
  <2>3. DeferredsInTurn'
    BY <2>1, <2>2, RestTurn DEF HeldInv
  <2> QED BY <2>1, <2>3 DEF HeldInv, BlockedOnce, SendersHeld, InProducers, Blocked, Gone, D!IsSet
<1> QED BY <1>1, <1>2, <1>3, <1>4 DEF Next

(* Backpressure: a send that waits in waitOnBound goes on only when the    *)
(* stream took its element, and a sender whose element was taken is        *)
(* released, or on the list of those the stream is about to release.       *)
THEOREM SendersAreHeld == Spec => []SendersHeld
<1>1. HeldInv => SendersHeld
  BY DEF HeldInv
<1> QED BY HeldInit, HeldNext, <1>1, PTL DEF Spec
=============================================================================
