--------------------------- MODULE DeferredProofs ---------------------------
(***************************************************************************)
(* Proofs about Deferred, for any number of fibers and Deferreds: readers  *)
(* are neither leaked nor forgotten, and a cell is written once.           *)
(***************************************************************************)
EXTENDS Deferred, DataProofs

(* What is written where: a set cell has no readers left, and a fiber only *)
(* notifies the readers of a cell it set itself.                           *)
SetCellsHaveNoReaders == \A d \in Deferreds : IsSet(d) => cell[d].readers = <<>>

NotifiersSetTheCell ==
    \A f \in Fibers : Notifying(f) => cell[notify[f].on].value = f

Inv ==
    /\ TypeOK
    /\ SetCellsHaveNoReaders
    /\ NotifiersSetTheCell
    /\ ReadersAreParked
    /\ NoReaderForgotten

(* The state of a get, as the actions change it.                           *)
LEMMA GetFacts ==
    ASSUME TypeOK, NEW f \in Fibers
    PROVE  /\ get[f].pc \in GetPCs => get[f].on \in Deferreds
           /\ get[f].pc \in GetPCs \cup {"none"}
           /\ get[f].pc = "none" => get[f] = NotGetting
           /\ \A pc \in GetPCs : get[f].pc \in GetPCs =>
                /\ [get EXCEPT ![f].pc = pc]
                     \in [Fibers -> {NotGetting} \cup [pc : GetPCs, on : Deferreds]]
                /\ [get EXCEPT ![f].pc = pc][f] = [pc |-> pc, on |-> get[f].on]
<1>1. get[f] = NotGetting \/ get[f] \in [pc : GetPCs, on : Deferreds]
  BY DEF TypeOK
<1>2. CASE get[f] = NotGetting
  BY <1>2 DEF NotGetting, GetPCs
<1>3. CASE get[f] \in [pc : GetPCs, on : Deferreds]
  <2>1. /\ get[f].pc \in GetPCs /\ get[f].on \in Deferreds
        /\ get[f] = [pc |-> get[f].pc, on |-> get[f].on]
    BY <1>3
  <2>2. "none" \notin GetPCs
    BY DEF GetPCs
  <2>3. ASSUME NEW pc \in GetPCs
        PROVE  /\ [get EXCEPT ![f].pc = pc]
                     \in [Fibers -> {NotGetting} \cup [pc : GetPCs, on : Deferreds]]
               /\ [get EXCEPT ![f].pc = pc][f] = [pc |-> pc, on |-> get[f].on]
    BY <1>3, <2>1 DEF TypeOK
  <2> QED BY <2>1, <2>2, <2>3
<1> QED BY <1>1, <1>2, <1>3

-----------------------------------------------------------------------------
(* A step of one fiber's get() that touches neither cells nor notifiers:   *)
(* the fiber stays where its reader is, and parks only where it was.       *)
GetSet == [Fibers -> {NotGetting} \cup [pc : GetPCs, on : Deferreds]]

ReaderPCs == {"registered", "waiting", "deleting"}

LEMMA GetChange ==
    ASSUME Inv, NEW f \in Fibers, get' \in GetSet,
           \A g \in Fibers \ {f} : get'[g] = get[g],
           UNCHANGED <<cell, notify>>,
           \A d \in Deferreds : f \in ToSet(cell[d].readers) =>
               get'[f].on = d /\ get'[f].pc \in ReaderPCs,
           Parked(f)' => Parked(f) /\ get'[f].on = get[f].on
    PROVE  Inv'
<1>1. TypeOK'
  BY DEF Inv, TypeOK, GetSet
<1>2. SetCellsHaveNoReaders' /\ NotifiersSetTheCell'
  BY DEF Inv, SetCellsHaveNoReaders, NotifiersSetTheCell, IsSet, Notifying
<1>3. ReadersAreParked'
  <2> SUFFICES ASSUME NEW d \in Deferreds, NEW r \in ToSet(cell[d].readers)
               PROVE  get'[r].on = d /\ get'[r].pc \in ReaderPCs
    BY DEF Inv, ReadersAreParked, ReaderPCs
  <2>1. r \in Fibers
    BY DEF Inv, TypeOK, ToSet
  <2> QED BY <2>1 DEF Inv, ReadersAreParked, ReaderPCs
<1>4. NoReaderForgotten'
  <2> SUFFICES ASSUME NEW g \in Fibers, Parked(g)' PROVE WillHear(g)'
    BY DEF NoReaderForgotten
  <2>1. Parked(g) /\ get'[g].on = get[g].on
    BY DEF Parked
  <2>2. WillHear(g)
    BY <2>1 DEF Inv, NoReaderForgotten
  <2> QED BY <2>1, <2>2 DEF WillHear, IsSet, ToNotifyOf
<1> QED BY <1>1, <1>2, <1>3, <1>4 DEF Inv

(* A fiber that is in none of the reader's places is nobody's reader.      *)
LEMMA NotReading ==
    ASSUME Inv, NEW f \in Fibers, get[f].pc \notin ReaderPCs
    PROVE  \A d \in Deferreds : f \notin ToSet(cell[d].readers)
BY DEF Inv, ReadersAreParked, ReaderPCs

(* get() begins.                                                          *)
LEMMA StartGetInv ==
    ASSUME Inv, NEW f \in Fibers, NEW d \in Deferreds, StartGet(f, d)
    PROVE  Inv'
<1>1. get[f].pc = "none"
  BY DEF StartGet, NotGetting
<1>2. get' \in GetSet /\ get'[f].pc = "reading"
      /\ \A g \in Fibers \ {f} : get'[g] = get[g]
  BY DEF StartGet, Inv, TypeOK, GetSet, GetPCs
<1>3. \A e \in Deferreds : f \notin ToSet(cell[e].readers)
  BY <1>1, NotReading DEF ReaderPCs
<1>4. UNCHANGED <<cell, notify>>
  BY DEF StartGet
<1>5. ~Parked(f)'
  BY <1>2 DEF Parked
<1> QED BY <1>2, <1>3, <1>4, <1>5, GetChange

(* get() is over.                                                         *)
LEMMA LeaveGetInv ==
    ASSUME Inv, NEW f \in Fibers, LeaveGet(f)
    PROVE  Inv'
<1>1. get' \in GetSet /\ get'[f].pc = "none"
      /\ \A g \in Fibers \ {f} : get'[g] = get[g]
  BY DEF LeaveGet, Inv, TypeOK, GetSet, NotGetting
<1>2. \A e \in Deferreds : f \notin ToSet(cell[e].readers)
  BY NotReading DEF LeaveGet, ReaderPCs
<1>3. UNCHANGED <<cell, notify>> /\ ~Parked(f)'
  BY <1>1 DEF LeaveGet, Parked
<1> QED BY <1>1, <1>2, <1>3, GetChange

(* ReadState, Await, Resume and CancelGet only move the pc.                *)
LEMMA MoveInv ==
    ASSUME Inv, NEW f \in Fibers, NEW pc \in GetPCs, get[f].pc \in GetPCs,
           get' = [get EXCEPT ![f].pc = pc], UNCHANGED <<cell, notify>>,
           get[f].pc \in ReaderPCs => pc \in ReaderPCs,
           pc \in {"registered", "waiting"} => Parked(f)
    PROVE  Inv'
<1>1. get' \in GetSet /\ get'[f] = [pc |-> pc, on |-> get[f].on]
      /\ \A g \in Fibers \ {f} : get'[g] = get[g]
  BY GetFacts DEF Inv, GetSet, TypeOK
<1>2. get'[f].pc = pc /\ get'[f].on = get[f].on
  BY <1>1
<1>3. \A d \in Deferreds : f \in ToSet(cell[d].readers) =>
        get'[f].on = d /\ get'[f].pc \in ReaderPCs
  BY <1>2 DEF Inv, ReadersAreParked, ReaderPCs
<1>4. Parked(f)' => Parked(f) /\ get'[f].on = get[f].on
  BY <1>2 DEF Parked
<1> QED BY <1>1, <1>3, <1>4, GetChange

(* The steps of get() that read the cell, wait, resume or are canceled.    *)
LEMMA MovesInv ==
    ASSUME Inv, NEW f \in Fibers,
           ReadState(f) \/ Await(f) \/ Resume(f) \/ CancelGet(f)
    PROVE  Inv'
<1>1. CASE ReadState(f)
  <2> DEFINE pc == IF IsSet(get[f].on) THEN "got" ELSE "entering"
  <2>1. pc \in GetPCs /\ get[f].pc \in GetPCs /\ get[f].pc \notin ReaderPCs
        /\ pc \notin {"registered", "waiting"}
    BY <1>1 DEF ReadState, At, GetPCs, ReaderPCs
  <2>2. get' = [get EXCEPT ![f].pc = pc] /\ UNCHANGED <<cell, notify>>
    BY <1>1 DEF ReadState, Goto
  <2> HIDE DEF pc
  <2> QED BY <2>1, <2>2, MoveInv
<1>2. CASE Await(f)
  <2> DEFINE pc == IF At(f, "fired") THEN "got" ELSE "waiting"
  <2>1. /\ pc \in GetPCs /\ get[f].pc \in GetPCs
        /\ get[f].pc \in ReaderPCs => pc \in ReaderPCs
        /\ pc \in {"registered", "waiting"} => Parked(f)
    BY <1>2 DEF Await, At, GetPCs, ReaderPCs, Parked
  <2>2. get' = [get EXCEPT ![f].pc = pc] /\ UNCHANGED <<cell, notify>>
    BY <1>2 DEF Await, Goto
  <2> HIDE DEF pc
  <2> QED BY <2>1, <2>2, MoveInv
<1>3. CASE Resume(f)
  <2>1. "got" \in GetPCs /\ get[f].pc \in GetPCs /\ get[f].pc \notin ReaderPCs
    BY <1>3 DEF Resume, At, GetPCs, ReaderPCs
  <2>2. get' = [get EXCEPT ![f].pc = "got"] /\ UNCHANGED <<cell, notify>>
    BY <1>3 DEF Resume, Goto
  <2> QED BY <2>1, <2>2, MoveInv
<1>4. CASE CancelGet(f)
  <2> DEFINE pc == IF get[f].pc \in {"reading", "entering"} THEN "canceled" ELSE "deleting"
  <2>1. /\ pc \in GetPCs /\ get[f].pc \in GetPCs
        /\ get[f].pc \in ReaderPCs => pc \in ReaderPCs
        /\ pc \notin {"registered", "waiting"}
    BY <1>4 DEF CancelGet, GetPCs, ReaderPCs
  <2>2. get' = [get EXCEPT ![f].pc = pc] /\ UNCHANGED <<cell, notify>>
    BY <1>4 DEF CancelGet, Goto
  <2> HIDE DEF pc
  <2> QED BY <2>1, <2>2, MoveInv
<1> QED BY <1>1, <1>2, <1>3, <1>4

-----------------------------------------------------------------------------
(* Readers come and go on one unset cell; nobody else parks or leaves.     *)
LEMMA ReadersChange ==
    ASSUME Inv, NEW f \in Fibers, NEW d \in Deferreds, NEW rs \in Seq(Fibers),
           ~IsSet(d), IsInjective(rs),
           get[f].on = d, get' \in GetSet, get'[f].on = d,
           \A g \in Fibers \ {f} : get'[g] = get[g],
           cell' = [cell EXCEPT ![d].readers = rs], UNCHANGED notify,
           get[f].pc \in ReaderPCs \/ f \notin ToSet(cell[d].readers),
           f \in ToSet(rs) => get'[f].pc \in ReaderPCs,
           Parked(f)' => f \in ToSet(rs),
           ToSet(rs) \ {f} = ToSet(cell[d].readers) \ {f}
    PROVE  Inv'
<1>1. /\ cell' \in [Deferreds -> [value : Fibers \cup {NoValue}, readers : Seq(Fibers)]]
      /\ cell'[d].readers = rs
      /\ \A e \in Deferreds : cell'[e].value = cell[e].value
      /\ \A e \in Deferreds \ {d} : cell'[e] = cell[e]
  BY DEF Inv, TypeOK
<1>2. TypeOK'
  BY <1>1 DEF Inv, TypeOK, GetSet
<1>3. SetCellsHaveNoReaders'
  BY <1>1 DEF Inv, SetCellsHaveNoReaders, IsSet
<1>4. NotifiersSetTheCell'
  <2> SUFFICES ASSUME NEW g \in Fibers, Notifying(g)
               PROVE  cell'[notify[g].on].value = g
    BY DEF NotifiersSetTheCell, Notifying
  <2>1. notify[g].on \in Deferreds
    BY DEF Inv, TypeOK, Notifying, NobodyToNotify
  <2> QED BY <1>1, <2>1 DEF Inv, NotifiersSetTheCell
<1>5. ReadersAreParked'
  <2> SUFFICES ASSUME NEW e \in Deferreds
               PROVE  /\ IsInjective(cell'[e].readers)
                      /\ \A r \in ToSet(cell'[e].readers) :
                           get'[r].on = e /\ get'[r].pc \in ReaderPCs
    BY DEF ReadersAreParked, ReaderPCs
  <2>1. IsInjective(cell'[e].readers)
    BY <1>1 DEF Inv, ReadersAreParked
  <2>2. ASSUME NEW r \in ToSet(cell'[e].readers)
        PROVE  get'[r].on = e /\ get'[r].pc \in ReaderPCs
    <3>1. r \in Fibers
      BY <1>2 DEF TypeOK, ToSet
    <3>2. CASE r = f /\ e = d
      BY <1>1, <3>2
    <3>3. CASE r = f /\ e # d
      BY <1>1, <3>3 DEF Inv, ReadersAreParked
    <3>4. CASE r # f
      <4>1. r \in ToSet(cell[e].readers)
        BY <1>1, <3>4
      <4> QED BY <3>1, <3>4, <4>1 DEF Inv, ReadersAreParked, ReaderPCs
    <3> QED BY <3>2, <3>3, <3>4
  <2> QED BY <2>1, <2>2
<1>6. NoReaderForgotten'
  <2> SUFFICES ASSUME NEW g \in Fibers, Parked(g)' PROVE WillHear(g)'
    BY DEF NoReaderForgotten
  <2>1. CASE g = f
    BY <1>1, <2>1 DEF WillHear, IsSet
  <2>2. CASE g # f
    <3>1. get'[g] = get[g] /\ Parked(g) /\ WillHear(g)
      BY <2>2 DEF Parked, Inv, NoReaderForgotten
    <3>2. get[g].on \in Deferreds
      BY <3>1, GetFacts DEF Parked, GetPCs, Inv
    <3>3. IsSet(get[g].on)' <=> IsSet(get[g].on)
      BY <1>1, <3>1, <3>2 DEF IsSet
    <3>4. cell'[get[g].on].value = cell[get[g].on].value
      BY <1>1, <3>2
    <3>5. g \in ToSet(cell[get[g].on].readers) => g \in ToSet(cell'[get[g].on].readers)
      BY <1>1, <2>2, <3>2
    <3> QED BY <3>1, <3>3, <3>4, <3>5 DEF WillHear, ToNotifyOf
  <2> QED BY <2>1, <2>2
<1> QED BY <1>2, <1>3, <1>4, <1>5, <1>6 DEF Inv

(* addReader: the fiber joins the readers, or is called at once.           *)
LEMMA AddReaderInv ==
    ASSUME Inv, NEW f \in Fibers, AddReader(f)
    PROVE  Inv'
<1> DEFINE d == get[f].on
           rs == Append(cell[d].readers, f)
<1>1. get[f].pc \in GetPCs /\ d \in Deferreds /\ get[f].pc \notin ReaderPCs
  BY GetFacts DEF AddReader, At, Inv, GetPCs, ReaderPCs
<1>2. f \notin ToSet(cell[d].readers) /\ cell[d].readers \in Seq(Fibers)
  BY <1>1, NotReading DEF Inv, TypeOK
<1>3. CASE IsSet(d)
  <2>1. get' = [get EXCEPT ![f].pc = "fired"] /\ UNCHANGED <<cell, notify>>
    BY <1>3 DEF AddReader, Goto
  <2>2. "fired" \in GetPCs
    BY DEF GetPCs
  <2> QED BY <1>1, <2>1, <2>2, MoveInv
<1>4. CASE ~IsSet(d)
  <2>1. /\ get' = [get EXCEPT ![f].pc = "registered"] /\ UNCHANGED notify
        /\ cell' = [cell EXCEPT ![d].readers = rs]
    BY <1>4 DEF AddReader, Goto
  <2>2. /\ "registered" \in GetPCs /\ get' \in GetSet
        /\ get'[f] = [pc |-> "registered", on |-> d]
        /\ \A g \in Fibers \ {f} : get'[g] = get[g]
    <3>1. "registered" \in GetPCs
      BY DEF GetPCs
    <3> QED BY <1>1, <2>1, <3>1, GetFacts DEF Inv, GetSet, TypeOK
  <2>3. get'[f].on = d /\ get'[f].pc \in ReaderPCs
    BY <2>2 DEF ReaderPCs
  <2>4. /\ rs \in Seq(Fibers) /\ IsInjective(rs)
        /\ ToSet(rs) = ToSet(cell[d].readers) \cup {f}
    BY <1>1, <1>2, AppendFacts DEF Inv, ReadersAreParked
  <2> HIDE DEF rs
  <2> QED BY <1>1, <1>2, <1>4, <2>1, <2>2, <2>3, <2>4, ReadersChange
<1> QED BY <1>3, <1>4

(* deleteReader: the canceled fiber leaves the readers.                    *)
LEMMA DeleteReaderInv ==
    ASSUME Inv, NEW f \in Fibers, DeleteReader(f)
    PROVE  Inv'
<1> DEFINE d == get[f].on
           rs == Without(cell[d].readers, f)
<1>1. get[f].pc \in GetPCs /\ d \in Deferreds /\ get[f].pc \in ReaderPCs
  BY GetFacts DEF DeleteReader, At, Inv, GetPCs, ReaderPCs
<1>2. /\ "canceled" \in GetPCs /\ get' \in GetSet
      /\ get'[f] = [pc |-> "canceled", on |-> d]
      /\ \A g \in Fibers \ {f} : get'[g] = get[g]
  <2>1. "canceled" \in GetPCs
    BY DEF GetPCs
  <2>2. get' = [get EXCEPT ![f].pc = "canceled"]
    BY DEF DeleteReader, Goto
  <2> QED BY <1>1, <2>1, <2>2, GetFacts DEF Inv, GetSet, TypeOK
<1>3. get'[f].on = d /\ ~Parked(f)'
  BY <1>2 DEF Parked
<1>4. CASE IsSet(d)
  <2>1. UNCHANGED <<cell, notify>>
    BY <1>4 DEF DeleteReader
  <2>2. \A e \in Deferreds : f \notin ToSet(cell[e].readers)
    BY <1>4 DEF Inv, ReadersAreParked, SetCellsHaveNoReaders, ToSet
  <2> QED BY <1>2, <1>3, <2>1, <2>2, GetChange
<1>5. CASE ~IsSet(d)
  <2>1. UNCHANGED notify /\ cell' = [cell EXCEPT ![d].readers = rs]
    BY <1>5 DEF DeleteReader
  <2>2. /\ rs \in Seq(Fibers) /\ IsInjective(rs)
        /\ ToSet(rs) = ToSet(cell[d].readers) \ {f}
    BY <1>1, WithoutFacts DEF Inv, ReadersAreParked, TypeOK
  <2> HIDE DEF rs
  <2> QED BY <1>1, <1>2, <1>3, <1>5, <2>1, <2>2, ReadersChange
<1> QED BY <1>4, <1>5

-----------------------------------------------------------------------------
(* The first complete() moves the readers to the list of the completer.    *)
LEMMA CompleteInv ==
    ASSUME Inv, NEW f \in Fibers, NEW d \in Deferreds, Complete(f, d)
    PROVE  Inv'
<1>1. CASE IsSet(d)
  <2>1. UNCHANGED vars
    BY <1>1 DEF Complete, vars
  <2> QED BY <2>1 DEF vars, Inv, TypeOK, SetCellsHaveNoReaders, NotifiersSetTheCell,
                      ReadersAreParked, NoReaderForgotten, IsSet, Notifying, Parked,
                      WillHear, ToNotifyOf
<1>2. CASE ~IsSet(d)
  <2> DEFINE rs == cell[d].readers
  <2>1. /\ rs \in Seq(Fibers) /\ ~Notifying(f) /\ UNCHANGED get
        /\ notify' = [notify EXCEPT ![f] = ToNotify(d, rs)]
        /\ cell' = [cell EXCEPT ![d] = [value |-> f, readers |-> <<>>]]
    BY <1>2 DEF Complete, Inv, TypeOK
  <2>2. /\ cell'[d].value = f /\ cell'[d].readers = <<>>
        /\ \A e \in Deferreds \ {d} : cell'[e] = cell[e]
        /\ f # NoValue
    BY <2>1, DeferredAssumption DEF Inv, TypeOK
  <2>3. /\ ToNotify(d, rs) \in {NobodyToNotify} \cup
                               [on : Deferreds, readers : Seq(Fibers) \ {<<>>}]
        /\ ToNotify(d, rs).readers = rs
        /\ rs # <<>> => ToNotify(d, rs).on = d
    BY <2>1 DEF ToNotify, NobodyToNotify
  <2>4. /\ notify'[f] = ToNotify(d, rs)
        /\ \A g \in Fibers \ {f} : notify'[g] = notify[g]
    BY <2>1 DEF Inv, TypeOK
  <2>5. TypeOK'
    <3>1. cell' \in [Deferreds -> [value : Fibers \cup {NoValue}, readers : Seq(Fibers)]]
      <4>1. [value |-> f, readers |-> <<>>] \in [value : Fibers \cup {NoValue}, readers : Seq(Fibers)]
        OBVIOUS
      <4> QED BY <2>1, <4>1 DEF Inv, TypeOK
    <3>2. notify' \in [Fibers -> {NobodyToNotify} \cup
                               [on : Deferreds, readers : Seq(Fibers) \ {<<>>}]]
      BY <2>1, <2>3 DEF Inv, TypeOK
    <3> QED BY <2>1, <3>1, <3>2 DEF Inv, TypeOK
  <2>6. SetCellsHaveNoReaders'
    BY <2>2 DEF Inv, SetCellsHaveNoReaders, IsSet
  <2>7. NotifiersSetTheCell'
    <3> SUFFICES ASSUME NEW g \in Fibers, Notifying(g)'
                 PROVE  cell'[notify'[g].on].value = g
      BY DEF NotifiersSetTheCell
    <3>1. CASE g = f
      BY <2>2, <2>3, <2>4, <3>1 DEF Notifying
    <3>2. CASE g # f
      <4>1. Notifying(g) /\ notify'[g] = notify[g]
        BY <2>4, <3>2 DEF Notifying
      <4>2. notify[g].on \in Deferreds /\ cell[notify[g].on].value = g
        BY <4>1 DEF Inv, TypeOK, Notifying, NobodyToNotify, NotifiersSetTheCell
      <4>3. notify[g].on # d
        BY <1>2, <4>2, DeferredAssumption DEF IsSet
      <4> QED BY <2>2, <4>1, <4>2, <4>3
    <3> QED BY <3>1, <3>2
  <2>8. ReadersAreParked'
    <3>1. IsInjective(<<>>) /\ ToSet(<<>>) = {}
      BY DEF IsInjective, ToSet
    <3> QED BY <2>1, <2>2, <3>1 DEF Inv, ReadersAreParked
  <2>9. NoReaderForgotten'
    <3> SUFFICES ASSUME NEW g \in Fibers, Parked(g) PROVE WillHear(g)'
      BY <2>1 DEF NoReaderForgotten, Parked
    <3> DEFINE e == get[g].on
    <3>1. e \in Deferreds /\ WillHear(g)
      BY GetFacts DEF Parked, GetPCs, Inv, NoReaderForgotten
    <3>2. CASE e = d
      <4>1. g \in ToSet(rs)
        BY <1>2, <3>1, <3>2 DEF WillHear
      <4>2. rs # <<>>
        BY <4>1 DEF ToSet
      <4>3. g \in ToNotifyOf(f, d)'
        BY <2>3, <2>4, <4>1, <4>2 DEF ToNotifyOf
      <4>4. get'[g].on = d /\ cell'[d].value = f
        BY <2>1, <2>2, <3>2
      <4> QED BY <2>2, <4>3, <4>4 DEF WillHear, IsSet, ToNotifyOf
    <3>3. CASE e # d /\ IsSet(e)
      <4> DEFINE h == cell[e].value
      <4>1. cell'[e] = cell[e] /\ IsSet(e)'
        BY <2>1, <2>2, <3>1, <3>3 DEF IsSet
      <4>2. h \in Interruptible \/ g \in ToNotifyOf(h, e)
        BY <3>1, <3>3 DEF WillHear
      <4>3. ASSUME g \in ToNotifyOf(h, e) PROVE g \in ToNotifyOf(h, e)'
        <5>1. notify[h].on = e /\ g \in ToSet(notify[h].readers)
          BY <4>3 DEF ToNotifyOf
        <5>2. Notifying(h)
          BY <5>1 DEF Notifying, ToSet
        <5>3. h \in Fibers
          BY <3>1, <3>3 DEF Inv, TypeOK, IsSet
        <5>4. notify'[h] = notify[h]
          BY <2>1, <2>4, <5>2, <5>3
        <5> QED BY <2>1, <4>1, <5>1, <5>4 DEF ToNotifyOf
      <4> QED BY <2>1, <4>1, <4>2, <4>3 DEF WillHear, ToNotifyOf
    <3>4. CASE e # d /\ ~IsSet(e)
      BY <2>1, <2>2, <3>1, <3>4 DEF WillHear, IsSet
    <3> QED BY <3>2, <3>3, <3>4
  <2> QED BY <2>5, <2>6, <2>7, <2>8, <2>9 DEF Inv
<1> QED BY <1>1, <1>2

(* One reader is called, and is not parked any more.                       *)
LEMMA NotifyReaderInv ==
    ASSUME Inv, NEW f \in Fibers, NotifyReader(f)
    PROVE  Inv'
<1> DEFINE d == notify[f].on
           r == Head(notify[f].readers)
           rest == Tail(notify[f].readers)
<1>1. /\ d \in Deferreds /\ notify[f].readers \in Seq(Fibers) \ {<<>>}
      /\ cell[d].value = f /\ IsSet(d)
  <2>1. d \in Deferreds /\ notify[f].readers \in Seq(Fibers) \ {<<>>}
    BY DEF NotifyReader, Inv, TypeOK, Notifying, NobodyToNotify
  <2>2. cell[d].value = f
    BY DEF NotifyReader, Inv, NotifiersSetTheCell
  <2> QED BY <2>1, <2>2, DeferredAssumption DEF IsSet
<1>2. /\ r \in Fibers /\ rest \in Seq(Fibers)
      /\ ToSet(notify[f].readers) = {r} \cup ToSet(rest)
  <2>1. notify[f].readers \in Seq(Fibers) /\ notify[f].readers # <<>>
    BY <1>1
  <2> QED BY <2>1, TailFacts
<1>3. /\ UNCHANGED cell
      /\ notify' = [notify EXCEPT ![f] = ToNotify(d, rest)]
  BY DEF NotifyReader, Inv, TypeOK
<1>4. /\ get' \in GetSet
      /\ get'[r].on = get[r].on
      /\ get[r].on = d => get'[r].pc \notin {"registered", "waiting"}
      /\ get[r].on # d => get'[r] = get[r]
      /\ \A g \in Fibers \ {r} : get'[g] = get[g]
  <2>1. CASE get[r].on # d
    <3>1. UNCHANGED get
      BY <2>1 DEF NotifyReader
    <3> QED BY <2>1, <3>1 DEF Inv, TypeOK, GetSet
  <2>2. CASE get[r].on = d
    <3> DEFINE pc == CASE get[r].pc = "registered" -> "fired"
                       [] get[r].pc = "waiting" -> "resumed"
                       [] OTHER -> get[r].pc
    <3>1. get' = [get EXCEPT ![r].pc = pc]
      BY <2>2, <1>2 DEF NotifyReader, Inv, TypeOK
    <3>2. get[r].pc \in GetPCs
      BY <1>1, <1>2, <2>2, DeferredAssumption DEF Inv, TypeOK, NotGetting
    <3>3. pc \in GetPCs /\ pc \notin {"registered", "waiting"}
      BY <3>2 DEF GetPCs
    <3> HIDE DEF pc
    <3>4. get' \in GetSet /\ get'[r] = [pc |-> pc, on |-> get[r].on]
      BY <1>2, <3>1, <3>2, <3>3, GetFacts DEF Inv, GetSet
    <3>5. get'[r].pc = pc /\ get'[r].on = get[r].on
      BY <3>4
    <3>6. \A g \in Fibers \ {r} : get'[g] = get[g]
      BY <3>1 DEF Inv, TypeOK
    <3> QED BY <2>2, <3>3, <3>4, <3>5, <3>6
  <2> QED BY <2>1, <2>2
<1>5. /\ ToNotify(d, rest) \in {NobodyToNotify} \cup
                                 [on : Deferreds, readers : Seq(Fibers) \ {<<>>}]
      /\ ToNotify(d, rest).readers = rest
      /\ rest # <<>> => ToNotify(d, rest).on = d
  BY <1>1, <1>2 DEF ToNotify, NobodyToNotify
<1>6. /\ notify'[f] = ToNotify(d, rest)
      /\ \A g \in Fibers \ {f} : notify'[g] = notify[g]
  BY <1>3 DEF Inv, TypeOK
<1>7. TypeOK'
  <2>1. notify' \in [Fibers -> {NobodyToNotify} \cup
                             [on : Deferreds, readers : Seq(Fibers) \ {<<>>}]]
    BY <1>3, <1>5 DEF Inv, TypeOK
  <2> QED BY <1>3, <1>4, <2>1 DEF Inv, TypeOK, GetSet
<1>8. SetCellsHaveNoReaders'
  BY <1>3 DEF Inv, SetCellsHaveNoReaders, IsSet
<1>9. NotifiersSetTheCell'
  <2> SUFFICES ASSUME NEW g \in Fibers, Notifying(g)'
               PROVE  cell[notify'[g].on].value = g
    BY <1>3 DEF NotifiersSetTheCell
  <2>1. CASE g = f
    BY <1>1, <1>5, <1>6, <2>1 DEF Notifying
  <2>2. CASE g # f
    BY <1>6, <2>2 DEF Inv, NotifiersSetTheCell, Notifying
  <2> QED BY <2>1, <2>2
<1>10. ReadersAreParked'
  <2> SUFFICES ASSUME NEW e \in Deferreds, NEW s \in ToSet(cell[e].readers)
               PROVE  get'[s].on = e /\ get'[s].pc \in ReaderPCs
    BY <1>3 DEF Inv, ReadersAreParked, ReaderPCs
  <2>1. s \in Fibers /\ get[s].on = e /\ get[s].pc \in ReaderPCs
    BY DEF Inv, TypeOK, ReadersAreParked, ReaderPCs, ToSet
  <2>2. e # d
    BY <1>1 DEF Inv, SetCellsHaveNoReaders, ToSet
  <2>3. get'[s] = get[s]
    BY <1>4, <2>1, <2>2
  <2> QED BY <2>1, <2>3
<1>11. NoReaderForgotten'
  <2> SUFFICES ASSUME NEW g \in Fibers, Parked(g)' PROVE WillHear(g)'
    BY DEF NoReaderForgotten
  <2> DEFINE e == get[g].on
  <2>1. get'[g] = get[g] /\ (g = r => e # d)
    BY <1>4 DEF Parked
  <2>2. e \in Deferreds /\ WillHear(g)
    BY <2>1, GetFacts DEF Parked, GetPCs, Inv, NoReaderForgotten
  <2>3. CASE ~IsSet(e)
    BY <1>3, <2>1, <2>2, <2>3 DEF WillHear, IsSet
  <2>4. CASE IsSet(e)
    <3> DEFINE h == cell[e].value
    <3>1. ASSUME g \in ToNotifyOf(h, e) PROVE g \in ToNotifyOf(h, e)'
      <4>1. notify[h].on = e /\ g \in ToSet(notify[h].readers)
        BY <3>1 DEF ToNotifyOf
      <4>2. h \in Fibers
        BY <2>2, <2>4 DEF Inv, TypeOK, IsSet
      <4>3. CASE h = f
        <5>1. e = d /\ g # r /\ g \in ToSet(rest)
          BY <1>2, <2>1, <4>1, <4>3
        <5>2. rest # <<>>
          BY <5>1 DEF ToSet
        <5> QED BY <1>3, <1>5, <1>6, <2>1, <4>3, <5>1, <5>2 DEF ToNotifyOf
      <4>4. CASE h # f
        BY <1>3, <1>6, <2>1, <4>1, <4>2, <4>4 DEF ToNotifyOf
      <4> QED BY <4>3, <4>4
    <3>2. h \in Interruptible \/ g \in ToNotifyOf(h, e)
      BY <2>2, <2>4 DEF WillHear
    <3> QED BY <1>3, <2>1, <2>4, <3>1, <3>2 DEF WillHear, IsSet, ToNotifyOf
  <2> QED BY <2>3, <2>4
<1> QED BY <1>7, <1>8, <1>9, <1>10, <1>11 DEF Inv

(* A canceled completer forgets its list: only its own cell suffers.       *)
LEMMA CancelCompleteInv ==
    ASSUME Inv, NEW f \in Fibers, CancelComplete(f)
    PROVE  Inv'
<1>1. /\ UNCHANGED <<cell, get>>
      /\ notify'[f] = NobodyToNotify
      /\ \A g \in Fibers \ {f} : notify'[g] = notify[g]
      /\ f \in Interruptible
  BY DEF CancelComplete, Inv, TypeOK
<1>2. TypeOK'
  BY DEF CancelComplete, Inv, TypeOK
<1>3. SetCellsHaveNoReaders' /\ ReadersAreParked'
  BY <1>1 DEF Inv, SetCellsHaveNoReaders, ReadersAreParked, IsSet
<1>4. NotifiersSetTheCell'
  BY <1>1 DEF Inv, NotifiersSetTheCell, Notifying, NobodyToNotify
<1>5. NoReaderForgotten'
  <2> SUFFICES ASSUME NEW g \in Fibers, Parked(g) PROVE WillHear(g)'
    BY <1>1 DEF NoReaderForgotten, Parked
  <2> DEFINE e == get[g].on
  <2>1. e \in Deferreds /\ WillHear(g)
    BY GetFacts DEF Parked, GetPCs, Inv, NoReaderForgotten
  <2>2. CASE ~IsSet(e)
    BY <1>1, <2>1, <2>2 DEF WillHear, IsSet
  <2>3. CASE IsSet(e)
    <3>1. cell[e].value \in Fibers
      BY <2>1, <2>3 DEF Inv, TypeOK, IsSet
    <3> QED BY <1>1, <2>1, <2>3, <3>1 DEF WillHear, IsSet, ToNotifyOf
  <2> QED BY <2>2, <2>3
<1> QED BY <1>2, <1>3, <1>4, <1>5 DEF Inv

-----------------------------------------------------------------------------
(* The invariant holds of new Deferreds, every step keeps it, and so it    *)
(* holds for ever.                                                         *)
LEMMA InvInit == Init => Inv
<1> SUFFICES ASSUME Init PROVE Inv
  OBVIOUS
<1>1. TypeOK
  BY DEF Init, TypeOK
<1>2. /\ \A d \in Deferreds : cell[d].readers = <<>> /\ ~IsSet(d)
      /\ \A f \in Fibers : ~Notifying(f) /\ ~Parked(f)
  BY DEF Init, IsSet, Notifying, NobodyToNotify, Parked, NotGetting
<1>3. IsInjective(<<>>) /\ ToSet(<<>>) = {}
  BY DEF IsInjective, ToSet
<1> QED BY <1>1, <1>2, <1>3 DEF Inv, SetCellsHaveNoReaders, NotifiersSetTheCell,
                                ReadersAreParked, NoReaderForgotten

(* What a client may do with its Deferreds: the operations, with guards of *)
(* its own in the place of those of Next.                                  *)
ClientStep(f) ==
    \/ \E d \in Deferreds : StartGet(f, d) \/ Complete(f, d)
    \/ GetStep(f) \/ LeaveGet(f) \/ CancelGet(f)
    \/ NotifyReader(f) \/ CancelComplete(f)

(* Every operation keeps the invariant: one lemma per operation.           *)
LEMMA ClientInv ==
    ASSUME Inv, NEW f \in Fibers, ClientStep(f)
    PROVE  Inv'
<1>1. ASSUME NEW d \in Deferreds, StartGet(f, d) PROVE Inv'
  BY <1>1, StartGetInv
<1>2. ASSUME NEW d \in Deferreds, Complete(f, d) PROVE Inv'
  BY <1>2, CompleteInv
<1>3. CASE GetStep(f)
  BY <1>3, MovesInv, AddReaderInv, DeleteReaderInv DEF GetStep
<1>4. CASE LeaveGet(f)
  BY <1>4, LeaveGetInv
<1>5. CASE CancelGet(f)
  BY <1>5, MovesInv
<1>6. CASE NotifyReader(f)
  BY <1>6, NotifyReaderInv
<1>7. CASE CancelComplete(f)
  BY <1>7, CancelCompleteInv
<1> QED BY <1>1, <1>2, <1>3, <1>4, <1>5, <1>6, <1>7 DEF ClientStep

(* Every step keeps the invariant.                                         *)
LEMMA InvNext == Inv /\ [Next]_vars => Inv'
<1> SUFFICES ASSUME Inv, [Next]_vars PROVE Inv'
  OBVIOUS
<1>1. ASSUME NEW f \in Fibers, ClientStep(f) PROVE Inv'
  BY <1>1, ClientInv
<1>2. CASE UNCHANGED vars
  BY <1>2 DEF vars, Inv, TypeOK, SetCellsHaveNoReaders, NotifiersSetTheCell,
              ReadersAreParked, NoReaderForgotten, IsSet, Notifying, Parked,
              WillHear, ToNotifyOf
<1> QED BY <1>1, <1>2 DEF Next, ClientStep

(* The invariant of DeferredProofs in every reachable state.               *)
LEMMA InvAlways == Spec => []Inv
BY InvInit, InvNext, PTL DEF Spec

(* Cells, gets and notifiers keep their types: a get() that is over leaves *)
(* nothing of itself, and whoever notifies has somebody left to notify.    *)
THEOREM TypeCorrect == Spec => []TypeOK
<1>1. Inv => TypeOK
  BY DEF Inv
<1> QED BY InvAlways, <1>1, PTL

(* No callback is left behind by a get() that ended, however it ended.     *)
THEOREM ReadersParked == Spec => []ReadersAreParked
<1>1. Inv => ReadersAreParked
  BY DEF Inv
<1> QED BY InvAlways, <1>1, PTL

(* No fiber parked on a Deferred misses its completion, unless the fiber   *)
(* that completes it is one that may be canceled.                          *)
THEOREM ReadersHear == Spec => []NoReaderForgotten
<1>1. Inv => NoReaderForgotten
  BY DEF Inv
<1> QED BY InvAlways, <1>1, PTL

(* The first complete() decides: a set Deferred never changes again.       *)
THEOREM FirstCompleteWins == Spec => WrittenOnce
<1> DEFINE Keeps == \A d \in Deferreds : IsSet(d) => cell'[d] = cell[d]
<1>1. TypeOK /\ [Next]_vars => [Keeps]_vars
  <2> SUFFICES ASSUME TypeOK, Next, NEW d \in Deferreds, IsSet(d)
               PROVE  cell'[d] = cell[d]
    BY DEF vars
  <2>1. ASSUME NEW f \in Fibers, AddReader(f) \/ DeleteReader(f)
        PROVE  cell'[d] = cell[d]
    BY <2>1 DEF AddReader, DeleteReader, TypeOK
  <2>2. ASSUME NEW f \in Fibers, NEW e \in Deferreds, Complete(f, e)
        PROVE  cell'[d] = cell[d]
    BY <2>2 DEF Complete, TypeOK
  <2> QED BY <2>1, <2>2 DEF Next, GetStep, StartGet, ReadState, Await, Resume,
                            LeaveGet, CancelGet, NotifyReader, CancelComplete
<1>2. Inv => TypeOK
  BY DEF Inv
<1> QED BY InvAlways, <1>1, <1>2, PTL DEF Spec, WrittenOnce

-----------------------------------------------------------------------------
(* What a client sees of its Deferreds.                                    *)

(* Only complete() writes a value.                                         *)
LEMMA ValuesKept ==
    ASSUME TypeOK, NEW f \in Fibers,
           \/ \E d \in Deferreds : StartGet(f, d)
           \/ GetStep(f) \/ LeaveGet(f) \/ CancelGet(f)
           \/ NotifyReader(f) \/ CancelComplete(f)
    PROVE  \A d \in Deferreds : cell'[d].value = cell[d].value
<1>1. ASSUME NEW e, NEW rs, cell' = [cell EXCEPT ![e].readers = rs]
      PROVE  \A d \in Deferreds : cell'[d].value = cell[d].value
  <2> SUFFICES ASSUME NEW d \in Deferreds PROVE cell'[d].value = cell[d].value
    OBVIOUS
  <2>1. cell[d] \in [value : Fibers \cup {NoValue}, readers : Seq(Fibers)]
    BY DEF TypeOK
  <2>2. cell'[d] = IF d = e THEN [cell[d] EXCEPT !.readers = rs] ELSE cell[d]
    BY <1>1 DEF TypeOK
  <2> QED BY <2>1, <2>2
<1>2. CASE AddReader(f) \/ DeleteReader(f)
  BY <1>1, <1>2 DEF AddReader, DeleteReader
<1>3. CASE UNCHANGED cell
  BY <1>3
<1> QED BY <1>1, <1>2, <1>3 DEF GetStep, StartGet, ReadState, Await, Resume, LeaveGet,
                               CancelGet, NotifyReader, CancelComplete

(* The first complete() of a cell sets that cell; none moves a fiber.      *)
LEMMA CompleteWrites ==
    ASSUME TypeOK, NEW f \in Fibers, NEW d \in Deferreds, Complete(f, d)
    PROVE  /\ UNCHANGED get
           /\ ~IsSet(d) => cell'[d].value = f
           /\ \A e \in Deferreds : IsSet(e) \/ e # d => cell'[e].value = cell[e].value
           /\ \A e \in Deferreds : IsSet(e) \/ e = d => cell'[e].value # NoValue
<1>1. CASE IsSet(d)
  BY <1>1 DEF Complete, IsSet
<1>2. CASE ~IsSet(d)
  <2>1. UNCHANGED get /\ cell' = [cell EXCEPT ![d] = [value |-> f, readers |-> <<>>]]
    BY <1>2 DEF Complete
  <2>2. cell'[d].value = f /\ \A e \in Deferreds \ {d} : cell'[e] = cell[e]
    BY <2>1 DEF TypeOK
  <2>3. f # NoValue
    BY DeferredAssumption
  <2> QED BY <1>2, <2>1, <2>2, <2>3 DEF IsSet
<1> QED BY <1>1, <1>2

(* Who is in a get() stays in it until LeaveGet, and a cell that is         *)
(* allocated anew is no reason to lose a type: this needs no invariant.    *)
LEMMA TypesKept ==
    ASSUME TypeOK, NEW f \in Fibers, ClientStep(f)
    PROVE  /\ TypeOK'
           /\ GetStep(f) \/ CancelGet(f) \/ NotifyReader(f) =>
                \A g \in Fibers : get'[g] = NotGetting <=> get[g] = NotGetting
<1> DEFINE Cells == [Deferreds -> [value : Fibers \cup {NoValue}, readers : Seq(Fibers)]]
           Lists == [Fibers -> {NobodyToNotify} \cup
                                 [on : Deferreds, readers : Seq(Fibers) \ {<<>>}]]
           Same == \A g \in Fibers : get'[g] = NotGetting <=> get[g] = NotGetting
<1>1. ASSUME NEW r \in Fibers, NEW pc \in GetPCs, get[r].pc \in GetPCs,
             get' = [get EXCEPT ![r].pc = pc]
      PROVE  get' \in GetSet /\ Same
  <2>1. get' \in GetSet /\ get'[r] = [pc |-> pc, on |-> get[r].on]
    BY <1>1, GetFacts DEF GetSet
  <2>2. get'[r] # NotGetting /\ get[r] # NotGetting
    <3>1. get'[r].pc = pc
      BY <2>1
    <3> QED BY <1>1, <3>1 DEF NotGetting, GetPCs
  <2>3. \A g \in Fibers \ {r} : get'[g] = get[g]
    BY <1>1 DEF TypeOK
  <2> QED BY <2>1, <2>2, <2>3
<1>2. ASSUME GetStep(f) \/ CancelGet(f) PROVE TypeOK' /\ Same
  <2>1. /\ get[f].pc \in GetPCs /\ UNCHANGED notify
        /\ \E pc \in GetPCs : get' = [get EXCEPT ![f].pc = pc]
    BY <1>2 DEF GetStep, ReadState, AddReader, Await, Resume, DeleteReader, CancelGet,
                Goto, At, GetPCs
  <2>2. get[f].on \in Deferreds
    BY <2>1, GetFacts
  <2>3. cell' \in Cells
    <3>1. /\ cell[get[f].on].readers \in Seq(Fibers)
          /\ Append(cell[get[f].on].readers, f) \in Seq(Fibers)
          /\ Without(cell[get[f].on].readers, f) \in Seq(Fibers)
      BY <2>2, WithoutType DEF TypeOK
    <3>2. ASSUME NEW rs \in Seq(Fibers), cell' = [cell EXCEPT ![get[f].on].readers = rs]
          PROVE  cell' \in Cells
      BY <2>2, <3>2 DEF TypeOK
    <3>3. CASE AddReader(f)
      <4>1. \/ UNCHANGED cell
            \/ cell' = [cell EXCEPT ![get[f].on].readers = Append(cell[get[f].on].readers, f)]
        BY <3>3 DEF AddReader
      <4> QED BY <3>1, <3>2, <4>1 DEF TypeOK
    <3>4. CASE DeleteReader(f)
      <4>1. \/ UNCHANGED cell
            \/ cell' = [cell EXCEPT ![get[f].on].readers = Without(cell[get[f].on].readers, f)]
        BY <3>4 DEF DeleteReader
      <4> QED BY <3>1, <3>2, <4>1 DEF TypeOK
    <3>5. CASE UNCHANGED cell
      BY <3>5 DEF TypeOK
    <3> QED BY <1>2, <3>3, <3>4, <3>5 DEF GetStep, ReadState, Await, Resume, CancelGet
  <2> QED BY <1>1, <2>1, <2>3 DEF TypeOK, GetSet
<1>3. ASSUME NotifyReader(f) PROVE TypeOK' /\ Same
  <2> DEFINE d == notify[f].on
             r == Head(notify[f].readers)
             rest == Tail(notify[f].readers)
  <2>1. d \in Deferreds /\ r \in Fibers /\ rest \in Seq(Fibers)
    BY <1>3 DEF NotifyReader, TypeOK, Notifying, NobodyToNotify
  <2>2. UNCHANGED cell /\ notify' = [notify EXCEPT ![f] = ToNotify(d, rest)]
    BY <1>3 DEF NotifyReader, TypeOK
  <2>3. notify' \in Lists
    BY <2>1, <2>2 DEF TypeOK, ToNotify
  <2>4. get' \in GetSet /\ Same
    <3>1. CASE get[r].on # d
      BY <1>3, <3>1 DEF NotifyReader, TypeOK, GetSet
    <3>2. CASE get[r].on = d
      <4> DEFINE pc == CASE get[r].pc = "registered" -> "fired"
                         [] get[r].pc = "waiting" -> "resumed"
                         [] OTHER -> get[r].pc
      <4>1. get' = [get EXCEPT ![r].pc = pc]
        BY <1>3, <2>1, <3>2 DEF NotifyReader, TypeOK
      <4>2. get[r].pc \in GetPCs
        BY <2>1, <3>2, DeferredAssumption DEF TypeOK, NotGetting
      <4>3. pc \in GetPCs
        BY <4>2 DEF GetPCs
      <4> HIDE DEF pc
      <4> QED BY <1>1, <2>1, <4>1, <4>2, <4>3
    <3> QED BY <3>1, <3>2
  <2> QED BY <2>2, <2>3, <2>4 DEF TypeOK, GetSet
<1>4. ASSUME NEW d \in Deferreds, StartGet(f, d) PROVE TypeOK'
  BY <1>4 DEF StartGet, TypeOK, GetPCs
<1>5. ASSUME NEW d \in Deferreds, Complete(f, d) PROVE TypeOK'
  <2>1. CASE IsSet(d)
    BY <1>5, <2>1 DEF Complete, TypeOK
  <2>2. CASE ~IsSet(d)
    <3>1. cell[d].readers \in Seq(Fibers)
      BY DEF TypeOK
    <3>2. notify' = [notify EXCEPT ![f] = ToNotify(d, cell[d].readers)]
      BY <1>5, <2>2 DEF Complete
    <3>3. notify' \in Lists
      BY <3>1, <3>2 DEF TypeOK, ToNotify
    <3>4. cell' = [cell EXCEPT ![d] = [value |-> f, readers |-> <<>>]] /\ UNCHANGED get
      BY <1>5, <2>2 DEF Complete
    <3>5. <<>> \in Seq(Fibers)
      OBVIOUS
    <3>6. cell' \in Cells
      BY <3>4, <3>5 DEF TypeOK
    <3> QED BY <3>3, <3>4, <3>6 DEF TypeOK
  <2> QED BY <2>1, <2>2
<1>6. ASSUME LeaveGet(f) \/ CancelComplete(f) PROVE TypeOK'
  BY <1>6 DEF LeaveGet, CancelComplete, TypeOK
<1> QED BY <1>2, <1>3, <1>4, <1>5, <1>6 DEF ClientStep

(* A get() that has a result has it from a cell that is set.               *)
ResultPCs == {"fired", "resumed", "got"}

ResultsAreSet == \A f \in Fibers : get[f].pc \in ResultPCs => IsSet(get[f].on)

(* How a fiber moves inside its get(): it stays on its Deferred, finds a   *)
(* result only in a set cell, and keeps to the end it has reached.         *)
Moves(f) ==
    /\ get'[f].on = get[f].on
    /\ get[f] # NotGetting => get'[f] # NotGetting
    /\ get'[f].pc \in ResultPCs => get[f].pc \in ResultPCs \/ IsSet(get[f].on)
    /\ get[f].pc = "got" => get'[f].pc = "got"
    /\ get'[f].pc # get[f].pc => get[f].pc \in GetPCs

LEMMA PcMoves ==
    ASSUME TypeOK, NEW f \in Fibers, NEW pc \in GetPCs, get[f].pc \in GetPCs,
           get' = [get EXCEPT ![f].pc = pc],
           pc \in ResultPCs => get[f].pc \in ResultPCs \/ IsSet(get[f].on),
           get[f].pc = "got" => pc = "got"
    PROVE  \A g \in Fibers : Moves(g)
<1>1. get'[f] = [pc |-> pc, on |-> get[f].on]
  BY GetFacts
<1>2. get'[f].pc = pc /\ get'[f].on = get[f].on
  BY <1>1
<1>3. get'[f] # NotGetting
  BY <1>2 DEF NotGetting, GetPCs
<1>4. \A g \in Fibers \ {f} : get'[g] = get[g]
  BY DEF TypeOK
<1> QED BY <1>2, <1>3, <1>4 DEF Moves

(* Every step of a get(), and every callback, moves fibers in this way.    *)
LEMMA GetMoves ==
    ASSUME Inv, NEW f \in Fibers,
           GetStep(f) \/ CancelGet(f) \/ NotifyReader(f) \/ CancelComplete(f)
    PROVE  \A g \in Fibers : Moves(g)
<1>1. TypeOK
  BY DEF Inv
<1>2. CASE GetStep(f) \/ CancelGet(f)
  <2>1. PICK pc \in GetPCs :
          /\ get[f].pc \in GetPCs
          /\ get' = [get EXCEPT ![f].pc = pc]
          /\ pc \in ResultPCs => get[f].pc \in ResultPCs \/ IsSet(get[f].on)
          /\ get[f].pc # "got"
    BY <1>2 DEF GetStep, ReadState, AddReader, Await, Resume, DeleteReader, CancelGet,
                Goto, At, GetPCs, ResultPCs
  <2> QED BY <1>1, <2>1, PcMoves
<1>3. CASE NotifyReader(f)
  <2> DEFINE d == notify[f].on
             r == Head(notify[f].readers)
  <2>1. d \in Deferreds /\ r \in Fibers /\ IsSet(d)
    <3>1. d \in Deferreds /\ notify[f].readers \in Seq(Fibers) \ {<<>>}
      BY <1>3 DEF NotifyReader, Inv, TypeOK, Notifying, NobodyToNotify
    <3>2. cell[d].value = f
      BY <1>3 DEF NotifyReader, Inv, NotifiersSetTheCell
    <3> QED BY <3>1, <3>2, DeferredAssumption DEF IsSet
  <2>2. CASE get[r].on # d
    BY <1>3, <2>2 DEF NotifyReader, Moves
  <2>3. CASE get[r].on = d
    <3> DEFINE pc == CASE get[r].pc = "registered" -> "fired"
                       [] get[r].pc = "waiting" -> "resumed"
                       [] OTHER -> get[r].pc
    <3>1. get' = [get EXCEPT ![r].pc = pc]
      BY <1>3, <2>1, <2>3 DEF NotifyReader, Inv, TypeOK
    <3>2. get[r].pc \in GetPCs
      BY <2>1, <2>3, DeferredAssumption DEF Inv, TypeOK, NotGetting
    <3>3. pc \in GetPCs /\ (get[r].pc = "got" => pc = "got")
      BY <3>2 DEF GetPCs
    <3> HIDE DEF pc
    <3> QED BY <1>1, <2>1, <2>3, <3>1, <3>2, <3>3, PcMoves
  <2> QED BY <2>2, <2>3
<1>4. CASE CancelComplete(f)
  BY <1>4 DEF CancelComplete, Moves
<1> QED BY <1>2, <1>3, <1>4

(* Results stay results of set cells: a client that never allocates a cell *)
(* again can rely on them.                                                 *)
LEMMA ResultsInv ==
    ASSUME Inv, ResultsAreSet, NEW f \in Fibers, ClientStep(f)
    PROVE  ResultsAreSet'
<1> USE DEF IsSet
<1>1. ASSUME NEW d \in Deferreds, IsSet(d) PROVE cell'[d].value # NoValue
  <2>1. TypeOK
    BY DEF Inv
  <2> QED BY <1>1, <2>1, ValuesKept, CompleteWrites DEF ClientStep
<1>2. \A g \in Fibers : get[g].pc \in ResultPCs => get[g].on \in Deferreds
  BY GetFacts DEF Inv, ResultPCs, GetPCs
<1>3. CASE GetStep(f) \/ CancelGet(f) \/ NotifyReader(f) \/ CancelComplete(f)
  <2> SUFFICES ASSUME NEW g \in Fibers, get'[g].pc \in ResultPCs
               PROVE  cell'[get'[g].on].value # NoValue
    BY DEF ResultsAreSet
  <2>1. Moves(g)
    BY <1>3, GetMoves
  <2>2. IsSet(get[g].on) /\ get'[g].on = get[g].on
    BY <2>1 DEF Moves, ResultsAreSet
  <2>3. get[g].on \in Deferreds
    <3>1. get[g].pc \in GetPCs
      BY <2>1 DEF Moves, ResultPCs, GetPCs
    <3> QED BY <3>1, GetFacts DEF Inv
  <2> QED BY <1>1, <2>2, <2>3
<1>4. ASSUME NEW d \in Deferreds, StartGet(f, d) PROVE ResultsAreSet'
  <2>1. get'[f].pc = "reading" /\ \A g \in Fibers \ {f} : get'[g] = get[g]
    BY <1>4 DEF StartGet, Inv, TypeOK
  <2> QED BY <1>1, <1>2, <2>1 DEF ResultsAreSet, ResultPCs
<1>5. ASSUME NEW d \in Deferreds, Complete(f, d) PROVE ResultsAreSet'
  <2>1. UNCHANGED get
    BY <1>5, CompleteWrites DEF Inv
  <2> QED BY <1>1, <1>2, <2>1 DEF ResultsAreSet
<1>6. CASE LeaveGet(f)
  <2>1. get'[f].pc = "none" /\ \A g \in Fibers \ {f} : get'[g] = get[g]
    BY <1>6 DEF LeaveGet, Inv, TypeOK, NotGetting
  <2> QED BY <1>1, <1>2, <2>1 DEF ResultsAreSet, ResultPCs
<1> QED BY <1>3, <1>4, <1>5, <1>6 DEF ClientStep
=============================================================================
