------------------------------ MODULE Traverse ------------------------------
(***************************************************************************)
(* How traverse walks an indexed collection: a range of more than width    *)
(* elements is cut into parts, and the results of the parts are combined   *)
(* from left to right. Arrays, Chain and Seq share one such loop; Chunk of *)
(* the streams has its own. The operators return the indices in the order  *)
(* in which their effects are run and their results combined.              *)
(***************************************************************************)
EXTENDS Naturals, Sequences, FiniteSetsExt

LOCAL INSTANCE SequencesExt

Indices(from, until) == [i \in 1..until - from |-> from + i - 1]

Step(width, from, until) == (until - from) \div width

(* The starts of the parts: from, and then every step until the end.       *)
Starts(width, from, until) ==
    LET step == Step(width, from, until)
    IN  [k \in 1..(until - from + step - 1) \div step |-> from + (k - 1) * step]

RECURSIVE Visits(_, _, _)
Visits(width, from, until) ==
    IF until - from <= width THEN Indices(from, until)
    ELSE LET starts == Starts(width, from, until)
             step == Step(width, from, until)
         IN  FlattenSeq([k \in DOMAIN starts |->
                 Visits(width, starts[k], Min({until, starts[k] + step}))])

(* Chunk: the end of the second part is its start and end, not its start   *)
(* and step, and the ends advance from there.                              *)
RECURSIVE ChunkVisits(_, _, _)
ChunkVisits(width, from, until) ==
    IF until - from <= width THEN Indices(from, until)
    ELSE LET starts == Starts(width, from, until)
             step == Step(width, from, until)
             End(k) == IF k = 1 THEN from + step ELSE Min({until, starts[k] + until})
         IN  FlattenSeq([k \in DOMAIN starts |-> ChunkVisits(width, starts[k], End(k))])
=============================================================================
