---------------------------- MODULE WaitingLists ----------------------------
(***************************************************************************)
(* Lists of fibers that wait: the readers of a Deferred, the queue of a    *)
(* Semaphore, the takers and offerers of a Queue.                          *)
(***************************************************************************)
EXTENDS Sequences, SequencesExt

(* The filter(r => r !== f) that takes a canceled fiber off a list. A list *)
(* holds a fiber at most once, which an invariant of each client verifies. *)
Without(s, f) ==
    IF f \in ToSet(s) THEN RemoveAt(s, CHOOSE i \in DOMAIN s : s[i] = f) ELSE s
=============================================================================
