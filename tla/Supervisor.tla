----------------------------- MODULE Supervisor -----------------------------
(***************************************************************************)
(* Supervisor (effect/std/src/supervisor.ts): fibers that are canceled     *)
(* when the supervisor is released. supervise() forks the fiber and then   *)
(* records its cancel token, in one masked region; the fiber removes the   *)
(* token when it ends, which may come before the token is recorded.        *)
(* Dispatcher, the client in this code base, runs these steps.             *)
(***************************************************************************)
CONSTANT Actions    \* The computations that are supervised

VARIABLES
    tokens,     \* The supervisor's state: whose cancel tokens it holds
    fiber,      \* The life of each supervised fiber
    done,       \* The done Ref of each
    asked,      \* The fibers that somebody cancels
    snapshot    \* The tokens that the release of the supervisor read

vars == <<tokens, fiber, done, asked, snapshot>>

Lives ==
    {"none",
     "scheduled",   \* Forked, not run yet
     "running",     \* In fa
     "finalizing",  \* fa is over, about to set done
     "cleaning",    \* About to remove its token
     "ended"}

TypeOK ==
    /\ tokens \subseteq Actions
    /\ fiber \in [Actions -> Lives]
    /\ done \subseteq Actions
    /\ asked \subseteq Actions
    /\ snapshot \subseteq Actions

Init ==
    /\ tokens = {}
    /\ fiber = [a \in Actions |-> "none"]
    /\ done = {}
    /\ asked = {}
    /\ snapshot = {}

Goto(a, life) == fiber' = [fiber EXCEPT ![a] = life]

-----------------------------------------------------------------------------
(* supervise(fa): three steps of the fiber that calls it.                  *)

Fork(a) ==
    /\ Goto(a, "scheduled")
    /\ UNCHANGED <<tokens, done, asked, snapshot>>

Insert(a) ==
    /\ tokens' = tokens \cup {a}
    /\ UNCHANGED <<fiber, done, asked, snapshot>>

(* Mutant: nobody looks whether the fiber is done already.                 *)
CheckNothing(a) == tokens' = tokens /\ UNCHANGED <<fiber, done, asked, snapshot>>

Check(a) ==
    /\ tokens' = IF a \in done THEN tokens \ {a} ELSE tokens
    /\ UNCHANGED <<fiber, done, asked, snapshot>>

-----------------------------------------------------------------------------
(* The supervised fiber. One that was canceled before its first node runs  *)
(* no finalizer.                                                           *)

Run(a) ==
    /\ fiber[a] = "scheduled"
    /\ Goto(a, IF a \in asked THEN "ended" ELSE "running")
    /\ UNCHANGED <<tokens, done, asked, snapshot>>

(* fa ends, by itself or because it is canceled.                           *)
Leave(a) ==
    /\ fiber[a] = "running"
    /\ Goto(a, "finalizing")
    /\ UNCHANGED <<tokens, done, asked, snapshot>>

SetDone(a) ==
    /\ fiber[a] = "finalizing"
    /\ Goto(a, "cleaning")
    /\ done' = done \cup {a}
    /\ UNCHANGED <<tokens, asked, snapshot>>

Cleanup(a) ==
    /\ fiber[a] = "cleaning"
    /\ Goto(a, "ended")
    /\ tokens' = tokens \ {a}
    /\ UNCHANGED <<done, asked, snapshot>>

(* fiber.cancel, which returns when the fiber has ended.                   *)
Ask(a) ==
    /\ a \notin asked
    /\ asked' = asked \cup {a}
    /\ UNCHANGED <<tokens, fiber, done, snapshot>>

Ended(a) == fiber[a] = "ended"

-----------------------------------------------------------------------------
(* The release of the supervisor cancels all fibers whose tokens it holds, *)
(* in parallel, and waits for them.                                        *)

ReadTokens ==
    /\ snapshot' = tokens
    /\ UNCHANGED <<tokens, fiber, done, asked>>

CancelToken(a) == a \in snapshot /\ Ask(a)

AllEnded == \A a \in snapshot : Ended(a)
=============================================================================
