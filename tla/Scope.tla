------------------------------- MODULE Scope -------------------------------
(***************************************************************************)
(* Scope, ScopedResource and Lease (stream/core/src/internal): the tree of *)
(* scopes of a running stream, the resources acquired in them, and the     *)
(* leases that keep resources alive for the inner streams of parJoin. Each *)
(* scope and each resource has a Ref of its own; an operation is a list of *)
(* single updates, kept here in todo, and any fiber may run between two of *)
(* them. The code masks acquiring, leasing, and closing the root, but not  *)
(* the closing of another scope. Interruption contexts are left out.       *)
(***************************************************************************)
EXTENDS Naturals, FiniteSets, Sequences, SequencesExt, WaitingLists

CONSTANTS
    Fibers,         \* The stream's fiber and those of its inner streams
    Cancelable,     \* Those that may be canceled
    Scopes, Root,
    Resources

ASSUME ScopeAssumption ==
    /\ Root \in Scopes
    /\ Cancelable \subseteq Fibers
    /\ Scopes \cap Resources = {}

VARIABLES
    scope,      \* ScopeState of each scope, with its tag, and "new" before it
                \* is opened
    parent,     \* Scope.parent
    resource,   \* State of each ScopedResource, and whether it was acquired
    todo,       \* The updates that each fiber's operation still has to make
    masked,     \* The fiber's operation is in an uncancelable region
    held,       \* The resources of the lease a fiber holds
    runs,       \* How often each finalizer was run
    abandoned   \* The scopes and resources a canceled close() did not reach

vars == <<scope, parent, resource, todo, masked, held, runs, abandoned>>

Tags == {"new", "open", "closed"}

ScopeState == [tag : Tags, resources : Seq(Resources), children : Seq(Scopes)]

ResourceState == [acquired : BOOLEAN, open : BOOLEAN, finalizer : BOOLEAN, leases : Nat]

Tasks ==
    ({"open", "close", "unregister", "read", "climb"} \X Scopes)
        \cup ({"lease", "unlease", "take", "release", "finalize"} \X Resources)
        \cup ({"register"} \X Resources \X Scopes)

TypeOK ==
    /\ scope \in [Scopes -> ScopeState]
    /\ parent \in [Scopes -> Scopes]
    /\ resource \in [Resources -> ResourceState]
    /\ todo \in [Fibers -> Seq(Tasks)]
    /\ masked \in [Fibers -> BOOLEAN]
    /\ held \in [Fibers -> Seq(Resources)]
    /\ runs \in [Resources -> Nat]
    /\ abandoned \subseteq Scopes \cup Resources

Empty(tag) == [tag |-> tag, resources |-> <<>>, children |-> <<>>]

(* The root is its own parent here: the code has none for it.              *)
Init ==
    /\ scope = [s \in Scopes |-> Empty(IF s = Root THEN "open" ELSE "new")]
    /\ parent = [s \in Scopes |-> Root]
    /\ resource = [r \in Resources |->
                      [acquired |-> FALSE, open |-> TRUE, finalizer |-> FALSE, leases |-> 0]]
    /\ todo = [f \in Fibers |-> <<>>]
    /\ masked = [f \in Fibers |-> FALSE]
    /\ held = [f \in Fibers |-> <<>>]
    /\ runs = [r \in Resources |-> 0]
    /\ abandoned = {}

IsOpen(s) == scope[s].tag = "open"

(* The tasks <<what, x>> for every x of a sequence.                        *)
Each(what, xs) == [i \in DOMAIN xs |-> <<what, xs[i]>>]

-----------------------------------------------------------------------------
(* The operations: each begins with a list of updates.                     *)

Begin(f, tasks, uncancelable) ==
    /\ todo[f] = <<>>
    /\ todo' = [todo EXCEPT ![f] = tasks]
    /\ masked' = [masked EXCEPT ![f] = uncancelable]

Known(s) == scope[s].tag # "new"

StartOpen(f, s) ==
    /\ Known(s)
    /\ \E n \in Scopes : ~Known(n)
    /\ Begin(f, << <<"open", s>> >>, FALSE)
    /\ UNCHANGED <<scope, parent, resource, held, runs, abandoned>>

(* Compilation closes the root in the release of a Resource, the others    *)
(* are closed by the program.                                              *)
StartClose(f, s) ==
    /\ IsOpen(s)
    /\ Begin(f, << <<"close", s>> >>, s = Root)
    /\ UNCHANGED <<scope, parent, resource, held, runs, abandoned>>

(* acquireResource: a new ScopedResource, the acquisition, and acquired(), *)
(* which nobody else can have released yet.                                *)
Acquire(f, r, s) ==
    /\ Known(s) /\ ~resource[r].acquired
    /\ Begin(f, << <<"register", r, s>> >>, TRUE)
    /\ resource' = [resource EXCEPT ![r].acquired = TRUE, ![r].finalizer = TRUE]
    /\ UNCHANGED <<scope, parent, held, runs, abandoned>>

(* lease: reads the resources of the children, of the scope, and then of   *)
(* its ancestors, which never change.                                      *)
StartLease(f, s) ==
    /\ IsOpen(s) /\ held[f] = <<>>
    /\ Begin(f, Append(Each("read", scope[s].children), <<"climb", s>>), TRUE)
    /\ UNCHANGED <<scope, parent, resource, held, runs, abandoned>>

(* Lease.cancel, in the finalizer of an inner stream.                      *)
CancelLease(f) ==
    /\ held[f] # <<>>
    /\ Begin(f, Each("unlease", held[f]), TRUE)
    /\ held' = [held EXCEPT ![f] = <<>>]
    /\ UNCHANGED <<scope, parent, resource, runs, abandoned>>

-----------------------------------------------------------------------------
(* The updates. The fiber's first task is replaced by what it leads to.    *)

Next1(f) == Head(todo[f])
Doing(f, what) == todo[f] # <<>> /\ Next1(f)[1] = what
On(f) == Next1(f)[2]
Replace(f, tasks) == todo' = [todo EXCEPT ![f] = tasks \o Tail(@)]

(* open: a closed scope passes the request on to its parent; the root      *)
(* fails it.                                                               *)
OpenChild(f) ==
    /\ Doing(f, "open")
    /\ LET s == On(f)
       IN IF IsOpen(s)
            THEN /\ \E n \in Scopes :
                        /\ ~Known(n)
                        /\ scope' = [scope EXCEPT ![s].children = Append(@, n),
                                                  ![n].tag = "open"]
                        /\ parent' = [parent EXCEPT ![n] = s]
                 /\ Replace(f, <<>>)
            ELSE /\ Replace(f, IF s = Root THEN <<>> ELSE << <<"open", parent[s]>> >>)
                 /\ UNCHANGED <<scope, parent>>
    /\ UNCHANGED <<resource, masked, held, runs, abandoned>>

(* Another fiber opened the last scope of the bound first.                 *)
OpenNone(f) ==
    /\ Doing(f, "open")
    /\ \A n \in Scopes : Known(n)
    /\ Replace(f, <<>>)
    /\ UNCHANGED <<scope, parent, resource, masked, held, runs, abandoned>>

(* Mutant: a resource is added to a scope that is closed.                  *)
RegisterAnyway(f) ==
    /\ Doing(f, "register")
    /\ scope' = [scope EXCEPT ![Next1(f)[3]].resources = <<On(f)>> \o @]
    /\ Replace(f, <<>>)
    /\ UNCHANGED <<parent, resource, masked, held, runs, abandoned>>

(* register: a scope closed in the meantime refuses the resource, which is *)
(* then finalized at once.                                                 *)
Register(f) ==
    /\ Doing(f, "register")
    /\ LET r == On(f)
           s == Next1(f)[3]
       IN IF IsOpen(s)
            THEN /\ scope' = [scope EXCEPT ![s].resources = <<r>> \o @]
                 /\ Replace(f, <<>>)
            ELSE Replace(f, << <<"finalize", r>> >>) /\ UNCHANGED scope
    /\ UNCHANGED <<parent, resource, masked, held, runs, abandoned>>

(* close: whoever closes the scope gets its children and resources.        *)
Close(f) ==
    /\ Doing(f, "close")
    /\ LET s == On(f)
       IN /\ scope' = [scope EXCEPT ![s] = Empty("closed")]
          /\ Replace(f, IF ~IsOpen(s) THEN <<>>
                        ELSE Each("close", scope[s].children)
                               \o Each("release", scope[s].resources)
                               \o << <<"unregister", s>> >>)
    /\ UNCHANGED <<parent, resource, masked, held, runs, abandoned>>

(* releaseChildScope, of the parent; a closed one has no children.         *)
Unregister(f) ==
    /\ Doing(f, "unregister")
    /\ LET s == On(f)
       IN scope' = IF s = Root THEN scope
                   ELSE [scope EXCEPT ![parent[s]].children = Without(@, s)]
    /\ Replace(f, <<>>)
    /\ UNCHANGED <<parent, resource, masked, held, runs, abandoned>>

(* Mutant: the finalizer is run whether the resource is leased or not.     *)
ReleaseLeased(f) ==
    /\ Doing(f, "release")
    /\ LET r == On(f)
       IN /\ resource' = [resource EXCEPT ![r].open = FALSE, ![r].finalizer = FALSE]
          /\ Replace(f, IF resource[r].finalizer THEN << <<"finalize", r>> >> ELSE <<>>)
    /\ UNCHANGED <<scope, parent, masked, held, runs, abandoned>>

(* release: takes the finalizer, unless the resource is leased.            *)
Release(f) ==
    /\ Doing(f, "release")
    /\ LET r == On(f)
       IN IF resource[r].leases # 0
            THEN /\ resource' = [resource EXCEPT ![r].open = FALSE]
                 /\ Replace(f, <<>>)
            ELSE /\ resource' = [resource EXCEPT ![r].open = FALSE, ![r].finalizer = FALSE]
                 /\ Replace(f, IF resource[r].finalizer THEN << <<"finalize", r>> >> ELSE <<>>)
    /\ UNCHANGED <<scope, parent, masked, held, runs, abandoned>>

Finalize(f) ==
    /\ Doing(f, "finalize")
    /\ runs' = [runs EXCEPT ![On(f)] = @ + 1]
    /\ Replace(f, <<>>)
    /\ UNCHANGED <<scope, parent, resource, masked, held, abandoned>>

(* The ancestor whose resources are read after those of s.                 *)
Ancestor(s) == IF s = Root THEN <<>> ELSE << <<"climb", parent[s]>> >>

(* The resources of one scope, read for a lease.                           *)
ReadResources(f) ==
    /\ Doing(f, "read") \/ Doing(f, "climb")
    /\ LET s == On(f)
           up == IF Doing(f, "climb") THEN Ancestor(s) ELSE <<>>
           found == IF IsOpen(s) THEN Each("lease", scope[s].resources) ELSE <<>>
       IN todo' = [todo EXCEPT ![f] = up \o Tail(@) \o found]
    /\ UNCHANGED <<scope, parent, resource, masked, held, runs, abandoned>>

(* ScopedResource.lease: none of a resource that was released.             *)
LeaseResource(f) ==
    /\ Doing(f, "lease")
    /\ LET r == On(f)
       IN IF resource[r].open
            THEN /\ resource' = [resource EXCEPT ![r].leases = @ + 1]
                 /\ held' = [held EXCEPT ![f] = Append(@, r)]
            ELSE UNCHANGED <<resource, held>>
    /\ Replace(f, <<>>)
    /\ UNCHANGED <<scope, parent, masked, runs, abandoned>>

(* Lease.cancel, first update: the last lease of a released resource.      *)
Unlease(f) ==
    /\ Doing(f, "unlease")
    /\ LET r == On(f)
           isFinished == ~resource[r].open /\ resource[r].leases = 1
       IN /\ resource' = [resource EXCEPT ![r].leases = @ - 1]
          /\ Replace(f, IF isFinished THEN << <<"take", r>> >> ELSE <<>>)
    /\ UNCHANGED <<scope, parent, masked, held, runs, abandoned>>

(* Lease.cancel, second update: takes the finalizer.                       *)
TakeFinalizer(f) ==
    /\ Doing(f, "take")
    /\ LET r == On(f)
       IN /\ resource' = [resource EXCEPT ![r].finalizer = FALSE]
          /\ Replace(f, IF resource[r].finalizer THEN << <<"finalize", r>> >> ELSE <<>>)
    /\ UNCHANGED <<scope, parent, masked, held, runs, abandoned>>

(* A fiber canceled in the middle of close() drops what was left to do.    *)
Cancel(f) ==
    /\ f \in Cancelable
    /\ todo[f] # <<>> /\ ~masked[f]
    /\ abandoned' = abandoned \cup
           {t[2] : t \in {u \in ToSet(todo[f]) : u[1] \in {"close", "release", "finalize"}}}
    /\ todo' = [todo EXCEPT ![f] = <<>>]
    /\ UNCHANGED <<scope, parent, resource, masked, held, runs>>

Step(f) ==
    \/ OpenChild(f) \/ OpenNone(f) \/ Register(f)
    \/ Close(f) \/ Unregister(f) \/ Release(f) \/ Finalize(f)
    \/ ReadResources(f) \/ LeaseResource(f) \/ Unlease(f) \/ TakeFinalizer(f)

Start(f) ==
    \/ \E s \in Scopes :
        \/ StartOpen(f, s) \/ StartClose(f, s) \/ StartLease(f, s)
        \/ \E r \in Resources : Acquire(f, r, s)
    \/ CancelLease(f)

Next == \E f \in Fibers : Start(f) \/ Step(f) \/ Cancel(f)

Spec == Init /\ [][Next]_vars

-----------------------------------------------------------------------------
(* A finalizer runs once at most, and not while somebody has a lease of    *)
(* its resource, however close(), leases and their cancelations interleave.*)
Leased(f, r) == r \in ToSet(held[f]) \/ <<"unlease", r>> \in ToSet(todo[f])

Leases(r) == {f \in Fibers : Leased(f, r)}

ReleasedOnce ==
    \A r \in Resources :
        /\ runs[r] <= 1
        /\ runs[r] = 1 => Leases(r) = {}

(* Every resource that was acquired has exactly one who will finalize it:  *)
(* the open scope it is registered in, the fiber that registers, releases  *)
(* or finalizes it, the leases of a resource already released. Every open  *)
(* scope is known to its open parent, or to the fiber about to close it.   *)
(* What a canceled close() abandoned is lost.                              *)
Custodial(r) ==
    ({"release", "take", "finalize"} \X {r}) \cup ({"register"} \X {r} \X Scopes)

Custodians(r) ==
    {s \in Scopes : r \in ToSet(scope[s].resources)}
        \cup {x \in Fibers \X Custodial(r) : x[2] \in ToSet(todo[x[1]])}
        \cup {x \in {"leases"} : ~resource[r].open /\ Leases(r) # {}}
        \cup {x \in {"finalized"} : runs[r] > 0}

NoneForgotten ==
    /\ \A r \in Resources \ abandoned :
        Cardinality(Custodians(r)) = IF resource[r].acquired THEN 1 ELSE 0
    /\ \A s \in Scopes \ (abandoned \cup {Root}) :
        IsOpen(s) => \/ s \in ToSet(scope[parent[s]].children)
                     \/ \E f \in Fibers : <<"close", s>> \in ToSet(todo[f])
=============================================================================
