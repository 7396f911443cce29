------------------------------ MODULE ScopeProofs ------------------------------
(***************************************************************************)
(* Scope: a resource is finalized once at most, after its last lease, and  *)
(* every resource and open scope that no canceled close() abandoned has    *)
(* somebody who will release or close it.                                  *)
(***************************************************************************)
EXTENDS Scope, DataProofs, Integers, FiniteSetTheorems, TLAPS

(* No entry of a sequence is in T, or exactly one is.                      *)
Absent(q, T) == \A i \in DOMAIN q : q[i] \notin T

Once(q, T) == \E i \in DOMAIN q : q[i] \in T /\ \A k \in DOMAIN q : q[k] \in T => k = i

(* The same of the set of entries.                                         *)
LEMMA AbsentSet ==
    ASSUME NEW S, NEW q \in Seq(S), NEW T
    PROVE  Absent(q, T) <=> ToSet(q) \cap T = {}
<1> QED BY DEF Absent, ToSet

(* A sequence with one entry in a set has one element there.               *)
LEMMA OnceSet ==
    ASSUME NEW S, NEW q \in Seq(S), NEW T, Once(q, T)
    PROVE  \E t \in ToSet(q) \cap T : ToSet(q) \cap T = {t}
<1> QED BY DEF Once, ToSet

(* Nothing is in the empty sequence,                                       *)
LEMMA EmptyAbsent ==
    ASSUME NEW T
    PROVE  Absent(<<>>, T) /\ ~Once(<<>>, T)
<1> QED BY DEF Absent, Once

(* and one entry in a sequence of one.                                     *)
LEMMA SingleFacts ==
    ASSUME NEW S, NEW e \in S, NEW T
    PROVE  /\ <<e>> \in Seq(S)
           /\ ToSet(<<e>>) = {e}
           /\ Absent(<<e>>, T) <=> e \notin T
           /\ Once(<<e>>, T) <=> e \in T
<1>1. <<e>> \in Seq(S) /\ Len(<<e>>) = 1 /\ <<e>>[1] = e /\ DOMAIN <<e>> = {1}
  OBVIOUS
<1> QED BY <1>1 DEF Absent, Once, ToSet

(* Entries of two sequences, one behind the other,                         *)
LEMMA JoinAbsent ==
    ASSUME NEW S, NEW a \in Seq(S), NEW b \in Seq(S), NEW T
    PROVE  Absent(a \o b, T) <=> Absent(a, T) /\ Absent(b, T)
<1>1. /\ a \o b \in Seq(S) /\ ToSet(a \o b) = ToSet(a) \cup ToSet(b)
  BY JoinFacts
<1> QED BY <1>1, AbsentSet

(* of which one has the entry.                                             *)
LEMMA JoinOnce ==
    ASSUME NEW S, NEW a \in Seq(S), NEW b \in Seq(S), NEW T,
           (Once(a, T) /\ Absent(b, T)) \/ (Absent(a, T) /\ Once(b, T))
    PROVE  Once(a \o b, T)
<1> DEFINE u == a \o b
<1>1. /\ DOMAIN a = 1..Len(a) /\ DOMAIN b = 1..Len(b) /\ DOMAIN u = 1..Len(a) + Len(b)
      /\ Len(a) \in Nat /\ Len(b) \in Nat
      /\ \A i \in 1..Len(a) + Len(b) : u[i] = IF i <= Len(a) THEN a[i] ELSE b[i - Len(a)]
  OBVIOUS
<1> HIDE DEF u
<1>2. CASE Once(a, T) /\ Absent(b, T)
  <2>1. PICK i \in 1..Len(a) : a[i] \in T /\ \A k \in 1..Len(a) : a[k] \in T => k = i
    BY <1>1, <1>2 DEF Once
  <2>2. \A k \in 1..Len(b) : b[k] \notin T
    BY <1>1, <1>2 DEF Absent
  <2>3. i \in DOMAIN u /\ u[i] \in T
    BY <1>1, <2>1
  <2>4. ASSUME NEW k \in DOMAIN u, u[k] \in T PROVE k = i
    <3>1. CASE k <= Len(a)
      BY <1>1, <2>1, <2>4, <3>1
    <3>2. CASE ~(k <= Len(a))
      <4>1. k - Len(a) \in 1..Len(b) /\ u[k] = b[k - Len(a)]
        BY <1>1, <3>2
      <4> QED BY <2>2, <2>4, <4>1
    <3> QED BY <3>1, <3>2
  <2> QED BY <2>3, <2>4 DEF Once, u
<1>3. CASE Absent(a, T) /\ Once(b, T)
  <2>1. PICK i \in 1..Len(b) : b[i] \in T /\ \A k \in 1..Len(b) : b[k] \in T => k = i
    BY <1>1, <1>3 DEF Once
  <2>2. \A k \in 1..Len(a) : a[k] \notin T
    BY <1>1, <1>3 DEF Absent
  <2>3. i + Len(a) \in DOMAIN u /\ u[i + Len(a)] = b[i]
    BY <1>1, <2>1
  <2>4. ASSUME NEW k \in DOMAIN u, u[k] \in T PROVE k = i + Len(a)
    <3>1. CASE k <= Len(a)
      BY <1>1, <2>2, <2>4, <3>1
    <3>2. CASE ~(k <= Len(a))
      <4>1. k - Len(a) \in 1..Len(b) /\ u[k] = b[k - Len(a)]
        BY <1>1, <3>2
      <4>2. k - Len(a) = i
        BY <2>1, <2>4, <4>1
      <4>3. k \in Int /\ i \in Int /\ Len(a) \in Int
        BY <1>1
      <4> QED BY <4>2, <4>3
    <3> QED BY <3>1, <3>2
  <2> QED BY <2>1, <2>3, <2>4 DEF Once, u
<1> QED BY <1>2, <1>3

(* The entries behind the first.                                           *)
LEMMA TailOnce ==
    ASSUME NEW S, NEW q \in Seq(S), q # <<>>, NEW T
    PROVE  /\ Absent(q, T) <=> Head(q) \notin T /\ Absent(Tail(q), T)
           /\ Once(q, T) /\ Head(q) \in T => Absent(Tail(q), T)
           /\ Once(q, T) /\ Head(q) \notin T => Once(Tail(q), T)
<1> DEFINE t == Tail(q)
<1>1. /\ DOMAIN q = 1..Len(q) /\ Len(q) \in Nat /\ Len(q) > 0
      /\ DOMAIN t = 1..Len(q) - 1 /\ t \in Seq(S)
      /\ \A i \in 1..Len(q) - 1 : t[i] = q[i + 1]
      /\ Head(q) = q[1]
  OBVIOUS
<1> HIDE DEF t
<1>2. Absent(q, T) <=> Head(q) \notin T /\ Absent(t, T)
  <2>1. ASSUME Absent(q, T) PROVE Head(q) \notin T /\ Absent(t, T)
    BY <1>1, <2>1 DEF Absent
  <2>2. ASSUME Head(q) \notin T, Absent(t, T) PROVE Absent(q, T)
    <3> SUFFICES ASSUME NEW i \in 1..Len(q) PROVE q[i] \notin T
      BY <1>1 DEF Absent
    <3>1. CASE i = 1
      BY <1>1, <2>2, <3>1
    <3>2. CASE i # 1
      <4>1. i - 1 \in DOMAIN t /\ t[i - 1] = q[i]
        BY <1>1, <3>2
      <4> QED BY <2>2, <4>1 DEF Absent
    <3> QED BY <3>1, <3>2
  <2> QED BY <2>1, <2>2
<1>3. ASSUME Once(q, T)
      PROVE  (Head(q) \in T => Absent(t, T)) /\ (Head(q) \notin T => Once(t, T))
  <2>1. PICK i \in 1..Len(q) : q[i] \in T /\ \A k \in 1..Len(q) : q[k] \in T => k = i
    BY <1>1, <1>3 DEF Once
  <2>2. ASSUME NEW k \in DOMAIN t, t[k] \in T PROVE k + 1 = i
    BY <1>1, <2>1, <2>2
  <2>3. ASSUME Head(q) \in T PROVE Absent(t, T)
    <3>1. i = 1
      BY <1>1, <2>1, <2>3
    <3> QED BY <1>1, <2>2, <3>1 DEF Absent
  <2>4. ASSUME Head(q) \notin T PROVE Once(t, T)
    <3>1. i # 1
      BY <1>1, <2>1, <2>4
    <3>2. i - 1 \in DOMAIN t /\ t[i - 1] \in T
      BY <1>1, <2>1, <3>1
    <3>3. \A k \in DOMAIN t : t[k] \in T => k = i - 1
      BY <1>1, <2>1, <2>2
    <3> QED BY <3>2, <3>3 DEF Once
  <2> QED BY <2>3, <2>4
<1> QED BY <1>2, <1>3 DEF t

(* A step that replaces the first entry of a list.                         *)
LEMMA ReplaceFacts ==
    ASSUME NEW S, NEW q \in Seq(S), q # <<>>, NEW new \in Seq(S), NEW p, p = new \o Tail(q)
    PROVE  /\ p \in Seq(S)
           /\ ToSet(p) = ToSet(new) \cup ToSet(Tail(q))
           /\ ToSet(q) = {Head(q)} \cup ToSet(Tail(q))
           /\ Head(q) \in S
<1>1. Head(q) \in S /\ Tail(q) \in Seq(S) /\ ToSet(q) = {Head(q)} \cup ToSet(Tail(q))
  BY TailFacts
<1> QED BY <1>1, JoinFacts

(* What such a step does to the entries of a kind.                         *)
LEMMA ReplaceOnce ==
    ASSUME NEW S, NEW q \in Seq(S), q # <<>>, NEW new \in Seq(S), NEW T
    PROVE  /\ Absent(new, T) /\ (Absent(q, T) \/ (Once(q, T) /\ Head(q) \in T))
                => Absent(new \o Tail(q), T)
           /\ Absent(new, T) /\ Head(q) \notin T /\ Once(q, T) => Once(new \o Tail(q), T)
           /\ Once(new, T) /\ (Absent(q, T) \/ (Once(q, T) /\ Head(q) \in T))
                => Once(new \o Tail(q), T)
<1>1. Tail(q) \in Seq(S)
  BY TailFacts
<1> QED BY <1>1, JoinAbsent, JoinOnce, TailOnce

(* The tasks of one kind for every entry of a sequence.                    *)
LEMMA EachFacts ==
    ASSUME NEW S, NEW q \in Seq(S), NEW what, NEW T, NEW r,
           \A x \in S : <<what, x>> \in T <=> x = r
    PROVE  /\ Each(what, q) \in Seq({what} \X S)
           /\ \A x \in S : <<what, x>> \in ToSet(Each(what, q)) <=> x \in ToSet(q)
           /\ Absent(q, {r}) => Absent(Each(what, q), T)
           /\ Once(q, {r}) => Once(Each(what, q), T)
<1> DEFINE e == Each(what, q)
<1>1. /\ DOMAIN q = 1..Len(q) /\ Len(q) \in Nat
      /\ \A i \in 1..Len(q) : q[i] \in S
  OBVIOUS
<1>2. DOMAIN e = 1..Len(q) /\ \A i \in 1..Len(q) : e[i] = <<what, q[i]>>
  BY <1>1 DEF Each
<1>3. e \in Seq({what} \X S)
  BY <1>1 DEF Each
<1> HIDE DEF e
<1>4. \A i \in 1..Len(q) : e[i] \in T <=> q[i] \in {r}
  BY <1>1, <1>2
<1>5. \A x \in S : <<what, x>> \in ToSet(e) <=> x \in ToSet(q)
  BY <1>1, <1>2 DEF ToSet
<1>6. Absent(q, {r}) => Absent(e, T)
  BY <1>1, <1>2, <1>4 DEF Absent
<1>7. Once(q, {r}) => Once(e, T)
  BY <1>1, <1>2, <1>4 DEF Once
<1> QED BY <1>3, <1>5, <1>6, <1>7 DEF e

(* The same without a kind.                                                *)
LEMMA EachType ==
    ASSUME NEW S, NEW q \in Seq(S), NEW what
    PROVE  /\ Each(what, q) \in Seq({what} \X S)
           /\ \A x \in S : <<what, x>> \in ToSet(Each(what, q)) <=> x \in ToSet(q)
<1> DEFINE e == Each(what, q)
<1>1. /\ DOMAIN q = 1..Len(q) /\ Len(q) \in Nat
      /\ \A i \in 1..Len(q) : q[i] \in S
  OBVIOUS
<1>2. DOMAIN e = 1..Len(q) /\ \A i \in 1..Len(q) : e[i] = <<what, q[i]>>
  BY <1>1 DEF Each
<1>3. e \in Seq({what} \X S)
  BY <1>1 DEF Each
<1> HIDE DEF e
<1>5. \A x \in S : <<what, x>> \in ToSet(e) <=> x \in ToSet(q)
  BY <1>1, <1>2 DEF ToSet
<1> QED BY <1>3, <1>5 DEF e

-----------------------------------------------------------------------------
(* Types.                                                                  *)

(* The tasks by kind,                                                      *)
LEMMA TaskTypes ==
    /\ \A s \in Scopes : \A w \in {"open", "close", "unregister", "read", "climb"} :
          <<w, s>> \in Tasks
    /\ \A r \in Resources : \A w \in {"lease", "unlease", "take", "release", "finalize"} :
          <<w, r>> \in Tasks
    /\ \A r \in Resources, s \in Scopes : <<"register", r, s>> \in Tasks
BY DEF Tasks

(* and what they are about.                                                *)
LEMMA TaskFields ==
    ASSUME NEW t \in Tasks
    PROVE  /\ t[1] \in {"open", "close", "unregister", "read", "climb"}
                => t[2] \in Scopes /\ t = <<t[1], t[2]>>
           /\ t[1] \in {"lease", "unlease", "take", "release", "finalize"}
                => t[2] \in Resources /\ t = <<t[1], t[2]>>
           /\ t[1] = "register"
                => t[2] \in Resources /\ t[3] \in Scopes /\ t = <<"register", t[2], t[3]>>
<1>1. CASE t \in {"open", "close", "unregister", "read", "climb"} \X Scopes
  BY <1>1
<1>2. CASE t \in {"lease", "unlease", "take", "release", "finalize"} \X Resources
  BY <1>2
<1>3. CASE t \in {"register"} \X Resources \X Scopes
  BY <1>3
<1> QED BY <1>1, <1>2, <1>3 DEF Tasks

(* The task that a fiber does, and what replaces it.                       *)
LEMMA DoingFacts ==
    ASSUME TypeOK, NEW f \in Fibers, NEW what, Doing(f, what)
    PROVE  /\ todo[f] \in Seq(Tasks) /\ todo[f] # <<>>
           /\ Next1(f) \in Tasks /\ Next1(f) \in ToSet(todo[f])
           /\ Next1(f) = Head(todo[f]) /\ Next1(f)[1] = what
           /\ what \in {"open", "close", "unregister", "read", "climb"}
                => On(f) \in Scopes /\ Next1(f) = <<what, On(f)>>
           /\ what \in {"lease", "unlease", "take", "release", "finalize"}
                => On(f) \in Resources /\ Next1(f) = <<what, On(f)>>
           /\ what = "register"
                => /\ On(f) \in Resources /\ Next1(f)[3] \in Scopes
                   /\ Next1(f) = <<"register", On(f), Next1(f)[3]>>
<1>1. todo[f] \in Seq(Tasks) /\ todo[f] # <<>> /\ Next1(f) = Head(todo[f]) /\ Next1(f)[1] = what
  BY DEF TypeOK, Doing, Next1
<1>2. Head(todo[f]) \in Tasks /\ Head(todo[f]) \in ToSet(todo[f])
  BY <1>1, TailFacts
<1> QED BY <1>1, <1>2, TaskFields DEF On

(* The tasks of a fiber after a step of it.                                *)
LEMMA ReplaceType ==
    ASSUME TypeOK, NEW f \in Fibers, todo[f] # <<>>, NEW new \in Seq(Tasks), Replace(f, new)
    PROVE  /\ todo' \in [Fibers -> Seq(Tasks)]
           /\ todo'[f] = new \o Tail(todo[f])
           /\ \A g \in Fibers \ {f} : todo'[g] = todo[g]
<1>1. todo \in [Fibers -> Seq(Tasks)] /\ todo' = [todo EXCEPT ![f] = new \o Tail(todo[f])]
  BY DEF TypeOK, Replace
<1>2. new \o Tail(todo[f]) \in Seq(Tasks)
  BY <1>1, TailFacts, JoinFacts
<1> QED BY <1>1, <1>2

(* Lists of no task and of one.                                            *)
LEMMA SmallLists ==
    /\ <<>> \in Seq(Tasks)
    /\ \A t \in Tasks : <<t>> \in Seq(Tasks)
OBVIOUS

(* Lists of tasks for the scopes or resources of a list.                   *)
LEMMA EachTasks ==
    ASSUME NEW what
    PROVE  /\ \A q \in Seq(Scopes) : what \in {"close", "read"} => Each(what, q) \in Seq(Tasks)
           /\ \A q \in Seq(Resources) :
                 what \in {"lease", "unlease", "release"} => Each(what, q) \in Seq(Tasks)
<1>1. \A S, T : \A q \in Seq(S) : S \subseteq T => q \in Seq(T)
  OBVIOUS
<1>2. ASSUME NEW q \in Seq(Scopes), what \in {"close", "read"} PROVE Each(what, q) \in Seq(Tasks)
  <2>1. Each(what, q) \in Seq({what} \X Scopes)
    BY EachType
  <2>2. {what} \X Scopes \subseteq Tasks
    BY <1>2 DEF Tasks
  <2> QED BY <1>1, <2>1, <2>2
<1>3. ASSUME NEW q \in Seq(Resources), what \in {"lease", "unlease", "release"}
      PROVE  Each(what, q) \in Seq(Tasks)
  <2>1. Each(what, q) \in Seq({what} \X Resources)
    BY EachType
  <2>2. {what} \X Resources \subseteq Tasks
    BY <1>3 DEF Tasks
  <2> QED BY <1>1, <2>1, <2>2
<1> QED BY <1>2, <1>3

(* The state of a scope without children and resources.                    *)
LEMMA EmptyType == \A tag \in Tags : Empty(tag) \in ScopeState
BY DEF Empty, ScopeState

(* The tasks of a fiber that begins an operation.                          *)
LEMMA BeginType ==
    ASSUME TypeOK, NEW f \in Fibers, NEW tasks \in Seq(Tasks), NEW b \in BOOLEAN, Begin(f, tasks, b)
    PROVE  /\ todo' \in [Fibers -> Seq(Tasks)] /\ masked' \in [Fibers -> BOOLEAN]
           /\ todo[f] = <<>> /\ todo'[f] = tasks /\ masked'[f] = b
           /\ \A g \in Fibers \ {f} : todo'[g] = todo[g] /\ masked'[g] = masked[g]
<1>1. todo \in [Fibers -> Seq(Tasks)] /\ masked \in [Fibers -> BOOLEAN]
  BY DEF TypeOK
<1> QED BY <1>1 DEF Begin

(* Each kind of step keeps the types.                                      *)
LEMMA StartTypes ==
    ASSUME TypeOK, NEW f \in Fibers, Start(f)
    PROVE  TypeOK'
<1> USE DEF TypeOK
<1>1. ASSUME NEW s \in Scopes, StartOpen(f, s) PROVE TypeOK'
  <2>1. << <<"open", s>> >> \in Seq(Tasks)
    BY TaskTypes, SmallLists
  <2> QED BY <1>1, <2>1, BeginType DEF StartOpen
<1>2. ASSUME NEW s \in Scopes, StartClose(f, s) PROVE TypeOK'
  <2>1. << <<"close", s>> >> \in Seq(Tasks)
    BY TaskTypes, SmallLists
  <2>2. (s = Root) \in BOOLEAN
    OBVIOUS
  <2> QED BY <1>2, <2>1, <2>2, BeginType DEF StartClose
<1>3. ASSUME NEW s \in Scopes, StartLease(f, s) PROVE TypeOK'
  <2>1. Each("read", scope[s].children) \in Seq(Tasks)
    BY EachTasks DEF ScopeState
  <2>2. Append(Each("read", scope[s].children), <<"climb", s>>) \in Seq(Tasks)
    <3>1. <<"climb", s>> \in Tasks
      BY TaskTypes
    <3> QED BY ONLY <2>1, <3>1, AppendFacts
  <2> QED BY <1>3, <2>2, BeginType DEF StartLease
<1>4. ASSUME NEW s \in Scopes, NEW r \in Resources, Acquire(f, r, s) PROVE TypeOK'
  <2>1. << <<"register", r, s>> >> \in Seq(Tasks)
    BY TaskTypes, SmallLists
  <2>2. resource' \in [Resources -> ResourceState]
    BY <1>4 DEF Acquire, ResourceState
  <2> QED BY <1>4, <2>1, <2>2, BeginType DEF Acquire
<1>5. ASSUME CancelLease(f) PROVE TypeOK'
  <2>1. Each("unlease", held[f]) \in Seq(Tasks)
    BY EachTasks
  <2>2. held' \in [Fibers -> Seq(Resources)]
    BY <1>5 DEF CancelLease
  <2> QED BY <1>5, <2>1, <2>2, BeginType DEF CancelLease
<1> QED BY <1>1, <1>2, <1>3, <1>4, <1>5 DEF Start

(* So does open(),                                                         *)
LEMMA OpenTypes ==
    ASSUME TypeOK, NEW f \in Fibers, OpenChild(f) \/ OpenNone(f)
    PROVE  TypeOK'
<1> USE DEF TypeOK
<1>1. Doing(f, "open")
  BY DEF OpenChild, OpenNone
<1> DEFINE s == On(f)
<1>2. s \in Scopes /\ todo[f] # <<>>
  BY <1>1, DoingFacts
<1>3. \A new \in Seq(Tasks) : Replace(f, new) => todo' \in [Fibers -> Seq(Tasks)]
  BY <1>2, ReplaceType
<1>4. << <<"open", parent[s]>> >> \in Seq(Tasks) /\ <<>> \in Seq(Tasks)
  BY <1>2, TaskTypes, SmallLists
<1>5. todo' \in [Fibers -> Seq(Tasks)]
  BY <1>3, <1>4 DEF OpenChild, OpenNone
<1>6. CASE UNCHANGED <<scope, parent>>
  BY <1>5, <1>6 DEF OpenChild, OpenNone
<1>7. ASSUME NEW n \in Scopes,
             scope' = [scope EXCEPT ![s].children = Append(@, n), ![n].tag = "open"],
             parent' = [parent EXCEPT ![n] = s]
      PROVE  TypeOK'
  <2>0. Append(scope[s].children, n) \in Seq(Scopes) /\ "open" \in Tags
    BY <1>2 DEF ScopeState, Tags
  <2> DEFINE one == [scope EXCEPT ![s].children = Append(@, n)]
  <2>a. one \in [Scopes -> ScopeState]
    BY <1>2, <2>0 DEF ScopeState
  <2>b. scope' = [one EXCEPT ![n].tag = "open"]
    BY <1>7
  <2> HIDE DEF one
  <2>1. scope' \in [Scopes -> ScopeState]
    BY <2>0, <2>a, <2>b DEF ScopeState
  <2>2. parent' \in [Scopes -> Scopes]
    BY <1>2, <1>7
  <2>3. UNCHANGED <<resource, masked, held, runs, abandoned>>
    BY DEF OpenChild, OpenNone
  <2> QED BY <1>5, <2>1, <2>2, <2>3
<1> QED BY <1>6, <1>7 DEF OpenChild, OpenNone

(* so do the other updates of scopes,                                      *)
LEMMA ScopeTypes ==
    ASSUME TypeOK, NEW f \in Fibers, Register(f) \/ Close(f) \/ Unregister(f)
    PROVE  TypeOK'
<1> USE DEF TypeOK
<1>1. CASE Register(f)
  <2> DEFINE r == On(f)
             s == Next1(f)[3]
  <2>1. Doing(f, "register")
    BY <1>1 DEF Register
  <2>2. r \in Resources /\ s \in Scopes /\ todo[f] # <<>>
    BY <2>1, DoingFacts
  <2>3. << <<"finalize", r>> >> \in Seq(Tasks) /\ <<>> \in Seq(Tasks)
    BY <2>2, TaskTypes, SmallLists
  <2>4. todo' \in [Fibers -> Seq(Tasks)]
    BY <1>1, <2>2, <2>3, ReplaceType DEF Register
  <2>5. <<r>> \o scope[s].resources \in Seq(Resources)
    BY <2>2 DEF ScopeState
  <2>6. [scope EXCEPT ![s].resources = <<r>> \o @] \in [Scopes -> ScopeState]
    BY <2>2, <2>5 DEF ScopeState
  <2>7. scope' \in [Scopes -> ScopeState]
    <3> HIDE DEF s, r
    <3> QED BY <1>1, <2>6 DEF Register, s, r
  <2> QED BY <1>1, <2>4, <2>7 DEF Register
<1>2. CASE Close(f)
  <2> DEFINE s == On(f)
             a == Each("close", scope[s].children)
             b == Each("release", scope[s].resources)
             c == << <<"unregister", s>> >>
  <2>1. Doing(f, "close")
    BY <1>2 DEF Close
  <2>2. s \in Scopes /\ todo[f] # <<>>
    BY <2>1, DoingFacts
  <2>3. a \in Seq(Tasks) /\ b \in Seq(Tasks) /\ c \in Seq(Tasks) /\ <<>> \in Seq(Tasks)
    BY <2>2, TaskTypes, SmallLists, EachTasks DEF ScopeState
  <2>4. a \o b \o c \in Seq(Tasks)
    <3> HIDE DEF a, b, c
    <3> QED BY <2>3
  <2>5. todo' \in [Fibers -> Seq(Tasks)]
    BY <1>2, <2>2, <2>3, <2>4, ReplaceType DEF Close
  <2>6. scope' \in [Scopes -> ScopeState]
    BY <1>2, <2>2, EmptyType DEF Close, Tags
  <2> QED BY <1>2, <2>5, <2>6 DEF Close
<1>3. CASE Unregister(f)
  <2> DEFINE s == On(f)
  <2>1. Doing(f, "unregister")
    BY <1>3 DEF Unregister
  <2>2. s \in Scopes /\ todo[f] # <<>>
    BY <2>1, DoingFacts
  <2>3. todo' \in [Fibers -> Seq(Tasks)]
    BY <1>3, <2>2, SmallLists, ReplaceType DEF Unregister
  <2>4. Without(scope[parent[s]].children, s) \in Seq(Scopes)
    BY <2>2, WithoutType DEF ScopeState
  <2>5. scope' \in [Scopes -> ScopeState]
    BY <1>3, <2>2, <2>4 DEF Unregister, ScopeState
  <2> QED BY <1>3, <2>3, <2>5 DEF Unregister
<1> QED BY <1>1, <1>2, <1>3

(* so do those of resources.                                               *)
LEMMA ResourceTypes ==
    ASSUME TypeOK, NEW f \in Fibers, Release(f) \/ Finalize(f) \/ TakeFinalizer(f)
    PROVE  TypeOK'
<1> USE DEF TypeOK
<1> DEFINE r == On(f)
<1>1. r \in Resources /\ todo[f] # <<>>
  BY DoingFacts DEF Release, Finalize, TakeFinalizer
<1>2. << <<"finalize", r>> >> \in Seq(Tasks) /\ <<>> \in Seq(Tasks)
  BY <1>1, TaskTypes, SmallLists
<1>3. todo' \in [Fibers -> Seq(Tasks)]
  BY <1>1, <1>2, ReplaceType DEF Release, Finalize, TakeFinalizer
<1>a. \A o \in BOOLEAN :
        [resource EXCEPT ![r].open = o] \in [Resources -> ResourceState]
  BY <1>1 DEF ResourceState
<1>b. \A o, d \in BOOLEAN :
        [resource EXCEPT ![r].open = o, ![r].finalizer = d] \in [Resources -> ResourceState]
  BY <1>1 DEF ResourceState
<1>c. \A d \in BOOLEAN :
        [resource EXCEPT ![r].finalizer = d] \in [Resources -> ResourceState]
  BY <1>1 DEF ResourceState
<1>d. [runs EXCEPT ![r] = @ + 1] \in [Resources -> Nat]
  BY <1>1
<1> HIDE DEF r
<1>4. resource' \in [Resources -> ResourceState]
  <2>1. CASE Release(f)
    BY <2>1, <1>a, <1>b DEF Release, r
  <2>2. CASE Finalize(f)
    BY <2>2 DEF Finalize
  <2>3. CASE TakeFinalizer(f)
    BY <2>3, <1>c DEF TakeFinalizer, r
  <2> QED BY <2>1, <2>2, <2>3
<1>5. runs' \in [Resources -> Nat]
  BY <1>d DEF Release, Finalize, TakeFinalizer, r
<1> QED BY <1>3, <1>4, <1>5 DEF Release, Finalize, TakeFinalizer

(* The effect of ReadResources on the reader's tasks.                      *)
Up(f) == IF Doing(f, "climb") THEN Ancestor(On(f)) ELSE <<>>
Found(f) == IF IsOpen(On(f)) THEN Each("lease", scope[On(f)].resources) ELSE <<>>

(* A scope read for a lease: the types, and what the tasks become.         *)
LEMMA ReadTypes ==
    ASSUME TypeOK, NEW f \in Fibers, ReadResources(f)
    PROVE  /\ TypeOK'
           /\ On(f) \in Scopes /\ todo[f] # <<>>
           /\ Up(f) \in Seq(Tasks) /\ Found(f) \in Seq(Tasks)
           /\ todo'[f] = Up(f) \o Tail(todo[f]) \o Found(f)
           /\ \A g \in Fibers \ {f} : todo'[g] = todo[g]
<1> USE DEF TypeOK
<1>1. On(f) \in Scopes /\ todo[f] # <<>> /\ todo[f] \in Seq(Tasks)
  BY DoingFacts DEF ReadResources
<1>2. Up(f) \in Seq(Tasks)
  BY <1>1, TaskTypes, SmallLists DEF Up, Ancestor
<1>3. Found(f) \in Seq(Tasks)
  BY <1>1, SmallLists, EachTasks DEF Found, ScopeState
<1>4. Up(f) \o Tail(todo[f]) \o Found(f) \in Seq(Tasks)
  BY <1>1, <1>2, <1>3, TailFacts, JoinFacts
<1>5. todo' = [todo EXCEPT ![f] = Up(f) \o Tail(todo[f]) \o Found(f)]
  BY DEF ReadResources, Up, Found
<1>6. UNCHANGED <<scope, parent, resource, masked, held, runs, abandoned>>
  BY DEF ReadResources
<1>7. /\ todo' \in [Fibers -> Seq(Tasks)]
      /\ todo'[f] = Up(f) \o Tail(todo[f]) \o Found(f)
      /\ \A g \in Fibers \ {f} : todo'[g] = todo[g]
  BY <1>4, <1>5
<1>8. TypeOK'
  BY <1>6, <1>7
<1> QED BY <1>1, <1>2, <1>3, <1>7, <1>8

-----------------------------------------------------------------------------
(* What the operations consist of. A task that reads or takes a lease is   *)
(* never mixed with others; what may be done outside of an uncancelable    *)
(* region belongs to open() and close().                                   *)
LeasingKinds == {"read", "climb", "lease"}

ClosingKinds == {"open", "close", "unregister", "release", "finalize"}

Operations ==
    \A f \in Fibers :
        /\ masked[f] \/ \A t \in ToSet(todo[f]) : t[1] \in ClosingKinds
        /\ \/ \A t \in ToSet(todo[f]) : t[1] \in LeasingKinds
           \/ \A t \in ToSet(todo[f]) : t[1] \notin LeasingKinds

(* A step keeps the operations as they are if what it leads to is of the   *)
(* kind of what it did.                                                    *)
LEMMA ReplaceKinds ==
    ASSUME TypeOK, Operations, NEW f \in Fibers, todo[f] # <<>>, UNCHANGED masked,
           NEW new \in Seq(Tasks), Replace(f, new),
           \A t \in ToSet(new) : /\ t[1] \notin LeasingKinds
                                 /\ Head(todo[f])[1] \notin LeasingKinds
                                 /\ Head(todo[f])[1] \in ClosingKinds => t[1] \in ClosingKinds
    PROVE  Operations'
<1>1. todo[f] \in Seq(Tasks)
  BY DEF TypeOK
<1>a. todo'[f] = new \o Tail(todo[f]) /\ \A g \in Fibers \ {f} : todo'[g] = todo[g]
  BY ReplaceType
<1>b. new \in Seq(Tasks) /\ todo[f] # <<>>
  OBVIOUS
<1>2. /\ ToSet(todo[f]) = {Head(todo[f])} \cup ToSet(Tail(todo[f]))
      /\ ToSet(todo'[f]) = ToSet(new) \cup ToSet(Tail(todo[f]))
      /\ \A g \in Fibers \ {f} : todo'[g] = todo[g]
  <2>2. Tail(todo[f]) \in Seq(Tasks) /\ ToSet(todo[f]) = {Head(todo[f])} \cup ToSet(Tail(todo[f]))
    BY ONLY <1>1, <1>b, TailFacts
  <2>3. ToSet(new \o Tail(todo[f])) = ToSet(new) \cup ToSet(Tail(todo[f]))
    BY ONLY <1>b, <2>2, JoinFacts
  <2> QED BY <1>a, <2>2, <2>3
<1>3. \A g \in Fibers : masked'[g] = masked[g]
  OBVIOUS
<1> SUFFICES ASSUME NEW g \in Fibers
             PROVE  /\ masked'[g] \/ \A t \in ToSet(todo'[g]) : t[1] \in ClosingKinds
                    /\ \/ \A t \in ToSet(todo'[g]) : t[1] \in LeasingKinds
                       \/ \A t \in ToSet(todo'[g]) : t[1] \notin LeasingKinds
  BY DEF Operations
<1>4. CASE g # f
  BY <1>2, <1>3, <1>4 DEF Operations
<1>5. CASE g = f
  BY <1>2, <1>3, <1>5 DEF Operations
<1> QED BY <1>4, <1>5

(* So does a new operation of one kind.                                    *)
LEMMA BeginKinds ==
    ASSUME TypeOK, Operations, NEW f \in Fibers, NEW tasks \in Seq(Tasks), NEW b \in BOOLEAN,
           Begin(f, tasks, b),
           b \/ \A t \in ToSet(tasks) : t[1] \in ClosingKinds,
           \/ \A t \in ToSet(tasks) : t[1] \in LeasingKinds
           \/ \A t \in ToSet(tasks) : t[1] \notin LeasingKinds
    PROVE  Operations'
<1>1. /\ todo'[f] = tasks /\ masked'[f] = b
      /\ \A g \in Fibers \ {f} : todo'[g] = todo[g] /\ masked'[g] = masked[g]
  BY BeginType
<1> QED BY <1>1 DEF Operations

(* open() leads to open(),                                                 *)
LEMMA OpenKinds ==
    ASSUME TypeOK, Operations, NEW f \in Fibers, OpenChild(f) \/ OpenNone(f)
    PROVE  Operations'
<1>1. Doing(f, "open")
  BY DEF OpenChild, OpenNone
<1>2. On(f) \in Scopes /\ todo[f] # <<>> /\ Head(todo[f])[1] = "open"
  BY <1>1, DoingFacts
<1>a. <<"open", parent[On(f)]>> \in Tasks
  BY <1>2, TaskTypes DEF TypeOK
<1>3. << <<"open", parent[On(f)]>> >> \in Seq(Tasks) /\ <<>> \in Seq(Tasks)
      /\ ToSet(<< <<"open", parent[On(f)]>> >>) = {<<"open", parent[On(f)]>>}
  BY ONLY <1>a, SingleFacts, SmallLists
<1>4. ToSet(<<>>) = {}
  BY DEF ToSet
<1>5. UNCHANGED masked /\ (Replace(f, <<>>) \/ Replace(f, << <<"open", parent[On(f)]>> >>))
  BY DEF OpenChild, OpenNone
<1>6. \A t \in {<<"open", parent[On(f)]>>} : t[1] = "open"
  OBVIOUS
<1>7. CASE Replace(f, <<>>)
  BY <1>2, <1>3, <1>4, <1>5, <1>7, ReplaceKinds
<1>8. CASE Replace(f, << <<"open", parent[On(f)]>> >>)
  BY <1>2, <1>3, <1>5, <1>6, <1>8, ReplaceKinds DEF LeasingKinds, ClosingKinds
<1> QED BY <1>5, <1>7, <1>8

(* releasing to finalizing.                                                *)
LEMMA FinalKinds ==
    ASSUME TypeOK, Operations, NEW f \in Fibers,
           \/ Register(f) \/ Release(f) \/ Finalize(f) \/ TakeFinalizer(f)
           \/ Unlease(f) \/ Unregister(f) \/ LeaseResource(f)
    PROVE  Operations'
<1> DEFINE r == On(f)
<1>1. todo[f] # <<>>
  BY DEF Register, Release, Finalize, TakeFinalizer, Unlease, Unregister, LeaseResource, Doing
<1>2. ToSet(<<>>) = {} /\ <<>> \in Seq(Tasks)
  BY DEF ToSet
<1>3. UNCHANGED masked
  BY DEF Register, Release, Finalize, TakeFinalizer, Unlease, Unregister, LeaseResource
<1>4. CASE Replace(f, <<>>)
  BY <1>1, <1>2, <1>3, <1>4, ReplaceKinds
<1>5. CASE ~Replace(f, <<>>)
  <2>1. \/ Replace(f, << <<"finalize", r>> >>)
        \/ Replace(f, << <<"take", r>> >>) /\ Doing(f, "unlease")
    BY <1>5 DEF Register, Release, Finalize, TakeFinalizer, Unlease, Unregister, LeaseResource
  <2>2. Doing(f, "register") \/ Doing(f, "release") \/ Doing(f, "take") \/ Doing(f, "unlease")
    BY <1>5 DEF Register, Release, Finalize, TakeFinalizer, Unlease, Unregister, LeaseResource
  <2>3. /\ Head(todo[f])[1] \in {"register", "release", "take", "unlease"}
        /\ Doing(f, "unlease") => Head(todo[f])[1] = "unlease"
        /\ r \in Resources
    BY <2>2, DoingFacts
  <2>4. \A w \in {"finalize", "take"} :
           << <<w, r>> >> \in Seq(Tasks) /\ ToSet(<< <<w, r>> >>) = {<<w, r>>}
    BY <2>3, TaskTypes, SingleFacts
  <2> HIDE DEF r
  <2>5. CASE Replace(f, << <<"finalize", r>> >>)
    BY <1>1, <1>3, <2>3, <2>4, <2>5, ReplaceKinds DEF LeasingKinds, ClosingKinds
  <2>6. CASE Replace(f, << <<"take", r>> >>) /\ Doing(f, "unlease")
    BY <1>1, <1>3, <2>3, <2>4, <2>6, ReplaceKinds DEF LeasingKinds, ClosingKinds
  <2> QED BY <2>1, <2>5, <2>6
<1> QED BY <1>4, <1>5

(* What a fiber that closes a scope has to do instead.                     *)
CloseTasks(s) ==
    Each("close", scope[s].children) \o Each("release", scope[s].resources)
        \o << <<"unregister", s>> >>

(* These are tasks for the children, for the resources, and to leave the   *)
(* parent; a resource that was registered once is released once.           *)
LEMMA CloseTasksFacts ==
    ASSUME TypeOK, NEW s \in Scopes
    PROVE  /\ CloseTasks(s) \in Seq(Tasks)
           /\ ToSet(CloseTasks(s)) = ToSet(Each("close", scope[s].children))
                 \cup ToSet(Each("release", scope[s].resources)) \cup {<<"unregister", s>>}
           /\ \A t \in ToSet(Each("close", scope[s].children)) :
                 t[1] = "close" /\ t[2] \in Scopes
           /\ \A t \in ToSet(Each("release", scope[s].resources)) :
                 t[1] = "release" /\ t[2] \in Resources
           /\ \A c \in Scopes : <<"close", c>> \in ToSet(CloseTasks(s))
                                   <=> c \in ToSet(scope[s].children)
           /\ \A r \in Resources :
                 /\ Absent(scope[s].resources, {r}) => Absent(CloseTasks(s), Custodial(r))
                 /\ Once(scope[s].resources, {r}) => Once(CloseTasks(s), Custodial(r))
           /\ \A t \in ToSet(CloseTasks(s)) : t[1] \in {"close", "release", "unregister"}
<1> DEFINE a == Each("close", scope[s].children)
           b == Each("release", scope[s].resources)
           c == << <<"unregister", s>> >>
<1>1. scope[s].children \in Seq(Scopes) /\ scope[s].resources \in Seq(Resources)
  BY DEF TypeOK, ScopeState
<1>2. a \in Seq(Tasks) /\ b \in Seq(Tasks) /\ c \in Seq(Tasks) /\ ToSet(c) = {<<"unregister", s>>}
  BY <1>1, TaskTypes, EachTasks, SingleFacts
<1>3. a \in Seq({"close"} \X Scopes) /\ b \in Seq({"release"} \X Resources)
  BY <1>1, EachType
<1>4. /\ \A x \in Scopes : <<"close", x>> \in ToSet(a) <=> x \in ToSet(scope[s].children)
      /\ \A x \in Resources : <<"release", x>> \in ToSet(b) <=> x \in ToSet(scope[s].resources)
  BY <1>1, EachType
<1>5. (\A t \in ToSet(a) : t \in {"close"} \X Scopes)
      /\ (\A t \in ToSet(b) : t \in {"release"} \X Resources)
  BY <1>3 DEF ToSet
<1>6. ASSUME NEW r \in Resources
      PROVE  /\ Absent(scope[s].resources, {r}) => Absent(b, Custodial(r))
             /\ Once(scope[s].resources, {r}) => Once(b, Custodial(r))
             /\ Absent(a, Custodial(r)) /\ Absent(c, Custodial(r))
  <2>1. \A x \in Resources : <<"release", x>> \in Custodial(r) <=> x = r
    BY DEF Custodial
  <2>2. \A t : t \in Custodial(r) => t[1] \in {"release", "take", "finalize", "register"}
    BY DEF Custodial
  <2>a. \A t \in ToSet(a) : t[1] = "close"
    BY <1>5
  <2>b. \A t \in ToSet(c) : t[1] = "unregister"
    BY <1>2
  <2> HIDE DEF a, c
  <2>3. Absent(a, Custodial(r)) /\ Absent(c, Custodial(r))
    <3>1. ToSet(a) \cap Custodial(r) = {}
      BY <2>2, <2>a
    <3>2. ToSet(c) \cap Custodial(r) = {}
      BY <2>2, <2>b
    <3> QED BY ONLY <1>2, <3>1, <3>2, AbsentSet
  <2> HIDE DEF b
  <2> QED BY <1>1, <2>1, <2>3, EachFacts DEF b
<1>7. CloseTasks(s) = a \o b \o c
  BY DEF CloseTasks
<1> HIDE DEF a, b, c
<1>8. a \o b \in Seq(Tasks) /\ ToSet(a \o b) = ToSet(a) \cup ToSet(b)
  BY <1>2, JoinFacts
<1>9. a \o b \o c \in Seq(Tasks) /\ ToSet(a \o b \o c) = ToSet(a) \cup ToSet(b) \cup ToSet(c)
  BY <1>2, <1>8, JoinFacts
<1>10. ASSUME NEW r \in Resources
       PROVE  /\ Absent(scope[s].resources, {r}) => Absent(CloseTasks(s), Custodial(r))
              /\ Once(scope[s].resources, {r}) => Once(CloseTasks(s), Custodial(r))
  <2>1. /\ Absent(scope[s].resources, {r}) => Absent(a \o b, Custodial(r))
        /\ Once(scope[s].resources, {r}) => Once(a \o b, Custodial(r))
    BY ONLY <1>2, <1>6, JoinAbsent, JoinOnce, r \in Resources
  <2>2. /\ Absent(scope[s].resources, {r}) => Absent(a \o b \o c, Custodial(r))
        /\ Once(scope[s].resources, {r}) => Once(a \o b \o c, Custodial(r))
    BY ONLY <1>2, <1>6, <1>8, <2>1, JoinAbsent, JoinOnce, r \in Resources
  <2> QED BY ONLY <1>7, <2>2
<1>a. \A t \in ToSet(a) : t[1] = "close" /\ t[2] \in Scopes
  BY <1>5
<1>b. \A t \in ToSet(b) : t[1] = "release" /\ t[2] \in Resources
  BY <1>5
<1>11. \A x \in Scopes : <<"close", x>> \in ToSet(CloseTasks(s)) <=> x \in ToSet(scope[s].children)
  <2>1. \A x \in Scopes : <<"close", x>> \notin ToSet(b) /\ <<"close", x>> # <<"unregister", s>>
    BY <1>b
  <2>2. ToSet(CloseTasks(s)) = ToSet(a) \cup ToSet(b) \cup {<<"unregister", s>>}
    BY <1>2, <1>7, <1>9
  <2> QED BY <1>4, <2>1, <2>2
<1>12. \A t \in ToSet(CloseTasks(s)) : t[1] \in {"close", "release", "unregister"}
  BY <1>2, <1>7, <1>9, <1>a, <1>b
<1>13. /\ CloseTasks(s) \in Seq(Tasks)
       /\ ToSet(CloseTasks(s)) = ToSet(a) \cup ToSet(b) \cup {<<"unregister", s>>}
  BY <1>2, <1>7, <1>9
<1> QED BY <1>a, <1>b, <1>10, <1>11, <1>12, <1>13 DEF a, b, c

(* close() leads to closing the children.                                  *)
LEMMA CloseKinds ==
    ASSUME TypeOK, Operations, NEW f \in Fibers, Close(f)
    PROVE  Operations'
<1>1. On(f) \in Scopes /\ todo[f] # <<>> /\ Head(todo[f])[1] = "close"
  BY DoingFacts DEF Close
<1>2. ToSet(<<>>) = {} /\ <<>> \in Seq(Tasks) /\ UNCHANGED masked
  BY DEF ToSet, Close
<1>3. /\ CloseTasks(On(f)) \in Seq(Tasks)
      /\ \A t \in ToSet(CloseTasks(On(f))) : t[1] \in {"close", "release", "unregister"}
  BY <1>1, CloseTasksFacts
<1>4. Replace(f, <<>>) \/ Replace(f, CloseTasks(On(f)))
  BY DEF Close, CloseTasks
<1> QED BY <1>1, <1>2, <1>3, <1>4, ReplaceKinds DEF LeasingKinds, ClosingKinds

(* Reading leads to reading the ancestors and to leasing what was found.   *)
LEMMA ReadKinds ==
    ASSUME TypeOK, Operations, NEW f \in Fibers, ReadResources(f)
    PROVE  /\ Operations'
           /\ \A t \in ToSet(todo[f]) \cup ToSet(todo'[f]) : t[1] \in LeasingKinds
           /\ \A t \in ToSet(todo'[f]) : t \in ToSet(todo[f]) \/ t[1] = "climb" \/ t \in ToSet(Found(f))
           /\ \A t \in ToSet(Found(f)) : t[1] = "lease" /\ t[2] \in ToSet(scope[On(f)].resources)
<1>1. /\ On(f) \in Scopes /\ todo[f] # <<>> /\ todo[f] \in Seq(Tasks)
      /\ Head(todo[f])[1] \in LeasingKinds
  BY DoingFacts DEF ReadResources, LeasingKinds
<1>2. /\ Up(f) \in Seq(Tasks) /\ Found(f) \in Seq(Tasks)
      /\ todo'[f] = Up(f) \o Tail(todo[f]) \o Found(f)
      /\ \A g \in Fibers \ {f} : todo'[g] = todo[g]
  BY ReadTypes
<1>3. Tail(todo[f]) \in Seq(Tasks) /\ ToSet(todo[f]) = {Head(todo[f])} \cup ToSet(Tail(todo[f]))
  BY ONLY <1>1, TailFacts
<1>4. /\ Up(f) \o Tail(todo[f]) \in Seq(Tasks)
      /\ ToSet(Up(f) \o Tail(todo[f])) = ToSet(Up(f)) \cup ToSet(Tail(todo[f]))
  BY ONLY <1>2, <1>3, JoinFacts
<1>5. ToSet(todo'[f]) = ToSet(Up(f)) \cup ToSet(Tail(todo[f])) \cup ToSet(Found(f))
  <2>1. ToSet((Up(f) \o Tail(todo[f])) \o Found(f)) = ToSet(Up(f) \o Tail(todo[f])) \cup ToSet(Found(f))
    <3> DEFINE u == Up(f) \o Tail(todo[f])
               v == Found(f)
    <3>1. u \in Seq(Tasks) /\ v \in Seq(Tasks)
      BY <1>2, <1>4
    <3>2. ToSet(u \o v) = ToSet(u) \cup ToSet(v)
      <4> HIDE DEF u, v
      <4> QED BY ONLY <3>1, JoinFacts
    <3> QED BY <3>2
  <2> QED BY <1>2, <1>4, <2>1
<1>6. \A t \in ToSet(Up(f)) : t[1] = "climb"
  <2>1. CASE Up(f) = <<>>
    BY <2>1 DEF ToSet
  <2>2. CASE Up(f) # <<>>
    <3>1. Up(f) = << <<"climb", parent[On(f)]>> >>
      BY <2>2 DEF Up, Ancestor
    <3>2. <<"climb", parent[On(f)]>> \in Tasks
      BY <1>1, TaskTypes DEF TypeOK
    <3>3. ToSet(Up(f)) = {<<"climb", parent[On(f)]>>}
      BY ONLY <3>1, <3>2, SingleFacts
    <3> QED BY <3>3
  <2> QED BY <2>1, <2>2
<1>7. \A t \in ToSet(Found(f)) : t[1] = "lease" /\ t[2] \in ToSet(scope[On(f)].resources)
  <2>1. CASE Found(f) = <<>>
    BY <2>1 DEF ToSet
  <2>2. CASE Found(f) # <<>>
    <3>1. Found(f) = Each("lease", scope[On(f)].resources)
      BY <2>2 DEF Found
    <3>2. scope[On(f)].resources \in Seq(Resources)
      BY <1>1 DEF TypeOK, ScopeState
    <3>3. /\ Found(f) \in Seq({"lease"} \X Resources)
          /\ \A x \in Resources : <<"lease", x>> \in ToSet(Found(f))
                                    <=> x \in ToSet(scope[On(f)].resources)
      BY ONLY <3>1, <3>2, EachType
    <3>4. \A t \in ToSet(Found(f)) : t \in {"lease"} \X Resources
      BY <3>3 DEF ToSet
    <3>5. \A t \in {"lease"} \X Resources : t[1] = "lease" /\ t[2] \in Resources /\ t = <<"lease", t[2]>>
      OBVIOUS
    <3> QED BY <3>3, <3>4, <3>5
  <2> QED BY <2>1, <2>2
<1>8. \A t \in ToSet(todo[f]) : t[1] \in LeasingKinds
  BY <1>1, <1>3 DEF Operations
<1>9. \A t \in ToSet(todo'[f]) : t[1] \in LeasingKinds
  BY <1>3, <1>5, <1>6, <1>7, <1>8 DEF LeasingKinds
<1>10. masked[f] /\ UNCHANGED masked
  BY <1>1, <1>3 DEF Operations, LeasingKinds, ClosingKinds, ReadResources
<1>11. Operations'
  BY <1>2, <1>9, <1>10 DEF Operations
<1>12. \A t \in ToSet(todo'[f]) : t \in ToSet(todo[f]) \/ t[1] = "climb" \/ t \in ToSet(Found(f))
  BY <1>3, <1>5, <1>6
<1> QED BY <1>7, <1>8, <1>9, <1>11, <1>12

(* Each operation begins with tasks of its kind.                           *)
LEMMA StartKinds ==
    ASSUME TypeOK, Operations, NEW f \in Fibers, Start(f)
    PROVE  Operations'
<1>1. ASSUME NEW t \in Tasks, NEW b \in BOOLEAN, Begin(f, <<t>>, b),
             b \/ t[1] \in ClosingKinds, t[1] \notin LeasingKinds
      PROVE  Operations'
  <2>1. <<t>> \in Seq(Tasks) /\ ToSet(<<t>>) = {t}
    BY ONLY t \in Tasks, SingleFacts
  <2> QED BY <1>1, <2>1, BeginKinds
<1>2. ASSUME NEW s \in Scopes, StartOpen(f, s) PROVE Operations'
  BY <1>1, <1>2, TaskTypes DEF StartOpen, LeasingKinds, ClosingKinds
<1>3. ASSUME NEW s \in Scopes, StartClose(f, s) PROVE Operations'
  <2>1. (s = Root) \in BOOLEAN
    OBVIOUS
  <2> QED BY <1>1, <1>3, <2>1, TaskTypes DEF StartClose, LeasingKinds, ClosingKinds
<1>4. ASSUME NEW s \in Scopes, NEW r \in Resources, Acquire(f, r, s) PROVE Operations'
  BY <1>1, <1>4, TaskTypes DEF Acquire, LeasingKinds, ClosingKinds
<1>5. ASSUME CancelLease(f) PROVE Operations'
  <2>1. held[f] \in Seq(Resources) /\ Each("unlease", held[f]) \in Seq(Tasks)
    BY EachTasks DEF TypeOK
  <2>2. Each("unlease", held[f]) \in Seq({"unlease"} \X Resources)
    BY ONLY <2>1, EachType
  <2>3. \A t \in ToSet(Each("unlease", held[f])) : t \in {"unlease"} \X Resources
    BY <2>2 DEF ToSet
  <2>4. \A t \in {"unlease"} \X Resources : t[1] = "unlease"
    OBVIOUS
  <2>5. \A t \in ToSet(Each("unlease", held[f])) : t[1] \notin LeasingKinds
    BY <2>3, <2>4 DEF LeasingKinds
  <2>6. Begin(f, Each("unlease", held[f]), TRUE)
    BY <1>5 DEF CancelLease
  <2> QED BY <2>1, <2>5, <2>6, BeginKinds
<1>6. ASSUME NEW s \in Scopes, StartLease(f, s) PROVE Operations'
  <2> DEFINE e == Each("read", scope[s].children)
  <2>1. scope[s].children \in Seq(Scopes) /\ e \in Seq(Tasks) /\ <<"climb", s>> \in Tasks
    BY EachTasks, TaskTypes DEF TypeOK, ScopeState
  <2>2. e \in Seq({"read"} \X Scopes)
    BY ONLY <2>1, EachType
  <2>3. \A t \in ToSet(e) : t \in {"read"} \X Scopes
    BY <2>2 DEF ToSet
  <2>4. \A t \in {"read"} \X Scopes : t[1] = "read"
    OBVIOUS
  <2>5. Begin(f, Append(e, <<"climb", s>>), TRUE)
    BY <1>6 DEF StartLease
  <2> HIDE DEF e
  <2>6. /\ Append(e, <<"climb", s>>) \in Seq(Tasks)
        /\ ToSet(Append(e, <<"climb", s>>)) = ToSet(e) \cup {<<"climb", s>>}
    BY ONLY <2>1, AppendFacts
  <2>7. \A t \in ToSet(Append(e, <<"climb", s>>)) : t[1] \in LeasingKinds
    BY <2>3, <2>4, <2>6 DEF LeasingKinds
  <2> QED BY <2>5, <2>6, <2>7, BeginKinds
<1> QED BY <1>2, <1>3, <1>4, <1>5, <1>6 DEF Start

(* A canceled fiber has nothing to do; what it had to close, release or    *)
(* finalize is abandoned.                                                  *)
LEMMA CancelTypes ==
    ASSUME TypeOK, NEW f \in Fibers, Cancel(f)
    PROVE  /\ TypeOK' /\ todo'[f] = <<>>
           /\ \A g \in Fibers \ {f} : todo'[g] = todo[g]
           /\ \A x \in Scopes \cup Resources :
                 x \in abandoned' <=> \/ x \in abandoned
                                      \/ \E t \in ToSet(todo[f]) :
                                            t[1] \in {"close", "release", "finalize"} /\ t[2] = x
<1>1. todo' \in [Fibers -> Seq(Tasks)] /\ todo'[f] = <<>>
      /\ \A g \in Fibers \ {f} : todo'[g] = todo[g]
  BY SmallLists DEF TypeOK, Cancel
<1>2. \A t \in ToSet(todo[f]) : t \in Tasks
  BY DEF TypeOK, ToSet
<1>3. \A t \in ToSet(todo[f]) : t[1] \in {"close", "release", "finalize"} => t[2] \in Scopes \cup Resources
  BY <1>2, TaskFields
<1>4. abandoned' = abandoned \cup
        {t[2] : t \in {u \in ToSet(todo[f]) : u[1] \in {"close", "release", "finalize"}}}
  BY DEF Cancel
<1>5. \A x : x \in abandoned' <=> \/ x \in abandoned
                                  \/ \E t \in ToSet(todo[f]) :
                                        t[1] \in {"close", "release", "finalize"} /\ t[2] = x
  BY <1>4
<1>6. abandoned' \subseteq Scopes \cup Resources
  <2> SUFFICES ASSUME NEW x \in abandoned' PROVE x \in Scopes \cup Resources
    OBVIOUS
  <2>1. CASE x \in abandoned
    BY <2>1 DEF TypeOK
  <2>2. CASE x \notin abandoned
    BY <1>3, <1>5, <2>2
  <2> QED BY <2>1, <2>2
<1>7. TypeOK'
  BY <1>1, <1>6 DEF TypeOK, Cancel
<1> QED BY <1>1, <1>5, <1>7

(* A canceled fiber has no tasks of any kind.                              *)
LEMMA CancelKinds ==
    ASSUME TypeOK, Operations, NEW f \in Fibers, Cancel(f)
    PROVE  Operations'
<1>1. todo'[f] = <<>> /\ (\A g \in Fibers \ {f} : todo'[g] = todo[g]) /\ UNCHANGED masked
  BY CancelTypes DEF Cancel
<1>2. ToSet(<<>>) = {}
  BY DEF ToSet
<1> QED BY <1>1, <1>2 DEF Operations

(* Every step keeps the operations apart.                                  *)
LEMMA NextKinds ==
    ASSUME TypeOK, Operations, [Next]_vars
    PROVE  Operations'
<1>1. CASE UNCHANGED vars
  BY <1>1 DEF vars, Operations
<1>2. ASSUME NEW f \in Fibers, Start(f) \/ Step(f) \/ Cancel(f) PROVE Operations'
  BY <1>2, StartKinds, CancelKinds, OpenKinds, FinalKinds, CloseKinds, ReadKinds DEF Step
<1> QED BY <1>1, <1>2 DEF Next

-----------------------------------------------------------------------------
(* The leases of a resource, one by one: an entry of what a fiber holds,   *)
(* or of what it has yet to give back, counted from the end of its tasks.  *)
Having(h, r) == {i \in Int : i \in DOMAIN h /\ h[i] = r}

Owing(q, r) == {i \in Int : i <= 0 /\ Len(q) + i \in DOMAIN q /\ q[Len(q) + i] = <<"unlease", r>>}

Slots(r) == {x \in Fibers \X Int : x[2] \in Having(held[x[1]], r) \cup Owing(todo[x[1]], r)}

LeasesCounted ==
    \A r \in Resources : IsFiniteSet(Slots(r)) /\ resource[r].leases = Cardinality(Slots(r))

(* Tasks that give back nothing owe nothing.                               *)
LEMMA OwingNone ==
    ASSUME NEW S, NEW q \in Seq(S), NEW r, \A t \in ToSet(q) : t[1] # "unlease"
    PROVE  Owing(q, r) = {}
<1>1. \A i \in DOMAIN q : q[i] \in ToSet(q)
  BY DEF ToSet
<1> QED BY <1>1 DEF Owing

(* A lease taken is one entry more.                                        *)
LEMMA HavingAppend ==
    ASSUME NEW S, NEW h \in Seq(S), NEW e \in S, NEW r
    PROVE  /\ Having(Append(h, e), r) = Having(h, r) \cup (IF e = r THEN {Len(h) + 1} ELSE {})
           /\ Len(h) + 1 \notin Having(h, r) /\ Len(h) + 1 > 0
<1> DEFINE a == Append(h, e)
<1>1. /\ DOMAIN h = 1..Len(h) /\ DOMAIN a = 1..Len(h) + 1 /\ Len(h) \in Nat
      /\ \A i \in 1..Len(h) : a[i] = h[i]
      /\ a[Len(h) + 1] = e
  OBVIOUS
<1> HIDE DEF a
<1>2. ASSUME NEW i \in Int
      PROVE  i \in Having(a, r) <=> i \in Having(h, r) \/ (e = r /\ i = Len(h) + 1)
  BY <1>1 DEF Having
<1>3. Having(a, r) = Having(h, r) \cup (IF e = r THEN {Len(h) + 1} ELSE {})
  <2>1. \A i : i \in Having(a, r) => i \in Int
    BY DEF Having
  <2>2. \A i : i \in Having(h, r) => i \in Int
    BY DEF Having
  <2>3. Len(h) + 1 \in Int
    BY <1>1
  <2> QED BY <1>2, <2>1, <2>2, <2>3
<1>4. Len(h) + 1 \notin Having(h, r) /\ Len(h) + 1 > 0
  BY <1>1 DEF Having
<1> QED BY <1>3, <1>4 DEF a

(* A lease given back is one entry less, and the places of the others,     *)
(* counted from the end, stay.                                             *)
LEMMA OwingReplace ==
    ASSUME NEW S, NEW q \in Seq(S), q # <<>>, NEW new \in Seq(S), NEW r,
           \A t \in ToSet(new) : t[1] # "unlease"
    PROVE  /\ Head(q) = <<"unlease", r>> => 1 - Len(q) \in Owing(q, r)
           /\ Owing(new \o Tail(q), r) =
                IF Head(q) = <<"unlease", r>> THEN Owing(q, r) \ {1 - Len(q)} ELSE Owing(q, r)
<1> DEFINE p == new \o Tail(q)
           n == Len(new)
           l == Len(q)
<1>1. /\ l \in Nat /\ n \in Nat /\ l > 0 /\ DOMAIN q = 1..l /\ DOMAIN p = 1..(n + (l - 1))
      /\ Len(p) = n + (l - 1) /\ DOMAIN new = 1..n
  OBVIOUS
<1>2. \A i \in 1..(n + (l - 1)) : p[i] = IF i <= n THEN new[i] ELSE q[(i - n) + 1]
  <2>1. Len(Tail(q)) = l - 1 /\ \A i \in 1..l - 1 : Tail(q)[i] = q[i + 1]
    OBVIOUS
  <2>2. \A i \in 1..(n + (l - 1)) : p[i] = IF i <= n THEN new[i] ELSE Tail(q)[i - n]
    BY <2>1
  <2>3. \A i \in 1..(n + (l - 1)) : ~(i <= n) => i - n \in 1..l - 1
    BY <1>1
  <2> HIDE DEF p, n, l
  <2> QED BY <2>1, <2>2, <2>3
<1>3. \A i \in 1..n : new[i] # <<"unlease", r>>
  <2>1. \A i \in 1..n : new[i] \in ToSet(new)
    BY <1>1 DEF ToSet
  <2> QED BY <2>1
<1>4. Head(q) = q[1]
  OBVIOUS
<1> HIDE DEF p, n, l
<1>5. ASSUME NEW i \in Int
      PROVE  i \in Owing(p, r) <=> i \in Owing(q, r) /\ i # 1 - l
  <2>1. i \in Owing(q, r) <=> i <= 0 /\ l + i \in 1..l /\ q[l + i] = <<"unlease", r>>
    BY <1>1 DEF Owing, l
  <2>2. i \in Owing(p, r) <=> i <= 0 /\ (n + (l - 1)) + i \in 1..(n + (l - 1))
                                /\ p[(n + (l - 1)) + i] = <<"unlease", r>>
    BY <1>1 DEF Owing
  <2>3. CASE i <= 0 /\ l + i > 1
    <3> DEFINE k == (n + (l - 1)) + i
    <3>1. k \in 1..(n + (l - 1)) /\ ~(k <= n) /\ (k - n) + 1 = l + i /\ l + i \in 1..l /\ i # 1 - l
      BY <1>1, <2>3
    <3>2. p[k] = q[l + i]
      BY <1>2, <3>1
    <3> QED BY <2>1, <2>2, <2>3, <3>1, <3>2
  <2>4. CASE i <= 0 /\ ~(l + i > 1)
    <3> DEFINE k == (n + (l - 1)) + i
    <3>1. l + i \in 1..l => i = 1 - l
      BY <1>1, <2>4
    <3>2. k \in 1..(n + (l - 1)) => k \in 1..n /\ k <= n
      BY <1>1, <2>4
    <3>3. i \notin Owing(p, r)
      BY <1>2, <1>3, <2>2, <3>2
    <3> QED BY <2>1, <3>1, <3>3
  <2>5. CASE ~(i <= 0)
    BY <2>1, <2>2, <2>5
  <2> QED BY <2>3, <2>4, <2>5
<1>6. 1 - l \in Owing(q, r) <=> Head(q) = <<"unlease", r>>
  BY <1>1, <1>4 DEF Owing, l
<1>7. (\A i : i \in Owing(p, r) => i \in Int) /\ (\A i : i \in Owing(q, r) => i \in Int)
  BY DEF Owing
<1>8. Owing(p, r) = Owing(q, r) \ {1 - l}
  BY <1>5, <1>7
<1> QED BY <1>6, <1>8 DEF p, l

(* What was held is owed, entry by entry.                                  *)
LEMMA OwingEach ==
    ASSUME NEW S, NEW h \in Seq(S), NEW r
    PROVE  \A i \in Int : i \in Having(h, r) <=> i - Len(h) \in Owing(Each("unlease", h), r)
<1> DEFINE e == Each("unlease", h)
<1>1. /\ DOMAIN h = 1..Len(h) /\ Len(h) \in Nat
      /\ DOMAIN e = 1..Len(h) /\ Len(e) = Len(h)
      /\ \A i \in 1..Len(h) : e[i] = <<"unlease", h[i]>>
  BY DEF Each
<1> HIDE DEF e
<1>2. ASSUME NEW i \in Int
      PROVE  i \in Having(h, r) <=> i - Len(h) \in Owing(e, r)
  <2>1. /\ i - Len(h) \in Int /\ Len(e) + (i - Len(h)) = i
        /\ i \in 1..Len(h) => i - Len(h) <= 0
    BY <1>1
  <2>2. i - Len(h) \in Owing(e, r) <=> i \in 1..Len(h) /\ e[i] = <<"unlease", r>>
    BY <1>1, <2>1 DEF Owing
  <2> QED BY <1>1, <2>2 DEF Having
<1> QED BY <1>2 DEF e

(* What is held and what is owed are told apart by the sign of the place.  *)
LEMMA SlotSigns ==
    ASSUME NEW S, NEW h \in Seq(S), NEW T, NEW q \in Seq(T), NEW r
    PROVE  /\ \A i \in Having(h, r) : i \in Int /\ i > 0 /\ i <= Len(h)
           /\ \A i \in Owing(q, r) : i \in Int /\ i <= 0
<1> QED BY DEF Having, Owing

(* Steps that no lease is taken or given back in.                          *)
LEMMA SameLeases ==
    ASSUME LeasesCounted,
           \A r \in Resources : resource'[r].leases = resource[r].leases,
           \A g \in Fibers, r \in Resources :
              Having(held[g], r)' \cup Owing(todo[g], r)' = Having(held[g], r) \cup Owing(todo[g], r)
    PROVE  LeasesCounted'
<1> SUFFICES ASSUME NEW r \in Resources PROVE Slots(r)' = Slots(r)
  BY DEF LeasesCounted
<1> QED BY DEF Slots

(* Nor are any, if the tasks of one fiber change and owe what they did.    *)
LEMMA SameTasks ==
    ASSUME TypeOK, LeasesCounted, NEW f \in Fibers,
           \A r \in Resources : resource'[r].leases = resource[r].leases,
           UNCHANGED held,
           \A g \in Fibers \ {f} : todo'[g] = todo[g],
           \A r \in Resources : Owing(todo'[f], r) = Owing(todo[f], r)
    PROVE  LeasesCounted'
<1>1. \A g \in Fibers, r \in Resources :
         Having(held[g], r)' = Having(held[g], r) /\ Owing(todo[g], r)' = Owing(todo[g], r)
  OBVIOUS
<1> QED BY <1>1, SameLeases

(* The updates of a resource's state.                                      *)
LEMMA OpenUpdate ==
    ASSUME TypeOK, NEW r \in Resources, NEW o \in BOOLEAN, resource' = [resource EXCEPT ![r].open = o]
    PROVE  /\ resource' \in [Resources -> ResourceState]
           /\ resource'[r] = [resource[r] EXCEPT !.open = o]
           /\ resource'[r].open = o
           /\ resource'[r].leases = resource[r].leases
           /\ resource'[r].finalizer = resource[r].finalizer
           /\ resource'[r].acquired = resource[r].acquired
           /\ \A x \in Resources \ {r} : resource'[x] = resource[x]
<1>1. resource[r] \in ResourceState /\ resource \in [Resources -> ResourceState]
  BY DEF TypeOK
<1>2. resource'[r] = [resource[r] EXCEPT !.open = o]
      /\ \A x \in Resources \ {r} : resource'[x] = resource[x]
  BY <1>1
<1>3. /\ [resource[r] EXCEPT !.open = o] \in ResourceState
      /\ [resource[r] EXCEPT !.open = o].open = o
      /\ [resource[r] EXCEPT !.open = o].leases = resource[r].leases
      /\ [resource[r] EXCEPT !.open = o].finalizer = resource[r].finalizer
      /\ [resource[r] EXCEPT !.open = o].acquired = resource[r].acquired
  BY <1>1 DEF ResourceState
<1>4. resource' \in [Resources -> ResourceState]
  BY <1>1, <1>2, <1>3
<1> QED BY <1>2, <1>3, <1>4

(* The finalizer is taken,                                                 *)
LEMMA FinalizerUpdate ==
    ASSUME TypeOK, NEW r \in Resources, resource' = [resource EXCEPT ![r].finalizer = FALSE]
    PROVE  /\ resource' \in [Resources -> ResourceState]
           /\ resource'[r].open = resource[r].open
           /\ resource'[r].leases = resource[r].leases
           /\ resource'[r].finalizer = FALSE
           /\ resource'[r].acquired = resource[r].acquired
           /\ \A x \in Resources \ {r} : resource'[x] = resource[x]
<1>1. resource[r] \in ResourceState /\ resource \in [Resources -> ResourceState]
  BY DEF TypeOK
<1>2. resource'[r] = [resource[r] EXCEPT !.finalizer = FALSE]
      /\ \A x \in Resources \ {r} : resource'[x] = resource[x]
  BY <1>1
<1>3. /\ [resource[r] EXCEPT !.finalizer = FALSE] \in ResourceState
      /\ [resource[r] EXCEPT !.finalizer = FALSE].open = resource[r].open
      /\ [resource[r] EXCEPT !.finalizer = FALSE].leases = resource[r].leases
      /\ [resource[r] EXCEPT !.finalizer = FALSE].finalizer = FALSE
      /\ [resource[r] EXCEPT !.finalizer = FALSE].acquired = resource[r].acquired
  BY <1>1 DEF ResourceState
<1>4. resource' \in [Resources -> ResourceState]
  BY <1>1, <1>2, <1>3
<1> QED BY <1>2, <1>3, <1>4

(* or taken by the release,                                                *)
LEMMA ReleaseUpdate ==
    ASSUME TypeOK, NEW r \in Resources,
           resource' = [resource EXCEPT ![r].open = FALSE, ![r].finalizer = FALSE]
    PROVE  /\ resource' \in [Resources -> ResourceState]
           /\ resource'[r].open = FALSE
           /\ resource'[r].leases = resource[r].leases
           /\ resource'[r].finalizer = FALSE
           /\ resource'[r].acquired = resource[r].acquired
           /\ \A x \in Resources \ {r} : resource'[x] = resource[x]
<1> DEFINE one == [resource[r] EXCEPT !.open = FALSE]
           two == [one EXCEPT !.finalizer = FALSE]
<1>1. resource[r] \in ResourceState /\ resource \in [Resources -> ResourceState]
  BY DEF TypeOK
<1>2. resource'[r] = two /\ \A x \in Resources \ {r} : resource'[x] = resource[x]
  BY <1>1
<1>3. /\ one \in ResourceState /\ one.open = FALSE /\ one.leases = resource[r].leases
      /\ one.acquired = resource[r].acquired
  BY <1>1 DEF ResourceState
<1> HIDE DEF one
<1>4. /\ two \in ResourceState /\ two.open = FALSE /\ two.leases = resource[r].leases
      /\ two.acquired = resource[r].acquired /\ two.finalizer = FALSE
  BY <1>3 DEF ResourceState
<1> HIDE DEF two
<1>5. resource' \in [Resources -> ResourceState]
  BY <1>1, <1>2, <1>4
<1> QED BY <1>2, <1>4, <1>5

(* and the leases counted.                                                 *)
LEMMA LeaseUpdate ==
    ASSUME TypeOK, NEW r \in Resources, NEW n \in Nat, resource' = [resource EXCEPT ![r].leases = n]
    PROVE  /\ resource' \in [Resources -> ResourceState]
           /\ resource'[r].open = resource[r].open
           /\ resource'[r].leases = n
           /\ resource'[r].finalizer = resource[r].finalizer
           /\ resource'[r].acquired = resource[r].acquired
           /\ \A x \in Resources \ {r} : resource'[x] = resource[x]
<1>1. resource[r] \in ResourceState /\ resource \in [Resources -> ResourceState]
  BY DEF TypeOK
<1>2. resource'[r] = [resource[r] EXCEPT !.leases = n]
      /\ \A x \in Resources \ {r} : resource'[x] = resource[x]
  BY <1>1
<1>3. /\ [resource[r] EXCEPT !.leases = n] \in ResourceState
      /\ [resource[r] EXCEPT !.leases = n].open = resource[r].open
      /\ [resource[r] EXCEPT !.leases = n].leases = n
      /\ [resource[r] EXCEPT !.leases = n].finalizer = resource[r].finalizer
      /\ [resource[r] EXCEPT !.leases = n].acquired = resource[r].acquired
  BY <1>1 DEF ResourceState
<1>4. resource' \in [Resources -> ResourceState]
  BY <1>1, <1>2, <1>3
<1> QED BY <1>2, <1>3, <1>4

(* A task that gives back nothing and leads to none that does.             *)
LEMMA ReplaceLeases ==
    ASSUME TypeOK, LeasesCounted, NEW f \in Fibers, todo[f] # <<>>,
           NEW new \in Seq(Tasks), Replace(f, new),
           Head(todo[f])[1] # "unlease", \A t \in ToSet(new) : t[1] # "unlease",
           \A r \in Resources : resource'[r].leases = resource[r].leases,
           UNCHANGED held
    PROVE  LeasesCounted'
<1>1. todo'[f] = new \o Tail(todo[f]) /\ \A g \in Fibers \ {f} : todo'[g] = todo[g]
  BY ReplaceType
<1>2. todo[f] \in Seq(Tasks) /\ todo[f] # <<>> /\ new \in Seq(Tasks)
      /\ \A t \in ToSet(new) : t[1] # "unlease"
  BY DEF TypeOK
<1>3. ASSUME NEW r \in Resources PROVE Owing(new \o Tail(todo[f]), r) = Owing(todo[f], r)
  <2>1. Head(todo[f]) # <<"unlease", r>>
    OBVIOUS
  <2> QED BY ONLY <1>2, <2>1, OwingReplace
<1> QED BY <1>1, <1>3, SameTasks

(* These are the steps of scopes and of releases,                          *)
LEMMA OtherLeases ==
    ASSUME TypeOK, LeasesCounted, NEW f \in Fibers,
           \/ OpenChild(f) \/ OpenNone(f) \/ Register(f) \/ Close(f) \/ Unregister(f)
           \/ Release(f) \/ Finalize(f) \/ TakeFinalizer(f)
    PROVE  LeasesCounted'
<1>1. /\ todo[f] # <<>> /\ Head(todo[f])[1] # "unlease"
      /\ (Doing(f, "open") \/ Doing(f, "close")) => On(f) \in Scopes
      /\ (Doing(f, "register") \/ Doing(f, "release") \/ Doing(f, "take")) => On(f) \in Resources
  BY DoingFacts DEF OpenChild, OpenNone, Register, Close, Unregister, Release, Finalize, TakeFinalizer
<1>2. UNCHANGED held
  BY DEF OpenChild, OpenNone, Register, Close, Unregister, Release, Finalize, TakeFinalizer
<1>3. \A r \in Resources : resource'[r].leases = resource[r].leases
  <2>1. CASE UNCHANGED resource
    BY <2>1
  <2>2. CASE Release(f)
    <3>1. On(f) \in Resources
      BY <2>2, DoingFacts DEF Release
    <3>2. \/ resource' = [resource EXCEPT ![On(f)].open = FALSE]
          \/ resource' = [resource EXCEPT ![On(f)].open = FALSE, ![On(f)].finalizer = FALSE]
      BY <2>2 DEF Release
    <3>3. resource'[On(f)].leases = resource[On(f)].leases
          /\ \A x \in Resources \ {On(f)} : resource'[x] = resource[x]
      BY <3>1, <3>2, OpenUpdate, ReleaseUpdate
    <3> QED BY <3>3
  <2>3. CASE TakeFinalizer(f)
    <3>1. On(f) \in Resources
      BY <2>3, DoingFacts DEF TakeFinalizer
    <3>2. resource' = [resource EXCEPT ![On(f)].finalizer = FALSE]
      BY <2>3 DEF TakeFinalizer
    <3>3. resource'[On(f)].leases = resource[On(f)].leases
          /\ \A x \in Resources \ {On(f)} : resource'[x] = resource[x]
      BY <3>1, <3>2, FinalizerUpdate
    <3> QED BY <3>3
  <2> QED BY <2>1, <2>2, <2>3 DEF OpenChild, OpenNone, Register, Close, Unregister, Finalize
<1>4. ASSUME NEW t \in Tasks, t[1] # "unlease", Replace(f, <<t>>) PROVE LeasesCounted'
  <2>1. <<t>> \in Seq(Tasks) /\ ToSet(<<t>>) = {t}
    BY ONLY t \in Tasks, SingleFacts
  <2> QED BY <1>1, <1>2, <1>3, <1>4, <2>1, ReplaceLeases
<1>5. ASSUME Replace(f, <<>>) PROVE LeasesCounted'
  <2>1. ToSet(<<>>) = {} /\ <<>> \in Seq(Tasks)
    BY DEF ToSet
  <2> QED BY <1>1, <1>2, <1>3, <1>5, <2>1, ReplaceLeases
<1>6. CASE OpenChild(f) \/ OpenNone(f)
  <2>1. <<"open", parent[On(f)]>> \in Tasks
    BY <1>1, <1>6, TaskTypes DEF OpenChild, OpenNone, TypeOK
  <2> QED BY <1>4, <1>5, <1>6, <2>1 DEF OpenChild, OpenNone
<1>7. CASE Register(f) \/ Release(f) \/ TakeFinalizer(f)
  <2>1. <<"finalize", On(f)>> \in Tasks
    BY <1>1, <1>7, TaskTypes DEF Register, Release, TakeFinalizer
  <2>2. Replace(f, <<>>) \/ Replace(f, << <<"finalize", On(f)>> >>)
    BY <1>7 DEF Register, Release, TakeFinalizer
  <2> QED BY <1>4, <1>5, <2>1, <2>2
<1>8. CASE Unregister(f) \/ Finalize(f)
  BY <1>5, <1>8 DEF Unregister, Finalize
<1>9. CASE Close(f)
  <2>1. /\ CloseTasks(On(f)) \in Seq(Tasks)
        /\ \A t \in ToSet(CloseTasks(On(f))) : t[1] \in {"close", "release", "unregister"}
    BY <1>1, <1>9, CloseTasksFacts DEF Close
  <2>2. Replace(f, <<>>) \/ Replace(f, CloseTasks(On(f)))
    BY <1>9 DEF Close, CloseTasks
  <2>3. CASE Replace(f, CloseTasks(On(f)))
    BY <1>1, <1>2, <1>3, <2>1, <2>3, ReplaceLeases
  <2> QED BY <1>5, <2>2, <2>3
<1> QED BY <1>6, <1>7, <1>8, <1>9

(* reading,                                                                *)
LEMMA ReadLeases ==
    ASSUME TypeOK, Operations, LeasesCounted, NEW f \in Fibers, ReadResources(f)
    PROVE  LeasesCounted'
<1>1. /\ \A t \in ToSet(todo[f]) \cup ToSet(todo'[f]) : t[1] \in LeasingKinds
      /\ \A g \in Fibers \ {f} : todo'[g] = todo[g]
      /\ TypeOK'
  BY ReadKinds, ReadTypes
<1>2. todo[f] \in Seq(Tasks) /\ todo'[f] \in Seq(Tasks)
  BY <1>1 DEF TypeOK
<1>3. (\A t \in ToSet(todo[f]) : t[1] # "unlease") /\ (\A t \in ToSet(todo'[f]) : t[1] # "unlease")
  BY <1>1 DEF LeasingKinds
<1>4. \A r \in Resources : Owing(todo'[f], r) = {} /\ Owing(todo[f], r) = {}
  BY ONLY <1>2, <1>3, OwingNone
<1> QED BY <1>1, <1>4, SameTasks DEF ReadResources

(* and cancelation, which never meets a lease to give back: those are      *)
(* masked.                                                                 *)
LEMMA CancelLeases ==
    ASSUME TypeOK, Operations, LeasesCounted, NEW f \in Fibers, Cancel(f)
    PROVE  LeasesCounted'
<1>1. todo'[f] = <<>> /\ \A g \in Fibers \ {f} : todo'[g] = todo[g]
  BY CancelTypes
<1>2. \A t \in ToSet(todo[f]) : t[1] # "unlease"
  BY DEF Operations, ClosingKinds, Cancel
<1>3. todo[f] \in Seq(Tasks)
  BY DEF TypeOK
<1>4. <<>> \in Seq(Tasks) /\ ToSet(<<>>) = {}
  BY DEF ToSet
<1>5. \A r \in Resources : Owing(todo[f], r) = {}
  BY ONLY <1>2, <1>3, OwingNone
<1>6. \A r \in Resources : Owing(<<>>, r) = {}
  BY ONLY <1>4, OwingNone
<1> QED BY <1>1, <1>5, <1>6, SameTasks DEF Cancel

(* ScopedResource.lease counts the entry it adds.                          *)
LEMMA TakeLease ==
    ASSUME TypeOK, Operations, LeasesCounted, NEW f \in Fibers, LeaseResource(f)
    PROVE  TypeOK' /\ LeasesCounted'
<1>0. PICK r \in Resources : r = On(f)
  BY DoingFacts DEF LeaseResource
<1>1. /\ r \in Resources /\ todo[f] # <<>> /\ Head(todo[f])[1] = "lease"
      /\ todo[f] \in Seq(Tasks) /\ <<>> \in Seq(Tasks) /\ ToSet(<<>>) = {}
  BY DoingFacts, SmallLists DEF LeaseResource, ToSet
<1>2. Replace(f, <<>>) /\ UNCHANGED <<scope, parent, masked, runs, abandoned>>
  BY DEF LeaseResource
<1>3. todo' \in [Fibers -> Seq(Tasks)]
  BY <1>1, <1>2, ReplaceType
<1>4. CASE ~resource[r].open
  <2>1. UNCHANGED <<resource, held>>
    BY <1>0, <1>4 DEF LeaseResource
  <2>2. LeasesCounted'
    BY <1>1, <1>2, <2>1, ReplaceLeases
  <2> QED BY <1>2, <1>3, <2>1, <2>2 DEF TypeOK
<1>5. CASE resource[r].open
  <2>1. /\ resource' = [resource EXCEPT ![r].leases = @ + 1]
        /\ held' = [held EXCEPT ![f] = Append(@, r)]
    BY <1>0, <1>5 DEF LeaseResource
  <2>2. held[f] \in Seq(Resources)
    BY DEF TypeOK
  <2>3. held' \in [Fibers -> Seq(Resources)] /\ held'[f] = Append(held[f], r)
        /\ \A g \in Fibers \ {f} : held'[g] = held[g]
    <3>1. Append(held[f], r) \in Seq(Resources)
      BY ONLY <1>1, <2>2, AppendFacts
    <3> QED BY <2>1, <3>1 DEF TypeOK
  <2>4. /\ resource' \in [Resources -> ResourceState]
        /\ resource'[r].leases = resource[r].leases + 1
        /\ \A x \in Resources \ {r} : resource'[x] = resource[x]
    <3>1. resource[r].leases + 1 \in Nat
      BY DEF TypeOK, ResourceState
    <3> QED BY <2>1, <3>1, LeaseUpdate
  <2>5. TypeOK'
    BY <1>2, <1>3, <2>3, <2>4 DEF TypeOK
  <2>6. todo'[f] = <<>> \o Tail(todo[f]) /\ \A g \in Fibers \ {f} : todo'[g] = todo[g]
    BY <1>1, <1>2, ReplaceType
  <2>7. ASSUME NEW x \in Resources PROVE Owing(todo'[f], x) = Owing(todo[f], x)
    <3>1. (\A t \in ToSet(<<>>) : t[1] # "unlease") /\ Head(todo[f]) # <<"unlease", x>>
      BY <1>1
    <3>2. Owing(<<>> \o Tail(todo[f]), x) = Owing(todo[f], x)
      BY ONLY <1>1, <3>1, OwingReplace
    <3> QED BY <2>6, <3>2
  <2>8. ASSUME NEW x \in Resources
        PROVE  /\ Having(held'[f], x) = Having(held[f], x) \cup (IF r = x THEN {Len(held[f]) + 1} ELSE {})
               /\ Len(held[f]) + 1 \notin Having(held[f], x) /\ Len(held[f]) + 1 > 0
    <3>1. /\ Having(Append(held[f], r), x) = Having(held[f], x) \cup (IF r = x THEN {Len(held[f]) + 1} ELSE {})
          /\ Len(held[f]) + 1 \notin Having(held[f], x) /\ Len(held[f]) + 1 > 0
      BY ONLY <1>1, <2>2, HavingAppend
    <3> QED BY <2>3, <3>1
  <2> DEFINE slot == <<f, Len(held[f]) + 1>>
  <2>9. Len(held[f]) + 1 \in Int
    BY <2>2
  <2>10. ASSUME NEW x \in Resources \ {r} PROVE Slots(x)' = Slots(x)
    BY <2>3, <2>6, <2>7, <2>8 DEF Slots
  <2>11. Slots(r)' = Slots(r) \cup {slot}
    <3>1. ASSUME NEW z \in Fibers \X Int PROVE z \in Slots(r)' <=> z \in Slots(r) \/ z = slot
      <4>1. CASE z[1] # f
        BY <2>3, <2>6, <4>1 DEF Slots
      <4>2. CASE z[1] = f
        <5>1. z = slot <=> z[2] = Len(held[f]) + 1
          BY <4>2
        <5>2. z \in Slots(r)' <=> z[2] \in Having(held'[f], r) \cup Owing(todo'[f], r)
          BY <4>2 DEF Slots
        <5>3. z \in Slots(r) <=> z[2] \in Having(held[f], r) \cup Owing(todo[f], r)
          BY <4>2 DEF Slots
        <5> QED BY <1>1, <2>7, <2>8, <5>1, <5>2, <5>3
      <4> QED BY <4>1, <4>2
    <3>2. slot \in Fibers \X Int
      BY <2>9
    <3>3. Slots(r)' \subseteq Fibers \X Int /\ Slots(r) \subseteq Fibers \X Int
      BY DEF Slots
    <3> QED BY <3>1, <3>2, <3>3
  <2>12. slot \notin Slots(r)
    <3>1. \A i \in Owing(todo[f], r) : i <= 0
      BY DEF Owing
    <3>2. Len(held[f]) + 1 \notin Owing(todo[f], r)
      BY <1>1, <2>8, <2>9, <3>1
    <3> QED BY <1>1, <2>8, <3>2 DEF Slots
  <2>13. /\ IsFiniteSet(Slots(r) \cup {slot})
         /\ Cardinality(Slots(r) \cup {slot}) = Cardinality(Slots(r)) + 1
    <3>1. IsFiniteSet(Slots(r))
      BY <1>1 DEF LeasesCounted
    <3> HIDE DEF slot
    <3> QED BY ONLY <2>12, <3>1, FS_AddElement
  <2>14. LeasesCounted'
    <3> SUFFICES ASSUME NEW x \in Resources
                 PROVE  IsFiniteSet(Slots(x))' /\ resource'[x].leases = Cardinality(Slots(x))'
      BY DEF LeasesCounted
    <3>1. CASE x = r
      BY <1>1, <2>4, <2>11, <2>13, <3>1 DEF LeasesCounted
    <3>2. CASE x # r
      BY <2>4, <2>10, <3>2 DEF LeasesCounted
    <3> QED BY <3>1, <3>2
  <2> QED BY <2>5, <2>14
<1> QED BY <1>4, <1>5

(* Lease.cancel counts the entry it removes, and there is one.             *)
LEMMA GiveLease ==
    ASSUME TypeOK, Operations, LeasesCounted, NEW f \in Fibers, Unlease(f)
    PROVE  /\ TypeOK' /\ LeasesCounted'
           /\ resource[On(f)].leases > 0
           /\ resource' = [resource EXCEPT ![On(f)].leases = resource[On(f)].leases - 1]
           /\ resource[On(f)].leases - 1 \in Nat
<1>0. PICK r \in Resources : r = On(f)
  BY DoingFacts DEF Unlease
<1>1. /\ todo[f] # <<>> /\ Head(todo[f]) = <<"unlease", r>> /\ todo[f] \in Seq(Tasks)
  BY <1>0, DoingFacts DEF Unlease
<1> DEFINE isFinished == ~resource[r].open /\ resource[r].leases = 1
           new == IF isFinished THEN << <<"take", r>> >> ELSE <<>>
<1>2. /\ Replace(f, new) /\ UNCHANGED <<scope, parent, masked, held, runs, abandoned>>
      /\ resource' = [resource EXCEPT ![r].leases = resource[r].leases - 1]
  BY <1>0 DEF Unlease
<1>3. new \in Seq(Tasks) /\ \A t \in ToSet(new) : t[1] # "unlease"
  <2>1. <<"take", r>> \in Tasks
    BY TaskTypes
  <2>2. << <<"take", r>> >> \in Seq(Tasks) /\ ToSet(<< <<"take", r>> >>) = {<<"take", r>>}
    BY ONLY <2>1, SingleFacts
  <2>3. <<>> \in Seq(Tasks) /\ ToSet(<<>>) = {}
    BY DEF ToSet
  <2>4. new = <<>> \/ new = << <<"take", r>> >>
    OBVIOUS
  <2>5. <<"take", r>>[1] = "take"
    OBVIOUS
  <2> HIDE DEF new
  <2>6. CASE new = <<>>
    BY <2>3, <2>6
  <2>7. CASE new = << <<"take", r>> >>
    <3>1. new \in Seq(Tasks) /\ ToSet(new) = {<<"take", r>>}
      BY <2>2, <2>7
    <3> QED BY <2>5, <3>1
  <2> QED BY <2>4, <2>6, <2>7
<1> HIDE DEF new
<1>4. /\ todo' \in [Fibers -> Seq(Tasks)] /\ todo'[f] = new \o Tail(todo[f])
      /\ \A g \in Fibers \ {f} : todo'[g] = todo[g]
  BY <1>1, <1>2, <1>3, ReplaceType
<1>5. ASSUME NEW x \in Resources
      PROVE  /\ Owing(todo'[f], x) = IF x = r THEN Owing(todo[f], x) \ {1 - Len(todo[f])}
                                                ELSE Owing(todo[f], x)
             /\ 1 - Len(todo[f]) \in Owing(todo[f], r)
  <2>1. /\ Head(todo[f]) = <<"unlease", x>> => 1 - Len(todo[f]) \in Owing(todo[f], x)
        /\ Owing(new \o Tail(todo[f]), x) =
             IF Head(todo[f]) = <<"unlease", x>> THEN Owing(todo[f], x) \ {1 - Len(todo[f])}
                                                 ELSE Owing(todo[f], x)
    BY ONLY <1>1, <1>3, OwingReplace
  <2>2. 1 - Len(todo[f]) \in Owing(todo[f], r)
    BY ONLY <1>1, <1>3, OwingReplace
  <2>3. Head(todo[f]) = <<"unlease", x>> <=> x = r
    BY <1>1
  <2> QED BY <1>4, <2>1, <2>2, <2>3
<1> DEFINE slot == <<f, 1 - Len(todo[f])>>
<1>6. 1 - Len(todo[f]) \in Int /\ 1 - Len(todo[f]) \notin Having(held[f], r)
  <2>1. held[f] \in Seq(Resources)
    BY DEF TypeOK
  <2>2. \A i \in Having(held[f], r) : i > 0
    BY ONLY <2>1, <1>1, SlotSigns
  <2>3. 1 - Len(todo[f]) \in Int /\ ~(1 - Len(todo[f]) > 0)
    BY <1>1
  <2> QED BY <2>2, <2>3
<1>7. \A g \in Fibers : held'[g] = held[g]
  BY <1>2
<1>8. ASSUME NEW x \in Resources, x # r PROVE Slots(x)' = Slots(x)
  BY <1>4, <1>5, <1>7, <1>8 DEF Slots
<1>9. slot \in Slots(r)
  BY <1>5, <1>6 DEF Slots
<1>10. Slots(r)' = Slots(r) \ {slot}
  <2>1. ASSUME NEW z \in Fibers \X Int PROVE z \in Slots(r)' <=> z \in Slots(r) /\ z # slot
    <3>1. CASE z[1] # f
      BY <1>4, <1>7, <3>1 DEF Slots
    <3>2. CASE z[1] = f
      <4>1. z = slot <=> z[2] = 1 - Len(todo[f])
        BY <3>2
      <4>2. z \in Slots(r)' <=> z[2] \in Having(held'[f], r) \cup Owing(todo'[f], r)
        BY <3>2 DEF Slots
      <4>3. z \in Slots(r) <=> z[2] \in Having(held[f], r) \cup Owing(todo[f], r)
        BY <3>2 DEF Slots
      <4> QED BY <1>5, <1>6, <1>7, <4>1, <4>2, <4>3
    <3> QED BY <3>1, <3>2
  <2>2. Slots(r)' \subseteq Fibers \X Int /\ Slots(r) \subseteq Fibers \X Int
    BY DEF Slots
  <2> QED BY <2>1, <2>2
<1>11. /\ IsFiniteSet(Slots(r) \ {slot})
       /\ Cardinality(Slots(r) \ {slot}) = Cardinality(Slots(r)) - 1
       /\ Cardinality(Slots(r)) # 0 /\ Cardinality(Slots(r)) \in Nat
  <2>1. IsFiniteSet(Slots(r))
    BY DEF LeasesCounted
  <2>2. Slots(r) # {}
    BY <1>9
  <2>3. Cardinality(Slots(r)) # 0
    BY ONLY <2>1, <2>2, FS_EmptySet
  <2>4. Cardinality(Slots(r)) \in Nat
    BY ONLY <2>1, FS_CardinalityType
  <2> HIDE DEF slot
  <2>5. /\ IsFiniteSet(Slots(r) \ {slot})
        /\ Cardinality(Slots(r) \ {slot}) = Cardinality(Slots(r)) - 1
    BY ONLY <1>9, <2>1, FS_RemoveElement
  <2> QED BY <2>3, <2>4, <2>5
<1>12. resource[r].leases = Cardinality(Slots(r))
  BY DEF LeasesCounted
<1>13. resource[r].leases > 0 /\ resource[r].leases - 1 \in Nat
  BY <1>11, <1>12
<1>14. /\ resource' \in [Resources -> ResourceState]
       /\ resource'[r].leases = resource[r].leases - 1
       /\ \A x \in Resources \ {r} : resource'[x] = resource[x]
  BY <1>2, <1>13, LeaseUpdate
<1>15. TypeOK'
  BY <1>2, <1>4, <1>14 DEF TypeOK
<1>16. LeasesCounted'
  <2> SUFFICES ASSUME NEW x \in Resources
               PROVE  IsFiniteSet(Slots(x))' /\ resource'[x].leases = Cardinality(Slots(x))'
    BY DEF LeasesCounted
  <2>1. CASE x = r
    BY <1>10, <1>11, <1>12, <1>14, <2>1
  <2>2. CASE x # r
    BY <1>8, <1>14, <2>2 DEF LeasesCounted
  <2> QED BY <2>1, <2>2
<1> QED BY <1>0, <1>2, <1>13, <1>15, <1>16

(* Lease.cancel: what a fiber held it owes.                                *)
LEMMA OweLeases ==
    ASSUME TypeOK, LeasesCounted, NEW f \in Fibers, CancelLease(f)
    PROVE  LeasesCounted'
<1> DEFINE e == Each("unlease", held[f])
           n == Len(held[f])
<1>1. held[f] \in Seq(Resources) /\ e \in Seq(Tasks) /\ n \in Int
  BY EachTasks DEF TypeOK
<1>2. /\ todo[f] = <<>> /\ todo'[f] = e /\ \A g \in Fibers \ {f} : todo'[g] = todo[g]
  BY <1>1, BeginType DEF CancelLease
<1>3. /\ held'[f] = <<>> /\ \A g \in Fibers \ {f} : held'[g] = held[g]
      /\ UNCHANGED resource
  BY DEF CancelLease, TypeOK
<1>4. ASSUME NEW r \in Resources
      PROVE  /\ \A i \in Int : i \in Having(held[f], r) <=> i - n \in Owing(e, r)
             /\ Owing(<<>>, r) = {} /\ Having(<<>>, r) = {}
             /\ Having(held[f], r) \subseteq Int /\ Owing(e, r) \subseteq Int
  <2>1. \A i \in Int : i \in Having(held[f], r) <=> i - n \in Owing(e, r)
    BY ONLY <1>1, OwingEach
  <2>2. Owing(<<>>, r) = {} /\ Having(<<>>, r) = {}
    BY DEF Owing, Having
  <2>3. Having(held[f], r) \subseteq Int /\ Owing(e, r) \subseteq Int
    BY DEF Owing, Having
  <2> QED BY <2>1, <2>2, <2>3
<1> HIDE DEF e, n
<1>5. ASSUME NEW r \in Resources
      PROVE  IsFiniteSet(Slots(r))' /\ Cardinality(Slots(r))' = Cardinality(Slots(r))
  <2> DEFINE S == Slots(r)
             T == {z \in Fibers \X Int : IF z[1] = f THEN z[2] \in Owing(e, r)
                                         ELSE z[2] \in Having(held[z[1]], r) \cup Owing(todo[z[1]], r)}
             move == [z \in S |-> <<z[1], IF z[1] = f THEN z[2] - n ELSE z[2]>>]
  <2>1. Slots(r)' = T
    <3>1. ASSUME NEW z \in Fibers \X Int PROVE z \in Slots(r)' <=> z \in T
      <4>1. z \in Slots(r)' <=> z[2] \in Having(held'[z[1]], r) \cup Owing(todo'[z[1]], r)
        BY DEF Slots
      <4>2. CASE z[1] = f
        BY <1>2, <1>3, <1>4, <4>1, <4>2
      <4>3. CASE z[1] # f
        BY <1>2, <1>3, <4>1, <4>3
      <4> QED BY <4>2, <4>3
    <3>2. Slots(r)' \subseteq Fibers \X Int
      BY DEF Slots
    <3> QED BY <3>1, <3>2
  <2>2. \A z \in S : /\ z \in Fibers \X Int
                     /\ z[1] = f => z[2] \in Having(held[f], r)
                     /\ z[1] # f => z[2] \in Having(held[z[1]], r) \cup Owing(todo[z[1]], r)
    BY <1>2, <1>4 DEF Slots
  <2>3. \A z \in Fibers \X Int : /\ z[1] = f /\ z[2] \in Having(held[f], r) => z \in S
                                 /\ z[1] # f /\ z[2] \in Having(held[z[1]], r) \cup Owing(todo[z[1]], r)
                                        => z \in S
    BY DEF Slots
  <2> HIDE DEF S
  <2>4. move \in [S -> T]
    <3> SUFFICES ASSUME NEW z \in S
                 PROVE  <<z[1], IF z[1] = f THEN z[2] - n ELSE z[2]>> \in T
      OBVIOUS
    <3>1. z \in Fibers \X Int /\ z[1] \in Fibers /\ z[2] \in Int
      BY <2>2
    <3>2. CASE z[1] = f
      <4>1. z[2] - n \in Owing(e, r) /\ z[2] - n \in Int
        BY <1>1, <1>4, <2>2, <3>1, <3>2
      <4> QED BY <3>1, <3>2, <4>1
    <3>3. CASE z[1] # f
      BY <2>2, <3>1, <3>3
    <3> QED BY <3>2, <3>3
  <2>5. ASSUME NEW y \in S, NEW z \in S, move[y] = move[z] PROVE y = z
    <3>1. y \in Fibers \X Int /\ z \in Fibers \X Int
      BY <2>2
    <3>2. y[1] = z[1] /\ (IF y[1] = f THEN y[2] - n ELSE y[2]) = (IF z[1] = f THEN z[2] - n ELSE z[2])
      BY <2>5
    <3>3. y[2] = z[2]
      BY <1>1, <3>1, <3>2
    <3> QED BY <3>1, <3>2, <3>3
  <2>6. ASSUME NEW y \in T PROVE \E z \in S : move[z] = y
    <3>1. y \in Fibers \X Int /\ y[1] \in Fibers /\ y[2] \in Int /\ y = <<y[1], y[2]>>
      OBVIOUS
    <3>2. CASE y[1] = f
      <4>1. y[2] + n \in Int /\ (y[2] + n) - n = y[2]
        BY <1>1, <3>1
      <4>2. y[2] + n \in Having(held[f], r)
        BY <1>4, <3>2, <4>1
      <4>3. <<f, y[2] + n>> \in S
        BY <2>3, <4>1, <4>2
      <4>4. move[<<f, y[2] + n>>] = y
        BY <3>1, <3>2, <4>1, <4>3
      <4> QED BY <4>3, <4>4
    <3>3. CASE y[1] # f
      <4>1. y \in S
        BY <2>3, <3>1, <3>3
      <4>2. move[y] = y
        BY <3>1, <3>3, <4>1
      <4> QED BY <4>1, <4>2
    <3> QED BY <3>2, <3>3
  <2>7. move \in Bijection(S, T)
    <3> HIDE DEF move, T
    <3> QED BY <2>4, <2>5, <2>6 DEF Bijection, Injection, Surjection, IsInjective
  <2>8. ExistsBijection(S, T)
    BY ONLY <2>7 DEF ExistsBijection
  <2>9. IsFiniteSet(S)
    BY DEF LeasesCounted, S
  <2>10. IsFiniteSet(T) /\ Cardinality(T) = Cardinality(S)
    <3> HIDE DEF T
    <3> QED BY ONLY <2>8, <2>9, FS_Bijection
  <2> QED BY <2>1, <2>10 DEF S
<1> QED BY <1>3, <1>5 DEF LeasesCounted

(* No other operation begins with leases to give back.                     *)
LEMMA StartLeases ==
    ASSUME TypeOK, Operations, LeasesCounted, NEW f \in Fibers, Start(f)
    PROVE  LeasesCounted'
<1>1. <<>> \in Seq(Tasks) /\ ToSet(<<>>) = {}
  BY DEF ToSet
<1>2. \A r \in Resources : Owing(<<>>, r) = {}
  BY ONLY <1>1, OwingNone
<1>3. ASSUME NEW tasks \in Seq(Tasks), NEW b \in BOOLEAN, Begin(f, tasks, b), UNCHANGED held,
             \A t \in ToSet(tasks) : t[1] # "unlease",
             \A r \in Resources : resource'[r].leases = resource[r].leases
      PROVE  LeasesCounted'
  <2>1. /\ todo[f] = <<>> /\ todo'[f] = tasks
        /\ \A g \in Fibers \ {f} : todo'[g] = todo[g]
    BY <1>3, BeginType
  <2>2. \A r \in Resources : Owing(tasks, r) = {}
    BY ONLY <1>3, tasks \in Seq(Tasks), OwingNone
  <2> QED BY <1>2, <1>3, <2>1, <2>2, SameTasks
<1>4. ASSUME NEW t \in Tasks, t[1] # "unlease"
      PROVE  <<t>> \in Seq(Tasks) /\ \A u \in ToSet(<<t>>) : u[1] # "unlease"
  <2>1. <<t>> \in Seq(Tasks) /\ ToSet(<<t>>) = {t}
    BY ONLY t \in Tasks, SingleFacts
  <2> QED BY <1>4, <2>1
<1>5. ASSUME NEW s \in Scopes, StartOpen(f, s) PROVE LeasesCounted'
  BY <1>3, <1>4, <1>5, TaskTypes DEF StartOpen
<1>6. ASSUME NEW s \in Scopes, StartClose(f, s) PROVE LeasesCounted'
  <2>1. (s = Root) \in BOOLEAN
    OBVIOUS
  <2> QED BY <1>3, <1>4, <1>6, <2>1, TaskTypes DEF StartClose
<1>7. ASSUME NEW s \in Scopes, NEW r \in Resources, Acquire(f, r, s) PROVE LeasesCounted'
  <2>1. \A x \in Resources : resource'[x].leases = resource[x].leases
    BY <1>7 DEF Acquire, TypeOK, ResourceState
  <2>2. <<"register", r, s>> \in Tasks /\ <<"register", r, s>>[1] # "unlease"
    BY TaskTypes
  <2> QED BY <1>3, <1>4, <1>7, <2>1, <2>2 DEF Acquire
<1>8. ASSUME NEW s \in Scopes, StartLease(f, s) PROVE LeasesCounted'
  <2> DEFINE e == Each("read", scope[s].children)
  <2>1. scope[s].children \in Seq(Scopes) /\ e \in Seq(Tasks) /\ <<"climb", s>> \in Tasks
    BY EachTasks, TaskTypes DEF TypeOK, ScopeState
  <2>2. e \in Seq({"read"} \X Scopes)
    BY ONLY <2>1, EachType
  <2>3. \A t \in ToSet(e) : t \in {"read"} \X Scopes
    BY <2>2 DEF ToSet
  <2>4. \A t \in {"read"} \X Scopes : t[1] = "read"
    OBVIOUS
  <2>5. Begin(f, Append(e, <<"climb", s>>), TRUE) /\ UNCHANGED <<held, resource>>
    BY <1>8 DEF StartLease
  <2> HIDE DEF e
  <2>6. /\ Append(e, <<"climb", s>>) \in Seq(Tasks)
        /\ ToSet(Append(e, <<"climb", s>>)) = ToSet(e) \cup {<<"climb", s>>}
    BY ONLY <2>1, AppendFacts
  <2>7. \A t \in ToSet(Append(e, <<"climb", s>>)) : t[1] # "unlease"
    BY <2>3, <2>4, <2>6
  <2> QED BY <1>3, <2>5, <2>6, <2>7
<1> QED BY <1>5, <1>6, <1>7, <1>8, OweLeases DEF Start

(* The leases a resource counts are those that somebody holds or owes, and *)
(* so the count never falls below zero.                                    *)
LEMMA NextLeases ==
    ASSUME TypeOK, Operations, LeasesCounted, [Next]_vars
    PROVE  TypeOK' /\ LeasesCounted'
<1>1. CASE UNCHANGED vars
  BY <1>1 DEF vars, TypeOK, LeasesCounted, Slots
<1>2. ASSUME NEW f \in Fibers, Start(f) \/ Step(f) \/ Cancel(f) PROVE TypeOK' /\ LeasesCounted'
  <2>1. CASE Start(f)
    BY <2>1, StartTypes, StartLeases
  <2>2. CASE Cancel(f)
    BY <2>2, CancelTypes, CancelLeases
  <2>3. CASE Step(f)
    BY <2>3, OpenTypes, ScopeTypes, ResourceTypes, ReadTypes, OtherLeases, ReadLeases,
       TakeLease, GiveLease DEF Step
  <2> QED BY <1>2, <2>1, <2>2, <2>3
<1> QED BY <1>1, <1>2 DEF Next

(* In the beginning there are no tasks and no leases.                      *)
LEMMA InitTypes == Init => TypeOK /\ Operations /\ LeasesCounted
<1> SUFFICES ASSUME Init PROVE TypeOK /\ Operations /\ LeasesCounted
  OBVIOUS
<1>1. Root \in Scopes
  BY ScopeAssumption
<1>2. scope \in [Scopes -> ScopeState]
  BY EmptyType DEF Init, Tags
<1>3. TypeOK
  BY <1>1, <1>2, SmallLists DEF Init, TypeOK, ResourceState
<1>4. \A f \in Fibers : ToSet(todo[f]) = {}
  BY DEF Init, ToSet
<1>5. \A r \in Resources : Slots(r) = {}
  BY DEF Init, Slots, Having, Owing
<1> QED BY <1>3, <1>4, <1>5, FS_EmptySet DEF Operations, LeasesCounted, Init

(* The variables of the scopes keep their types. That the leases of a      *)
(* resource are a natural number takes counting them.                      *)
THEOREM TypeCorrect == Spec => []TypeOK
<1>1. TypeOK /\ Operations /\ LeasesCounted /\ [Next]_vars
        => TypeOK' /\ Operations' /\ LeasesCounted'
  BY NextKinds, NextLeases
<1> QED BY <1>1, InitTypes, PTL DEF Spec

-----------------------------------------------------------------------------
(* The tree. A closed scope is empty, and what takes a scope off its       *)
(* parent closed it before.                                                *)
Tree ==
    /\ Known(Root)
    /\ \A s \in Scopes : ~IsOpen(s) => scope[s].children = <<>> /\ scope[s].resources = <<>>
    /\ \A f \in Fibers : \A t \in ToSet(todo[f]) :
          t[1] = "unregister" => scope[t[2]].tag = "closed"

(* Steps that change no scope.                                             *)
LEMMA SameTree ==
    ASSUME Tree, UNCHANGED scope,
           \A f \in Fibers : \A t \in ToSet(todo'[f]) : t \in ToSet(todo[f]) \/ t[1] # "unregister"
    PROVE  Tree'
BY DEF Tree, Known, IsOpen

(* The tasks of a fiber after a step of it, as sets.                       *)
LEMMA ReplaceSets ==
    ASSUME TypeOK, NEW f \in Fibers, todo[f] # <<>>, NEW new \in Seq(Tasks), Replace(f, new)
    PROVE  /\ ToSet(todo'[f]) = ToSet(new) \cup ToSet(Tail(todo[f]))
           /\ ToSet(todo[f]) = {Head(todo[f])} \cup ToSet(Tail(todo[f]))
           /\ \A g \in Fibers \ {f} : todo'[g] = todo[g]
<1>1. todo'[f] = new \o Tail(todo[f]) /\ \A g \in Fibers \ {f} : todo'[g] = todo[g]
  BY ReplaceType
<1>2. todo[f] \in Seq(Tasks) /\ todo[f] # <<>> /\ new \in Seq(Tasks)
  BY DEF TypeOK
<1>3. Tail(todo[f]) \in Seq(Tasks) /\ ToSet(todo[f]) = {Head(todo[f])} \cup ToSet(Tail(todo[f]))
  BY ONLY <1>2, TailFacts
<1>4. ToSet(new \o Tail(todo[f])) = ToSet(new) \cup ToSet(Tail(todo[f]))
  BY ONLY <1>2, <1>3, JoinFacts
<1> QED BY <1>1, <1>3, <1>4

(* The tasks of a step that neither closes a scope nor takes leases: at    *)
(* most one takes the place of the first.                                  *)
LEMMA OneTask ==
    ASSUME TypeOK, NEW f \in Fibers,
           \/ OpenChild(f) \/ OpenNone(f) \/ Register(f) \/ Unregister(f)
           \/ Release(f) \/ Finalize(f) \/ TakeFinalizer(f) \/ Unlease(f) \/ LeaseResource(f)
    PROVE  /\ todo[f] # <<>>
           /\ \/ Replace(f, <<>>)
              \/ \E t \in Tasks : t[1] \in {"open", "finalize", "take"} /\ Replace(f, <<t>>)
           /\ Head(todo[f]) \in Tasks
           /\ Head(todo[f])[1] \notin {"close", "read", "climb"}
           /\ \A g \in Fibers \ {f} : todo'[g] = todo[g]
           /\ \A t \in ToSet(todo'[f]) : t \in ToSet(todo[f]) \/ t[1] \in {"open", "finalize", "take"}
           /\ \A t \in ToSet(todo[f]) : t \in ToSet(todo'[f]) \/ t = Head(todo[f])
<1>1. /\ todo[f] # <<>> /\ Head(todo[f])[1] \notin {"close", "read", "climb"}
      /\ Head(todo[f]) \in Tasks
      /\ Doing(f, "open") => On(f) \in Scopes
      /\ (Doing(f, "register") \/ Doing(f, "release") \/ Doing(f, "take") \/ Doing(f, "unlease"))
            => On(f) \in Resources
  BY DoingFacts DEF OpenChild, OpenNone, Register, Unregister, Release, Finalize, TakeFinalizer,
     Unlease, LeaseResource
<1>2. \/ Replace(f, <<>>)
      \/ Doing(f, "open") /\ Replace(f, << <<"open", parent[On(f)]>> >>)
      \/ /\ Doing(f, "register") \/ Doing(f, "release") \/ Doing(f, "take")
         /\ Replace(f, << <<"finalize", On(f)>> >>)
      \/ Doing(f, "unlease") /\ Replace(f, << <<"take", On(f)>> >>)
  BY DEF OpenChild, OpenNone, Register, Unregister, Release, Finalize, TakeFinalizer,
     Unlease, LeaseResource
<1>3. /\ Doing(f, "open") => <<"open", parent[On(f)]>> \in Tasks
      /\ (Doing(f, "register") \/ Doing(f, "release") \/ Doing(f, "take") \/ Doing(f, "unlease"))
            => <<"finalize", On(f)>> \in Tasks /\ <<"take", On(f)>> \in Tasks
  BY <1>1, TaskTypes DEF TypeOK
<1>4. /\ <<"open", parent[On(f)]>>[1] = "open" /\ <<"finalize", On(f)>>[1] = "finalize"
      /\ <<"take", On(f)>>[1] = "take"
  OBVIOUS
<1>5. \/ Replace(f, <<>>)
      \/ \E t \in Tasks : t[1] \in {"open", "finalize", "take"} /\ Replace(f, <<t>>)
  BY <1>2, <1>3, <1>4
<1>6. \E new \in Seq(Tasks) : /\ Replace(f, new)
                              /\ \A t \in ToSet(new) : t[1] \in {"open", "finalize", "take"}
  <2>1. CASE Replace(f, <<>>)
    <3>1. <<>> \in Seq(Tasks) /\ ToSet(<<>>) = {}
      BY DEF ToSet
    <3> QED BY <2>1, <3>1
  <2>2. ASSUME NEW t \in Tasks, t[1] \in {"open", "finalize", "take"}, Replace(f, <<t>>)
        PROVE  \E new \in Seq(Tasks) : /\ Replace(f, new)
                                       /\ \A u \in ToSet(new) : u[1] \in {"open", "finalize", "take"}
    <3>1. <<t>> \in Seq(Tasks) /\ ToSet(<<t>>) = {t}
      BY ONLY t \in Tasks, SingleFacts
    <3> QED BY <2>2, <3>1
  <2> QED BY <1>5, <2>1, <2>2
<1>7. PICK new \in Seq(Tasks) : /\ Replace(f, new)
                                /\ \A t \in ToSet(new) : t[1] \in {"open", "finalize", "take"}
  BY <1>6
<1>8. /\ ToSet(todo'[f]) = ToSet(new) \cup ToSet(Tail(todo[f]))
      /\ ToSet(todo[f]) = {Head(todo[f])} \cup ToSet(Tail(todo[f]))
      /\ \A g \in Fibers \ {f} : todo'[g] = todo[g]
  BY <1>1, <1>7, ReplaceSets
<1> QED BY <1>1, <1>5, <1>7, <1>8

(* The tasks that a start, a cancelation and a reading step leave.         *)
LEMMA StartTasks ==
    ASSUME TypeOK, NEW f \in Fibers, Start(f)
    PROVE  /\ todo[f] = <<>> /\ UNCHANGED <<scope, parent, runs, abandoned>>
           /\ \A g \in Fibers \ {f} : todo'[g] = todo[g]
           /\ \A t \in ToSet(todo'[f]) : t[1] \notin {"unregister", "release", "take", "finalize"}
           /\ \/ \E s \in Scopes, r \in Resources :
                    Acquire(f, r, s) /\ todo'[f] = << <<"register", r, s>> >>
              \/ /\ UNCHANGED resource
                 /\ \A t \in ToSet(todo'[f]) : t[1] \notin {"register", "lease"}
<1> USE DEF TypeOK
<1>1. ASSUME NEW tasks \in Seq(Tasks), NEW b \in BOOLEAN, Begin(f, tasks, b)
      PROVE  todo[f] = <<>> /\ todo'[f] = tasks /\ \A g \in Fibers \ {f} : todo'[g] = todo[g]
  BY <1>1, BeginType
<1>2. ASSUME NEW t \in Tasks
      PROVE  <<t>> \in Seq(Tasks) /\ ToSet(<<t>>) = {t}
  BY ONLY t \in Tasks, SingleFacts
<1>3. UNCHANGED <<scope, parent, runs, abandoned>>
  BY DEF Start, StartOpen, StartClose, StartLease, Acquire, CancelLease
<1>4. ASSUME NEW t \in Tasks, NEW b \in BOOLEAN, Begin(f, <<t>>, b)
      PROVE  /\ todo[f] = <<>> /\ \A g \in Fibers \ {f} : todo'[g] = todo[g]
             /\ todo'[f] = <<t>> /\ \A u \in ToSet(todo'[f]) : u = t
  BY <1>1, <1>2, <1>4
<1>5. ASSUME NEW s \in Scopes, StartOpen(f, s) \/ StartClose(f, s)
      PROVE  /\ todo[f] = <<>> /\ \A g \in Fibers \ {f} : todo'[g] = todo[g]
             /\ \A u \in ToSet(todo'[f]) : u[1] \in {"open", "close", "read", "climb", "unlease"}
  <2>1. (s = Root) \in BOOLEAN /\ <<"open", s>> \in Tasks /\ <<"close", s>> \in Tasks
        /\ <<"open", s>>[1] = "open" /\ <<"close", s>>[1] = "close"
    BY TaskTypes
  <2> QED BY <1>4, <1>5, <2>1 DEF StartOpen, StartClose
<1>6. ASSUME NEW s \in Scopes, NEW r \in Resources, Acquire(f, r, s)
      PROVE  /\ todo[f] = <<>> /\ \A g \in Fibers \ {f} : todo'[g] = todo[g]
             /\ todo'[f] = << <<"register", r, s>> >>
             /\ \A u \in ToSet(todo'[f]) : u[1] = "register"
  <2>1. <<"register", r, s>> \in Tasks /\ <<"register", r, s>>[1] = "register"
    BY TaskTypes
  <2> QED BY <1>4, <1>6, <2>1 DEF Acquire
<1>7. ASSUME NEW s \in Scopes, StartLease(f, s)
      PROVE  /\ todo[f] = <<>> /\ \A g \in Fibers \ {f} : todo'[g] = todo[g]
             /\ \A u \in ToSet(todo'[f]) : u[1] \in {"open", "close", "read", "climb", "unlease"}
  <2> DEFINE e == Each("read", scope[s].children)
  <2>1. scope[s].children \in Seq(Scopes) /\ e \in Seq(Tasks) /\ <<"climb", s>> \in Tasks
    BY EachTasks, TaskTypes DEF ScopeState
  <2>2. e \in Seq({"read"} \X Scopes)
    BY ONLY <2>1, EachType
  <2>3. \A t \in ToSet(e) : t \in {"read"} \X Scopes
    BY <2>2 DEF ToSet
  <2>4. \A t \in {"read"} \X Scopes : t[1] = "read"
    OBVIOUS
  <2>5. Begin(f, Append(e, <<"climb", s>>), TRUE)
    BY <1>7 DEF StartLease
  <2> HIDE DEF e
  <2>6. /\ Append(e, <<"climb", s>>) \in Seq(Tasks)
        /\ ToSet(Append(e, <<"climb", s>>)) = ToSet(e) \cup {<<"climb", s>>}
    BY ONLY <2>1, AppendFacts
  <2>7. <<"climb", s>>[1] = "climb"
    OBVIOUS
  <2>8. \A t \in ToSet(Append(e, <<"climb", s>>)) : t[1] \in {"read", "climb"}
    BY <2>3, <2>4, <2>6, <2>7
  <2>9. todo[f] = <<>> /\ todo'[f] = Append(e, <<"climb", s>>)
        /\ \A g \in Fibers \ {f} : todo'[g] = todo[g]
    BY <1>1, <2>5, <2>6
  <2> QED BY <2>8, <2>9
<1>8. ASSUME CancelLease(f)
      PROVE  /\ todo[f] = <<>> /\ \A g \in Fibers \ {f} : todo'[g] = todo[g]
             /\ \A u \in ToSet(todo'[f]) : u[1] \in {"open", "close", "read", "climb", "unlease"}
  <2>1. held[f] \in Seq(Resources) /\ Each("unlease", held[f]) \in Seq(Tasks)
    BY EachTasks
  <2>2. Each("unlease", held[f]) \in Seq({"unlease"} \X Resources)
    BY ONLY <2>1, EachType
  <2>3. \A t \in ToSet(Each("unlease", held[f])) : t \in {"unlease"} \X Resources
    BY <2>2 DEF ToSet
  <2>4. \A t \in {"unlease"} \X Resources : t[1] = "unlease"
    OBVIOUS
  <2>5. Begin(f, Each("unlease", held[f]), TRUE)
    BY <1>8 DEF CancelLease
  <2> QED BY <1>1, <2>1, <2>3, <2>4, <2>5
<1>9. CASE \E s \in Scopes, r \in Resources : Acquire(f, r, s)
  BY <1>3, <1>6, <1>9
<1>10. CASE \/ \E s \in Scopes : StartOpen(f, s) \/ StartClose(f, s) \/ StartLease(f, s)
            \/ CancelLease(f)
  <2>1. UNCHANGED resource
    BY <1>10 DEF StartOpen, StartClose, StartLease, CancelLease
  <2> QED BY <1>3, <1>5, <1>7, <1>8, <1>10, <2>1
<1> QED BY <1>9, <1>10 DEF Start
-----------------------------------------------------------------------------
(* What the updates of the tree change.                                    *)

(* open() adds one scope, which was new, and changes no resource list.     *)
LEMMA OpenScopes ==
    ASSUME TypeOK, NEW f \in Fibers, OpenChild(f)
    PROVE  \/ UNCHANGED <<scope, parent>>
           \/ \E s, n \in Scopes :
                 /\ IsOpen(s) /\ ~Known(n) /\ s # n
                 /\ parent' = [parent EXCEPT ![n] = s]
                 /\ scope'[s].tag = scope[s].tag /\ scope'[s].resources = scope[s].resources
                 /\ scope'[s].children = Append(scope[s].children, n)
                 /\ scope'[n].tag = "open" /\ scope'[n].resources = scope[n].resources
                 /\ scope'[n].children = scope[n].children
                 /\ \A x \in Scopes \ {s, n} : scope'[x] = scope[x]
<1> SUFFICES ASSUME ~UNCHANGED <<scope, parent>>
             PROVE  \E s, n \in Scopes :
                 /\ IsOpen(s) /\ ~Known(n) /\ s # n
                 /\ parent' = [parent EXCEPT ![n] = s]
                 /\ scope'[s].tag = scope[s].tag /\ scope'[s].resources = scope[s].resources
                 /\ scope'[s].children = Append(scope[s].children, n)
                 /\ scope'[n].tag = "open" /\ scope'[n].resources = scope[n].resources
                 /\ scope'[n].children = scope[n].children
                 /\ \A x \in Scopes \ {s, n} : scope'[x] = scope[x]
  OBVIOUS
<1>1. Doing(f, "open")
  BY DEF OpenChild
<1>2. On(f) \in Scopes
  BY <1>1, DoingFacts
<1>3. PICK s \in Scopes : s = On(f)
  BY <1>2
<1>4. IsOpen(s)
  BY <1>3 DEF OpenChild
<1>5. PICK n \in Scopes : /\ ~Known(n)
                          /\ scope' = [scope EXCEPT ![s].children = Append(@, n), ![n].tag = "open"]
                          /\ parent' = [parent EXCEPT ![n] = s]
  BY <1>3, <1>4 DEF OpenChild
<1>6. s # n
  BY <1>4, <1>5 DEF IsOpen, Known
<1>7. /\ scope \in [Scopes -> ScopeState]
      /\ scope[s] \in ScopeState /\ scope[n] \in ScopeState
  BY DEF TypeOK
<1> DEFINE one == [scope EXCEPT ![s].children = Append(@, n)]
<1>8. /\ one[s].tag = scope[s].tag /\ one[s].resources = scope[s].resources
      /\ one[s].children = Append(scope[s].children, n)
      /\ \A x \in Scopes \ {s} : one[x] = scope[x]
      /\ DOMAIN one = Scopes
  BY <1>7 DEF ScopeState
<1>9. scope' = [one EXCEPT ![n].tag = "open"]
  BY <1>5
<1> HIDE DEF one
<1>10. /\ scope'[n] = [one[n] EXCEPT !.tag = "open"]
       /\ \A x \in Scopes \ {n} : scope'[x] = one[x]
  BY <1>8, <1>9
<1>11. one[n] \in ScopeState /\ one[n] = scope[n]
  BY <1>6, <1>7, <1>8
<1>12. /\ scope'[n].tag = "open" /\ scope'[n].resources = scope[n].resources
       /\ scope'[n].children = scope[n].children
  BY <1>10, <1>11 DEF ScopeState
<1>13. /\ scope'[s] = one[s] /\ \A x \in Scopes \ {s, n} : scope'[x] = scope[x]
  BY <1>6, <1>8, <1>10
<1>14. /\ scope'[s].tag = scope[s].tag /\ scope'[s].resources = scope[s].resources
       /\ scope'[s].children = Append(scope[s].children, n)
  BY <1>8, <1>13
<1>15. IsOpen(s) /\ ~Known(n) /\ parent' = [parent EXCEPT ![n] = s]
  BY <1>4, <1>5
<1> HIDE DEF one
<1> QED BY ONLY <1>6, <1>12, <1>13, <1>14, <1>15, s \in Scopes, n \in Scopes

(* register() adds a resource to the resources of an open scope, or else   *)
(* leads to finalizing it.                                                 *)
LEMMA RegisterScopes ==
    ASSUME TypeOK, NEW f \in Fibers, Register(f)
    PROVE  \/ UNCHANGED scope /\ Replace(f, << <<"finalize", On(f)>> >>)
           \/ \E s \in Scopes :
                 /\ IsOpen(s) /\ Replace(f, <<>>)
                 /\ scope'[s].tag = scope[s].tag /\ scope'[s].children = scope[s].children
                 /\ scope'[s].resources = <<On(f)>> \o scope[s].resources
                 /\ \A x \in Scopes \ {s} : scope'[x] = scope[x]
<1>1. Next1(f)[3] \in Scopes
  BY DoingFacts DEF Register
<1>2. PICK s \in Scopes : s = Next1(f)[3]
  BY <1>1
<1>3. CASE IsOpen(s)
  <2>1. scope' = [scope EXCEPT ![s].resources = <<On(f)>> \o @] /\ Replace(f, <<>>)
    BY <1>2, <1>3 DEF Register
  <2>2. scope \in [Scopes -> ScopeState] /\ scope[s] \in ScopeState
    BY DEF TypeOK
  <2>3. /\ scope'[s] = [scope[s] EXCEPT !.resources = <<On(f)>> \o @]
        /\ \A x \in Scopes \ {s} : scope'[x] = scope[x]
    BY <2>1, <2>2
  <2>4. /\ scope'[s].tag = scope[s].tag /\ scope'[s].children = scope[s].children
        /\ scope'[s].resources = <<On(f)>> \o scope[s].resources
    BY <2>2, <2>3 DEF ScopeState
  <2> QED BY <1>3, <2>1, <2>3, <2>4
<1>4. CASE ~IsOpen(s)
  BY <1>2, <1>4 DEF Register
<1> QED BY <1>3, <1>4

(* close() empties its scope.                                              *)
LEMMA CloseScopes ==
    ASSUME TypeOK, NEW f \in Fibers, Close(f)
    PROVE  \E s \in Scopes :
              /\ s = On(f) /\ Head(todo[f]) = <<"close", s>> /\ todo[f] # <<>>
              /\ scope'[s].tag = "closed" /\ scope'[s].children = <<>> /\ scope'[s].resources = <<>>
              /\ \A x \in Scopes \ {s} : scope'[x] = scope[x]
              /\ \E new \in Seq(Tasks) :
                    /\ Replace(f, new)
                    /\ new = IF IsOpen(s) THEN CloseTasks(s) ELSE <<>>
<1>1. On(f) \in Scopes /\ Head(todo[f]) = <<"close", On(f)>> /\ todo[f] # <<>>
  BY DoingFacts DEF Close
<1>2. PICK s \in Scopes : s = On(f)
  BY <1>1
<1>3. scope' = [scope EXCEPT ![s] = Empty("closed")]
  BY <1>2 DEF Close
<1>4. /\ scope'[s] = Empty("closed") /\ \A x \in Scopes \ {s} : scope'[x] = scope[x]
  BY <1>3 DEF TypeOK
<1>5. Replace(f, IF IsOpen(s) THEN CloseTasks(s) ELSE <<>>)
  BY <1>2 DEF Close, CloseTasks
<1>6. CloseTasks(s) \in Seq(Tasks) /\ <<>> \in Seq(Tasks)
  BY CloseTasksFacts, SmallLists
<1> DEFINE new == IF IsOpen(s) THEN CloseTasks(s) ELSE <<>>
<1>7. new \in Seq(Tasks) /\ Replace(f, new)
  BY <1>5, <1>6
<1>8. scope'[s].tag = "closed" /\ scope'[s].children = <<>> /\ scope'[s].resources = <<>>
  BY <1>4 DEF Empty
<1>9. \E q \in Seq(Tasks) : Replace(f, q) /\ q = IF IsOpen(s) THEN CloseTasks(s) ELSE <<>>
  BY <1>7
<1> QED BY <1>1, <1>2, <1>4, <1>8, <1>9

(* releaseChildScope takes a scope from the children of its parent.        *)
LEMMA UnregisterScopes ==
    ASSUME TypeOK, NEW f \in Fibers, Unregister(f)
    PROVE  \E s \in Scopes :
              /\ Head(todo[f]) = <<"unregister", s>> /\ todo[f] # <<>>
              /\ \A x \in Scopes :
                    /\ scope'[x].tag = scope[x].tag /\ scope'[x].resources = scope[x].resources
                    /\ scope'[x].children \in {scope[x].children, Without(scope[x].children, s)}
<1>1. On(f) \in Scopes /\ Head(todo[f]) = <<"unregister", On(f)>> /\ todo[f] # <<>>
  BY DoingFacts DEF Unregister
<1>2. PICK s \in Scopes : s = On(f)
  BY <1>1
<1>3. CASE s = Root
  BY <1>1, <1>2, <1>3 DEF Unregister
<1>4. CASE s # Root
  <2>1. PICK p \in Scopes : p = parent[s]
    BY DEF TypeOK
  <2>2. scope' = [scope EXCEPT ![p].children = Without(@, s)]
    BY <1>2, <1>4, <2>1 DEF Unregister
  <2>3. scope \in [Scopes -> ScopeState] /\ scope[p] \in ScopeState
    BY DEF TypeOK
  <2>4. /\ scope'[p] = [scope[p] EXCEPT !.children = Without(@, s)]
        /\ \A x \in Scopes \ {p} : scope'[x] = scope[x]
    BY <2>2, <2>3
  <2>5. /\ scope'[p].tag = scope[p].tag /\ scope'[p].resources = scope[p].resources
        /\ scope'[p].children = Without(scope[p].children, s)
    BY <2>3, <2>4 DEF ScopeState
  <2> QED BY <1>1, <1>2, <2>4, <2>5
<1> QED BY <1>3, <1>4

(* The steps that leave the scopes alone.                                  *)
LEMMA QuietSteps ==
    ASSUME TypeOK, Operations, NEW f \in Fibers,
           \/ Start(f) \/ Cancel(f) \/ OpenNone(f) \/ Release(f) \/ Finalize(f)
           \/ TakeFinalizer(f) \/ Unlease(f) \/ LeaseResource(f) \/ ReadResources(f)
    PROVE  /\ UNCHANGED <<scope, parent>>
           /\ \A g \in Fibers : \A t \in ToSet(todo'[g]) : t \in ToSet(todo[g]) \/ t[1] # "unregister"
<1>0. UNCHANGED <<scope, parent>>
  BY DEF Start, StartOpen, StartClose, StartLease, Acquire, CancelLease, Cancel, OpenNone, Release,
     Finalize, TakeFinalizer, Unlease, LeaseResource, ReadResources
<1>1. CASE Start(f)
  BY <1>0, <1>1, StartTasks
<1>2. CASE Cancel(f)
  <2>1. ToSet(<<>>) = {}
    BY DEF ToSet
  <2> QED BY <1>0, <1>2, <2>1, CancelTypes
<1>3. CASE ReadResources(f)
  <2>1. \A t \in ToSet(todo'[f]) : t[1] # "unregister"
    BY <1>3, ReadKinds DEF LeasingKinds
  <2>2. \A g \in Fibers \ {f} : todo'[g] = todo[g]
    BY <1>3, ReadTypes
  <2> QED BY <1>0, <2>1, <2>2
<1>4. CASE \/ OpenNone(f) \/ Release(f) \/ Finalize(f)
           \/ TakeFinalizer(f) \/ Unlease(f) \/ LeaseResource(f)
  <2>1. /\ \A g \in Fibers \ {f} : todo'[g] = todo[g]
        /\ \A t \in ToSet(todo'[f]) : t \in ToSet(todo[f]) \/ t[1] \in {"open", "finalize", "take"}
    BY <1>4, OneTask
  <2> QED BY <1>0, <2>1
<1> QED BY <1>1, <1>2, <1>3, <1>4

(* What each step does to the tree.                                        *)
LEMMA KeepTree ==
    ASSUME Tree,
           \A s \in Scopes : \/ scope'[s].tag = "open"
                             \/ scope'[s].children = <<>> /\ scope'[s].resources = <<>>,
           \A s \in Scopes : Known(s) => Known(s)',
           \A s \in Scopes : scope[s].tag = "closed" => scope'[s].tag = "closed",
           \A f \in Fibers : \A t \in ToSet(todo'[f]) :
              t[1] = "unregister" => t[2] \in Scopes
                 /\ (t \in ToSet(todo[f]) \/ scope'[t[2]].tag = "closed")
    PROVE  Tree'
BY ScopeAssumption DEF Tree, IsOpen

(* Every step keeps the closed scopes empty.                               *)
LEMMA NextTree ==
    ASSUME TypeOK, Operations, Tree, [Next]_vars
    PROVE  Tree'
<1>1. CASE UNCHANGED vars
  BY <1>1 DEF vars, Tree, Known, IsOpen
<1>2. ASSUME NEW f \in Fibers,
             \/ Start(f) \/ Cancel(f) \/ OpenNone(f) \/ Release(f) \/ Finalize(f)
             \/ TakeFinalizer(f) \/ Unlease(f) \/ LeaseResource(f) \/ ReadResources(f)
      PROVE  Tree'
  BY <1>2, QuietSteps, SameTree
<1>3. ASSUME NEW f \in Fibers, OpenChild(f) \/ Register(f) \/ Unregister(f)
      PROVE  \A g \in Fibers : \A t \in ToSet(todo'[g]) : t \in ToSet(todo[g]) \/ t[1] # "unregister"
  <2>1. /\ \A g \in Fibers \ {f} : todo'[g] = todo[g]
        /\ \A t \in ToSet(todo'[f]) : t \in ToSet(todo[f]) \/ t[1] \in {"open", "finalize", "take"}
    BY <1>3, OneTask
  <2> QED BY <2>1
<1>4. \A g \in Fibers : \A t \in ToSet(todo[g]) : t \in Tasks
  BY DEF TypeOK, ToSet
<1>5. \A g \in Fibers : \A t \in ToSet(todo[g]) : t[1] = "unregister" => t[2] \in Scopes
  BY <1>4, TaskFields
<1>6. ASSUME NEW f \in Fibers, OpenChild(f) PROVE Tree'
  <2>1. CASE UNCHANGED <<scope, parent>>
    BY <1>3, <1>6, <2>1, SameTree
  <2>2. CASE ~UNCHANGED <<scope, parent>>
    <3>1. PICK s \in Scopes, n \in Scopes :
                 /\ IsOpen(s) /\ ~Known(n) /\ s # n
                 /\ scope'[s].tag = scope[s].tag
                 /\ scope'[n].tag = "open"
                 /\ \A x \in Scopes \ {s, n} : scope'[x] = scope[x]
      BY <1>6, <2>2, OpenScopes
    <3>2. ASSUME NEW x \in Scopes
          PROVE  /\ \/ scope'[x].tag = "open"
                    \/ scope'[x].children = <<>> /\ scope'[x].resources = <<>>
                 /\ Known(x) => Known(x)'
                 /\ scope[x].tag = "closed" => scope'[x].tag = "closed"
      BY <3>1 DEF Tree, Known, IsOpen
    <3> QED BY <1>3, <1>5, <1>6, <3>2, KeepTree DEF Tree
  <2> QED BY <2>1, <2>2
<1>7. ASSUME NEW f \in Fibers, Register(f) PROVE Tree'
  <2>1. CASE UNCHANGED scope
    BY <1>3, <1>7, <2>1, SameTree
  <2>2. CASE ~UNCHANGED scope
    <3>1. PICK s \in Scopes :
                 /\ IsOpen(s)
                 /\ scope'[s].tag = scope[s].tag
                 /\ \A x \in Scopes \ {s} : scope'[x] = scope[x]
      BY <1>7, <2>2, RegisterScopes
    <3>2. ASSUME NEW x \in Scopes
          PROVE  /\ \/ scope'[x].tag = "open"
                    \/ scope'[x].children = <<>> /\ scope'[x].resources = <<>>
                 /\ Known(x) => Known(x)'
                 /\ scope[x].tag = "closed" => scope'[x].tag = "closed"
      BY <3>1 DEF Tree, Known, IsOpen
    <3> QED BY <1>3, <1>5, <1>7, <3>2, KeepTree DEF Tree
  <2> QED BY <2>1, <2>2
<1>8. ASSUME NEW f \in Fibers, Unregister(f) PROVE Tree'
  <2>1. PICK s \in Scopes : \A x \in Scopes :
                    /\ scope'[x].tag = scope[x].tag /\ scope'[x].resources = scope[x].resources
                    /\ scope'[x].children \in {scope[x].children, Without(scope[x].children, s)}
    BY <1>8, UnregisterScopes
  <2>2. Without(<<>>, s) = <<>>
    BY DEF Without, ToSet
  <2>3. ASSUME NEW x \in Scopes
        PROVE  /\ \/ scope'[x].tag = "open"
                  \/ scope'[x].children = <<>> /\ scope'[x].resources = <<>>
               /\ Known(x) => Known(x)'
               /\ scope[x].tag = "closed" => scope'[x].tag = "closed"
    BY <2>1, <2>2 DEF Tree, Known, IsOpen
  <2> QED BY <1>3, <1>5, <1>8, <2>3, KeepTree DEF Tree
<1>9. ASSUME NEW f \in Fibers, Close(f) PROVE Tree'
  <2>1. PICK s \in Scopes :
              /\ todo[f] # <<>>
              /\ scope'[s].tag = "closed" /\ scope'[s].children = <<>> /\ scope'[s].resources = <<>>
              /\ \A x \in Scopes \ {s} : scope'[x] = scope[x]
              /\ \E new \in Seq(Tasks) :
                    /\ Replace(f, new)
                    /\ new = IF IsOpen(s) THEN CloseTasks(s) ELSE <<>>
    BY <1>9, CloseScopes
  <2>2. PICK new \in Seq(Tasks) : Replace(f, new) /\ new = IF IsOpen(s) THEN CloseTasks(s) ELSE <<>>
    BY <2>1
  <2>3. /\ ToSet(todo'[f]) = ToSet(new) \cup ToSet(Tail(todo[f]))
        /\ ToSet(todo[f]) = {Head(todo[f])} \cup ToSet(Tail(todo[f]))
        /\ \A g \in Fibers \ {f} : todo'[g] = todo[g]
    BY <2>1, <2>2, ReplaceSets
  <2>4. \A t \in ToSet(new) : t[1] # "unregister" \/ t = <<"unregister", s>>
    <3>1. CASE ~IsOpen(s)
      BY <2>2, <3>1 DEF ToSet
    <3>2. CASE IsOpen(s)
      BY <2>2, <3>2, CloseTasksFacts
    <3> QED BY <3>1, <3>2
  <2>5. <<"unregister", s>>[2] = s
    OBVIOUS
  <2>6. ASSUME NEW x \in Scopes
        PROVE  /\ \/ scope'[x].tag = "open"
                  \/ scope'[x].children = <<>> /\ scope'[x].resources = <<>>
               /\ Known(x) => Known(x)'
               /\ scope[x].tag = "closed" => scope'[x].tag = "closed"
    BY <2>1 DEF Tree, Known, IsOpen
  <2>7. ASSUME NEW g \in Fibers, NEW t \in ToSet(todo'[g]), t[1] = "unregister"
        PROVE  t[2] \in Scopes /\ (t \in ToSet(todo[g]) \/ scope'[t[2]].tag = "closed")
    <3>1. CASE g = f /\ t \in ToSet(new)
      <4>1. t[2] = s
        BY <2>4, <2>5, <2>7, <3>1
      <4> QED BY <2>1, <4>1
    <3>2. CASE t \in ToSet(todo[g])
      BY <1>5, <2>7, <3>2
    <3> QED BY <2>3, <2>7, <3>1, <3>2
  <2> QED BY <2>6, <2>7, KeepTree
<1> QED BY <1>1, <1>2, <1>6, <1>7, <1>8, <1>9 DEF Next, Step
(* An open scope is among the children of its parent, or about to be       *)
(* closed, unless a canceled close() abandoned it.                         *)
ScopesKnown ==
    \A s \in Scopes \ (abandoned \cup {Root}) :
        IsOpen(s) => \/ s \in ToSet(scope[parent[s]].children)
                     \/ \E f \in Fibers : <<"close", s>> \in ToSet(todo[f])

(* Scopes stay known if each that is open was, and kept its place or its   *)
(* task.                                                                   *)
LEMMA KeepKnown ==
    ASSUME ScopesKnown, abandoned \subseteq abandoned',
           \A s \in Scopes \ (abandoned' \cup {Root}) : IsOpen(s)' =>
              /\ IsOpen(s) /\ parent'[s] = parent[s]
              /\ s \in ToSet(scope[parent[s]].children) =>
                    \/ s \in ToSet(scope'[parent[s]].children)
                    \/ \E f \in Fibers : <<"close", s>> \in ToSet(todo'[f])
              /\ \A f \in Fibers : <<"close", s>> \in ToSet(todo[f]) => <<"close", s>> \in ToSet(todo'[f])
    PROVE  ScopesKnown'
<1> SUFFICES ASSUME NEW s \in Scopes \ (abandoned' \cup {Root}), IsOpen(s)'
             PROVE  \/ s \in ToSet(scope'[parent'[s]].children)
                    \/ \E f \in Fibers : <<"close", s>> \in ToSet(todo'[f])
  BY DEF ScopesKnown
<1>1. s \in Scopes \ (abandoned \cup {Root}) /\ IsOpen(s) /\ parent'[s] = parent[s]
  OBVIOUS
<1>2. CASE s \in ToSet(scope[parent[s]].children)
  BY <1>1, <1>2
<1>3. CASE \E f \in Fibers : <<"close", s>> \in ToSet(todo[f])
  BY <1>1, <1>3
<1> QED BY <1>1, <1>2, <1>3 DEF ScopesKnown

(* Only close() ends a task to close a scope.                              *)
LEMMA CloseTaskStays ==
    ASSUME TypeOK, Operations, NEW f \in Fibers, Start(f) \/ Step(f), ~Close(f)
    PROVE  \A g \in Fibers, s \in Scopes : <<"close", s>> \in ToSet(todo[g]) => <<"close", s>> \in ToSet(todo'[g])
<1>0. \A s \in Scopes : <<"close", s>>[1] = "close"
  OBVIOUS
<1>1. CASE Start(f)
  <2>1. todo[f] = <<>> /\ \A g \in Fibers \ {f} : todo'[g] = todo[g]
    BY <1>1, StartTasks
  <2>2. ToSet(<<>>) = {}
    BY DEF ToSet
  <2> QED BY <2>1, <2>2
<1>2. CASE ReadResources(f)
  <2>1. \A t \in ToSet(todo[f]) : t[1] # "close"
    BY <1>2, ReadKinds DEF LeasingKinds
  <2>2. \A g \in Fibers \ {f} : todo'[g] = todo[g]
    BY <1>2, ReadTypes
  <2> QED BY <1>0, <2>1, <2>2
<1>3. CASE \/ OpenChild(f) \/ OpenNone(f) \/ Register(f) \/ Unregister(f)
           \/ Release(f) \/ Finalize(f) \/ TakeFinalizer(f) \/ Unlease(f) \/ LeaseResource(f)
  <2>1. /\ Head(todo[f])[1] # "close"
        /\ \A g \in Fibers \ {f} : todo'[g] = todo[g]
        /\ \A t \in ToSet(todo[f]) : t \in ToSet(todo'[f]) \/ t = Head(todo[f])
    BY <1>3, OneTask
  <2> QED BY <1>0, <2>1
<1> QED BY <1>1, <1>2, <1>3 DEF Step

(* Every step keeps the open scopes known: only close() ends a task to     *)
(* close a scope, and only a closed scope leaves its parent.               *)
LEMMA NextKnown ==
    ASSUME TypeOK, Operations, Tree, ScopesKnown, [Next]_vars
    PROVE  ScopesKnown'
<1>1. CASE UNCHANGED vars
  BY <1>1 DEF vars, ScopesKnown, IsOpen
<1>2. ASSUME NEW f \in Fibers, Start(f) \/ Step(f), ~Close(f),
             UNCHANGED <<scope, parent>>
      PROVE  ScopesKnown'
  <2>1. UNCHANGED abandoned
    BY <1>2 DEF Start, StartOpen, StartClose, StartLease, Acquire, CancelLease, Step, OpenChild, OpenNone,
       Register, Unregister, Release, Finalize, TakeFinalizer, Unlease, LeaseResource, ReadResources
  <2> QED BY <1>2, <2>1, CloseTaskStays, KeepKnown DEF IsOpen
<1>3. ASSUME NEW f \in Fibers, Cancel(f) PROVE ScopesKnown'
  <2>1. UNCHANGED <<scope, parent>> /\ abandoned \subseteq abandoned'
    BY <1>3 DEF Cancel
  <2>2. \A s \in Scopes : <<"close", s>>[1] = "close" /\ <<"close", s>>[2] = s
    OBVIOUS
  <2>3. ASSUME NEW s \in Scopes, s \notin abandoned', NEW g \in Fibers, <<"close", s>> \in ToSet(todo[g])
        PROVE  <<"close", s>> \in ToSet(todo'[g])
    <3>1. g # f
      BY <1>3, <2>2, <2>3, CancelTypes
    <3> QED BY <1>3, <2>3, <3>1, CancelTypes
  <2> QED BY <2>1, <2>3, KeepKnown DEF IsOpen
<1>4. ASSUME NEW f \in Fibers, OpenChild(f), ~UNCHANGED <<scope, parent>> PROVE ScopesKnown'
  <2>1. PICK s \in Scopes, n \in Scopes :
                 /\ IsOpen(s) /\ ~Known(n) /\ s # n
                 /\ parent' = [parent EXCEPT ![n] = s]
                 /\ scope'[s].tag = scope[s].tag
                 /\ scope'[s].children = Append(scope[s].children, n)
                 /\ scope'[n].children = scope[n].children
                 /\ \A x \in Scopes \ {s, n} : scope'[x] = scope[x]
    BY <1>4, OpenScopes
  <2>2. \A g \in Fibers, x \in Scopes : <<"close", x>> \in ToSet(todo[g]) => <<"close", x>> \in ToSet(todo'[g])
    <3>1. ~Close(f)
      BY <1>4 DEF OpenChild, Close, Doing
    <3> QED BY <1>4, <3>1, CloseTaskStays DEF Step
  <2>3. UNCHANGED abandoned
    BY <1>4 DEF OpenChild
  <2>4. ToSet(Append(scope[s].children, n)) = ToSet(scope[s].children) \cup {n}
    <3>1. scope[s].children \in Seq(Scopes)
      BY DEF TypeOK, ScopeState
    <3> QED BY ONLY <3>1, n \in Scopes, AppendFacts
  <2>5. parent'[n] = s /\ \A x \in Scopes \ {n} : parent'[x] = parent[x] /\ parent[x] \in Scopes
    BY <2>1 DEF TypeOK
  <2> SUFFICES ASSUME NEW x \in Scopes \ (abandoned' \cup {Root}), IsOpen(x)'
               PROVE  \/ x \in ToSet(scope'[parent'[x]].children)
                      \/ \E g \in Fibers : <<"close", x>> \in ToSet(todo'[g])
    BY DEF ScopesKnown
  <2>6. CASE x = n
    BY <2>1, <2>4, <2>5, <2>6
  <2>7. CASE x # n
    <3>1. IsOpen(x)
      BY <2>1, <2>7 DEF IsOpen
    <3>2. CASE x \in ToSet(scope[parent[x]].children)
      BY <2>1, <2>4, <2>5, <2>7, <3>2
    <3>3. CASE \E g \in Fibers : <<"close", x>> \in ToSet(todo[g])
      BY <2>2, <3>3
    <3> QED BY <2>3, <3>1, <3>2, <3>3 DEF ScopesKnown
  <2> QED BY <2>6, <2>7
<1>5. ASSUME NEW f \in Fibers, Register(f) PROVE ScopesKnown'
  <2>1. \A x \in Scopes : scope'[x].tag = scope[x].tag /\ scope'[x].children = scope[x].children
    BY <1>5, RegisterScopes
  <2>2. \A g \in Fibers, x \in Scopes : <<"close", x>> \in ToSet(todo[g]) => <<"close", x>> \in ToSet(todo'[g])
    <3>1. ~Close(f)
      BY <1>5 DEF Register, Close, Doing
    <3> QED BY <1>5, <3>1, CloseTaskStays DEF Step
  <2>3. UNCHANGED <<parent, abandoned>> /\ \A x \in Scopes : parent[x] \in Scopes
    BY <1>5 DEF Register, TypeOK
  <2> QED BY <2>1, <2>2, <2>3, KeepKnown DEF IsOpen
<1>6. ASSUME NEW f \in Fibers, Unregister(f) PROVE ScopesKnown'
  <2>1. PICK s \in Scopes :
          /\ Head(todo[f]) = <<"unregister", s>> /\ todo[f] # <<>>
          /\ \A x \in Scopes :
                /\ scope'[x].tag = scope[x].tag
                /\ scope'[x].children \in {scope[x].children, Without(scope[x].children, s)}
    BY <1>6, UnregisterScopes
  <2>2. scope[s].tag = "closed"
    <3>1. Head(todo[f]) \in ToSet(todo[f])
      BY <1>6, DoingFacts DEF Unregister
    <3>2. <<"unregister", s>>[1] = "unregister" /\ <<"unregister", s>>[2] = s
      OBVIOUS
    <3> QED BY <2>1, <3>1, <3>2 DEF Tree
  <2>3. \A g \in Fibers, x \in Scopes : <<"close", x>> \in ToSet(todo[g]) => <<"close", x>> \in ToSet(todo'[g])
    <3>1. ~Close(f)
      BY <1>6 DEF Unregister, Close, Doing
    <3> QED BY <1>6, <3>1, CloseTaskStays DEF Step
  <2>4. UNCHANGED <<parent, abandoned>> /\ \A x \in Scopes : parent[x] \in Scopes
    BY <1>6 DEF Unregister, TypeOK
  <2>5. ASSUME NEW x \in Scopes, IsOpen(x), x \in ToSet(scope[parent[x]].children)
        PROVE  x \in ToSet(scope'[parent[x]].children)
    <3>1. x # s
      BY <2>2, <2>5 DEF IsOpen
    <3>2. scope[parent[x]].children \in Seq(Scopes)
      BY <2>4 DEF TypeOK, ScopeState
    <3>3. x \in ToSet(Without(scope[parent[x]].children, s))
      BY ONLY <2>5, <3>1, <3>2, WithoutOthers
    <3> QED BY <2>1, <2>4, <2>5, <3>3
  <2> QED BY <2>1, <2>3, <2>4, <2>5, KeepKnown DEF IsOpen
<1>7. ASSUME NEW f \in Fibers, Close(f) PROVE ScopesKnown'
  <2>1. PICK s \in Scopes :
              /\ Head(todo[f]) = <<"close", s>> /\ todo[f] # <<>>
              /\ scope'[s].tag = "closed"
              /\ \A x \in Scopes \ {s} : scope'[x] = scope[x]
              /\ \E new \in Seq(Tasks) :
                    /\ Replace(f, new)
                    /\ new = IF IsOpen(s) THEN CloseTasks(s) ELSE <<>>
    BY <1>7, CloseScopes
  <2>2. PICK new \in Seq(Tasks) : Replace(f, new) /\ new = IF IsOpen(s) THEN CloseTasks(s) ELSE <<>>
    BY <2>1
  <2>3. /\ ToSet(todo'[f]) = ToSet(new) \cup ToSet(Tail(todo[f]))
        /\ ToSet(todo[f]) = {Head(todo[f])} \cup ToSet(Tail(todo[f]))
        /\ \A g \in Fibers \ {f} : todo'[g] = todo[g]
    BY <2>1, <2>2, ReplaceSets
  <2>4. UNCHANGED <<parent, abandoned>> /\ \A x \in Scopes : parent[x] \in Scopes
    BY <1>7 DEF Close, TypeOK
  <2>5. ASSUME NEW x \in Scopes, x # s, NEW g \in Fibers, <<"close", x>> \in ToSet(todo[g])
        PROVE  <<"close", x>> \in ToSet(todo'[g])
    <3>1. <<"close", x>> # <<"close", s>>
      BY <2>5
    <3> QED BY <2>1, <2>3, <2>5, <3>1
  <2>6. ASSUME NEW x \in Scopes, x # s, x \in ToSet(scope[parent[x]].children)
        PROVE  \/ x \in ToSet(scope'[parent[x]].children)
               \/ <<"close", x>> \in ToSet(todo'[f])
    <3>1. CASE parent[x] # s
      BY <2>1, <2>4, <2>6, <3>1
    <3>2. CASE parent[x] = s
      <4>1. IsOpen(s)
        <5>1. ToSet(<<>>) = {}
          BY DEF ToSet
        <5> QED BY <2>6, <3>2, <5>1 DEF Tree
      <4>2. <<"close", x>> \in ToSet(CloseTasks(s))
        BY <2>6, <3>2, CloseTasksFacts
      <4> QED BY <2>2, <2>3, <4>1, <4>2
    <3> QED BY <3>1, <3>2
  <2>7. \A x \in Scopes : IsOpen(x)' => x # s /\ IsOpen(x)
    BY <2>1 DEF IsOpen
  <2> QED BY <2>4, <2>5, <2>6, <2>7, KeepKnown
<1>8. ASSUME NEW f \in Fibers, Start(f) PROVE ScopesKnown'
  <2>1. ~Close(f)
    <3>1. todo[f] = <<>>
      BY <1>8, StartTasks
    <3> QED BY <3>1 DEF Close, Doing
  <2> QED BY <1>2, <1>8, <2>1, QuietSteps
<1>9. ASSUME NEW f \in Fibers,
             \/ OpenNone(f) \/ Release(f) \/ Finalize(f)
             \/ TakeFinalizer(f) \/ Unlease(f) \/ LeaseResource(f) \/ ReadResources(f)
      PROVE  ScopesKnown'
  <2>1. ~Close(f)
    BY <1>9 DEF Close, Doing, OpenNone, Release, Finalize, TakeFinalizer, Unlease, LeaseResource, ReadResources
  <2> QED BY <1>2, <1>9, <2>1, QuietSteps DEF Step
<1>10. ASSUME NEW f \in Fibers, OpenChild(f), UNCHANGED <<scope, parent>> PROVE ScopesKnown'
  <2>1. ~Close(f)
    BY <1>10 DEF Close, Doing, OpenChild
  <2> QED BY <1>2, <1>10, <2>1 DEF Step
<1> QED BY <1>1, <1>3, <1>4, <1>5, <1>6, <1>7, <1>8, <1>9, <1>10 DEF Next, Step
-----------------------------------------------------------------------------
(* The life of a resource: nobody knows it, an open scope has it, a fiber  *)
(* registers, releases or finalizes it, leases keep it, it was finalized,  *)
(* or a canceled close() lost it.                                          *)
NoScope(r) == \A s \in Scopes : Absent(scope[s].resources, {r})

OneScope(r) ==
    \E s \in Scopes :
        /\ Once(scope[s].resources, {r})
        /\ \A x \in Scopes \ {s} : Absent(scope[x].resources, {r})

NoTask(r) == \A f \in Fibers : Absent(todo[f], Custodial(r))

OneTaskOf(f, t, r) ==
    /\ t \in Custodial(r) /\ t \in ToSet(todo[f]) /\ Once(todo[f], Custodial(r))
    /\ \A g \in Fibers \ {f} : Absent(todo[g], Custodial(r))

NoLease(r) == \A f \in Fibers : <<"lease", r>> \notin ToSet(todo[f])

Untouched(r) == resource[r].open /\ resource[r].finalizer

(* Nobody has a lease of the resource, and nobody will take one.           *)
Dropped(r) == resource[r].leases = 0 /\ (resource[r].open => NoLease(r))

Fits(t, r) ==
    \/ t[1] = "register" /\ Untouched(r) /\ Dropped(r)
    \/ t[1] = "release" /\ Untouched(r)
    \/ t[1] = "take" /\ Dropped(r) /\ ~resource[r].open /\ resource[r].finalizer
    \/ t[1] = "finalize" /\ Dropped(r)

Fresh(r) ==
    /\ ~resource[r].acquired /\ resource[r].open /\ Dropped(r)
    /\ NoScope(r) /\ NoTask(r) /\ runs[r] = 0 /\ r \notin abandoned

InScope(r) ==
    /\ resource[r].acquired /\ Untouched(r)
    /\ OneScope(r) /\ NoTask(r) /\ runs[r] = 0 /\ r \notin abandoned

InTask(r) ==
    /\ resource[r].acquired
    /\ NoScope(r) /\ runs[r] = 0 /\ r \notin abandoned
    /\ \E f \in Fibers : \E t \in Tasks : OneTaskOf(f, t, r) /\ Fits(t, r)

ByLeases(r) ==
    /\ resource[r].acquired /\ ~resource[r].open /\ resource[r].finalizer /\ resource[r].leases # 0
    /\ NoScope(r) /\ NoTask(r) /\ runs[r] = 0 /\ r \notin abandoned

Done(r) ==
    /\ resource[r].acquired /\ Dropped(r)
    /\ NoScope(r) /\ NoTask(r) /\ runs[r] = 1 /\ r \notin abandoned

Lost(r) ==
    /\ resource[r].acquired /\ (resource[r].open \/ resource[r].leases = 0)
    /\ NoScope(r) /\ NoTask(r) /\ runs[r] = 0 /\ r \in abandoned

Stage(r) == Fresh(r) \/ InScope(r) \/ InTask(r) \/ ByLeases(r) \/ Done(r) \/ Lost(r)

Lifecycle == \A r \in Resources : Stage(r)

(* A step that keeps whoever is responsible for the resource.              *)
Undisturbed(r) ==
    /\ NoScope(r) => NoScope(r)'
    /\ OneScope(r) => OneScope(r)'
    /\ NoTask(r) => NoTask(r)'
    /\ \A f \in Fibers : \A t \in Tasks : OneTaskOf(f, t, r) => OneTaskOf(f, t, r)'
    /\ NoScope(r) /\ NoLease(r) => NoLease(r)'
    /\ runs'[r] = runs[r]
    /\ r \in abandoned' <=> r \in abandoned

(* Such a step, with the resource's own state as it was, keeps its stage.  *)
LEMMA SameStage ==
    ASSUME NEW r \in Resources, Stage(r), Undisturbed(r), resource'[r] = resource[r]
    PROVE  Stage(r)'
<1>1. NoScope(r) => (Dropped(r) => Dropped(r)')
  BY DEF Undisturbed, Dropped
<1>2. Untouched(r) => Untouched(r)'
  BY DEF Untouched
<1>3. CASE Fresh(r)
  BY <1>1, <1>3 DEF Fresh, Stage, Undisturbed
<1>4. CASE InScope(r)
  BY <1>2, <1>4 DEF InScope, Stage, Undisturbed
<1>5. CASE InTask(r)
  <2>1. PICK f \in Fibers, t \in Tasks : OneTaskOf(f, t, r) /\ Fits(t, r)
    BY <1>5 DEF InTask
  <2>2. OneTaskOf(f, t, r)'
    BY <2>1 DEF Undisturbed
  <2>3. NoScope(r)
    BY <1>5 DEF InTask
  <2>4. Fits(t, r)'
    BY <1>1, <1>2, <2>1, <2>3 DEF Fits
  <2>5. resource'[r].acquired /\ NoScope(r)' /\ runs'[r] = 0 /\ r \notin abandoned'
    BY <1>5 DEF InTask, Undisturbed
  <2> QED BY <2>2, <2>4, <2>5 DEF InTask, Stage
<1>6. CASE ByLeases(r)
  BY <1>6 DEF ByLeases, Stage, Undisturbed
<1>7. CASE Done(r)
  BY <1>1, <1>7 DEF Done, Stage, Undisturbed
<1>8. CASE Lost(r)
  BY <1>8 DEF Lost, Stage, Undisturbed
<1> QED BY <1>3, <1>4, <1>5, <1>6, <1>7, <1>8 DEF Stage

(* The tasks of a resource.                                                *)
LEMMA CustodialKinds ==
    ASSUME NEW r \in Resources, NEW t \in Tasks
    PROVE  t \in Custodial(r) <=> t[1] \in {"release", "take", "finalize", "register"} /\ t[2] = r
<1>1. ASSUME t \in Custodial(r)
      PROVE  t[1] \in {"release", "take", "finalize", "register"} /\ t[2] = r
  BY <1>1 DEF Custodial
<1>2. ASSUME t[1] \in {"release", "take", "finalize", "register"}, t[2] = r
      PROVE  t \in Custodial(r)
  <2>1. CASE t[1] = "register"
    <3>1. t = <<"register", r, t[3]>> /\ t[3] \in Scopes
      BY <1>2, <2>1, TaskFields
    <3> QED BY <3>1 DEF Custodial
  <2>2. CASE t[1] \in {"release", "take", "finalize"}
    <3>1. t = <<t[1], r>>
      BY <1>2, <2>2, TaskFields
    <3> QED BY <2>2, <3>1 DEF Custodial
  <2> QED BY <1>2, <2>1, <2>2
<1> QED BY <1>1, <1>2

(* Tasks that make a fiber responsible.                                    *)
LEMMA CustodyTasks ==
    /\ \A r \in Resources : <<"release", r>> \in Custodial(r) /\ <<"take", r>> \in Custodial(r)
                               /\ <<"finalize", r>> \in Custodial(r)
    /\ \A r \in Resources, s \in Scopes : <<"register", r, s>> \in Custodial(r)
BY DEF Custodial

(* A fiber whose first task is for the resource is alone responsible.      *)
LEMMA Holder ==
    ASSUME TypeOK, NEW r \in Resources, Stage(r), NEW f \in Fibers, todo[f] # <<>>,
           Head(todo[f]) \in Custodial(r)
    PROVE  /\ resource[r].acquired /\ NoScope(r) /\ runs[r] = 0 /\ r \notin abandoned
           /\ OneTaskOf(f, Head(todo[f]), r) /\ Fits(Head(todo[f]), r)
<1>1. todo[f] \in Seq(Tasks) /\ Head(todo[f]) \in ToSet(todo[f])
  <2>1. todo[f] \in Seq(Tasks) /\ todo[f] # <<>>
    BY DEF TypeOK
  <2> QED BY <2>1, TailFacts
<1>2. ~Absent(todo[f], Custodial(r))
  BY <1>1, AbsentSet
<1>3. InTask(r)
  BY <1>2 DEF Stage, Fresh, InScope, ByLeases, Done, Lost, NoTask
<1>4. PICK g \in Fibers, t \in Tasks : OneTaskOf(g, t, r) /\ Fits(t, r)
  BY <1>3 DEF InTask
<1>5. g = f
  BY <1>2, <1>4 DEF OneTaskOf
<1>6. t = Head(todo[f])
  <2>1. Once(todo[f], Custodial(r))
    BY <1>4, <1>5 DEF OneTaskOf
  <2>2. \E u \in ToSet(todo[f]) \cap Custodial(r) : ToSet(todo[f]) \cap Custodial(r) = {u}
    BY ONLY <1>1, <2>1, OnceSet
  <2>3. t \in ToSet(todo[f]) \cap Custodial(r)
    BY <1>4, <1>5 DEF OneTaskOf
  <2> QED BY <1>1, <2>2, <2>3
<1> QED BY <1>3, <1>4, <1>5, <1>6 DEF InTask

(* What becomes of the responsibility when tasks are replaced.             *)
LEMMA TasksPass ==
    ASSUME TypeOK, NEW r \in Resources, NEW f \in Fibers, todo[f] # <<>>,
           NEW new \in Seq(Tasks), Replace(f, new)
    PROVE  /\ Absent(new, Custodial(r)) /\ Head(todo[f]) \notin Custodial(r) =>
                /\ NoTask(r) => NoTask(r)'
                /\ \A g \in Fibers : \A t \in Tasks : OneTaskOf(g, t, r) => OneTaskOf(g, t, r)'
           /\ Absent(new, Custodial(r)) /\ OneTaskOf(f, Head(todo[f]), r) => NoTask(r)'
           /\ \A t \in ToSet(new) \cap Custodial(r) :
                Once(new, Custodial(r)) /\ (NoTask(r) \/ OneTaskOf(f, Head(todo[f]), r))
                   => OneTaskOf(f, t, r)'
           /\ <<"lease", r>> \notin ToSet(new) => (NoLease(r) => NoLease(r)')
<1> DEFINE T == Custodial(r)
           tail == Tail(todo[f])
<1>1. todo[f] \in Seq(Tasks) /\ todo[f] # <<>> /\ new \in Seq(Tasks)
  BY DEF TypeOK
<1>2. /\ todo'[f] = new \o tail
      /\ \A g \in Fibers \ {f} : todo'[g] = todo[g]
  BY ReplaceType
<1>3. /\ ToSet(todo'[f]) = ToSet(new) \cup ToSet(tail)
      /\ ToSet(todo[f]) = {Head(todo[f])} \cup ToSet(tail)
  BY ReplaceSets
<1>4. /\ Absent(new, T) /\ (Absent(todo[f], T) \/ (Once(todo[f], T) /\ Head(todo[f]) \in T))
           => Absent(todo'[f], T)
      /\ Absent(new, T) /\ Head(todo[f]) \notin T /\ Once(todo[f], T) => Once(todo'[f], T)
      /\ Once(new, T) /\ (Absent(todo[f], T) \/ (Once(todo[f], T) /\ Head(todo[f]) \in T))
           => Once(todo'[f], T)
  <2> HIDE DEF T, tail
  <2>1. Tail(todo[f]) = tail
    BY DEF tail
  <2> QED BY ONLY <1>1, <1>2, <2>1, ReplaceOnce
<1> HIDE DEF tail
<1>5. ASSUME Absent(new, T), Head(todo[f]) \notin T
      PROVE  /\ NoTask(r) => NoTask(r)'
             /\ \A g \in Fibers : \A t \in Tasks : OneTaskOf(g, t, r) => OneTaskOf(g, t, r)'
  <2>1. NoTask(r) => NoTask(r)'
    BY <1>2, <1>4, <1>5 DEF NoTask
  <2>2. ASSUME NEW g \in Fibers, NEW t \in Tasks, OneTaskOf(g, t, r) PROVE OneTaskOf(g, t, r)'
    <3>1. CASE g = f
      <4>1. t \in ToSet(todo'[f])
        BY <1>3, <1>5, <2>2, <3>1 DEF OneTaskOf
      <4> QED BY <1>2, <1>4, <1>5, <2>2, <3>1, <4>1 DEF OneTaskOf, Custodial
    <3>2. CASE g # f
      <4>1. Absent(todo[f], T) /\ todo'[g] = todo[g]
        BY <1>2, <2>2, <3>2 DEF OneTaskOf
      <4>2. Absent(todo'[f], T)
        BY <1>4, <1>5, <4>1
      <4>3. \A h \in Fibers \ {g} : Absent(todo'[h], T)
        BY <1>2, <2>2, <4>2 DEF OneTaskOf
      <4> QED BY <2>2, <4>1, <4>3 DEF OneTaskOf, Custodial
    <3> QED BY <3>1, <3>2
  <2> QED BY <2>1, <2>2
<1>6. Absent(new, T) /\ OneTaskOf(f, Head(todo[f]), r) => NoTask(r)'
  BY <1>2, <1>4 DEF NoTask, OneTaskOf, Custodial
<1>7. ASSUME NEW t \in ToSet(new) \cap T, Once(new, T), NoTask(r) \/ OneTaskOf(f, Head(todo[f]), r)
      PROVE  OneTaskOf(f, t, r)'
  <2>1. Once(todo'[f], T)
    BY <1>4, <1>7 DEF NoTask, OneTaskOf
  <2>2. \A h \in Fibers \ {f} : Absent(todo'[h], T)
    BY <1>2, <1>7 DEF NoTask, OneTaskOf
  <2>3. t \in ToSet(todo'[f])
    BY <1>3
  <2> QED BY <2>1, <2>2, <2>3 DEF OneTaskOf, Custodial
<1>8. <<"lease", r>> \notin ToSet(new) => (NoLease(r) => NoLease(r)')
  BY <1>2, <1>3 DEF NoLease
<1> QED BY <1>5, <1>6, <1>7, <1>8
(* A step that moves no resource from or to a scope.                       *)
LEMMA SameScopes ==
    ASSUME NEW r \in Resources, \A x \in Scopes : scope'[x].resources = scope[x].resources
    PROVE  (NoScope(r) => NoScope(r)') /\ (OneScope(r) => OneScope(r)')
BY DEF NoScope, OneScope

(* A step that replaces a task of others by tasks of others.               *)
LEMMA StepAside ==
    ASSUME TypeOK, NEW r \in Resources, NEW f \in Fibers, todo[f] # <<>>,
           NEW new \in Seq(Tasks), Replace(f, new),
           Absent(new, Custodial(r)), <<"lease", r>> \notin ToSet(new),
           Head(todo[f]) \notin Custodial(r),
           NoScope(r) => NoScope(r)', OneScope(r) => OneScope(r)',
           runs'[r] = runs[r], UNCHANGED abandoned
    PROVE  Undisturbed(r)
BY TasksPass DEF Undisturbed

(* The tasks of a step that is not about the resource.                     *)
LEMMA AsideTasks ==
    ASSUME TypeOK, NEW r \in Resources, NEW f \in Fibers,
           \/ OpenChild(f) \/ OpenNone(f) \/ Register(f) \/ Unregister(f)
           \/ Release(f) \/ Finalize(f) \/ TakeFinalizer(f) \/ Unlease(f) \/ LeaseResource(f),
           On(f) # r \/ Doing(f, "open") \/ Doing(f, "unregister") \/ Doing(f, "lease")
    PROVE  /\ todo[f] # <<>> /\ Head(todo[f]) \notin Custodial(r)
           /\ \E new \in Seq(Tasks) : /\ Replace(f, new) /\ Absent(new, Custodial(r))
                                      /\ <<"lease", r>> \notin ToSet(new)
<1>1. /\ todo[f] # <<>> /\ Head(todo[f]) \in Tasks /\ Head(todo[f])[2] = On(f)
      /\ Head(todo[f]) = Next1(f)
  BY OneTask DEF On, Next1
<1>2. Head(todo[f]) \notin Custodial(r)
  <2>1. On(f) # r \/ Head(todo[f])[1] \in {"open", "unregister", "lease"}
    BY <1>1 DEF Doing
  <2> QED BY <1>1, <2>1, CustodialKinds
<1>3. \/ Replace(f, <<>>)
      \/ Doing(f, "open") /\ Replace(f, << <<"open", parent[On(f)]>> >>)
      \/ /\ Doing(f, "register") \/ Doing(f, "release") \/ Doing(f, "take")
         /\ Replace(f, << <<"finalize", On(f)>> >>)
      \/ Doing(f, "unlease") /\ Replace(f, << <<"take", On(f)>> >>)
  BY DEF OpenChild, OpenNone, Register, Unregister, Release, Finalize, TakeFinalizer,
     Unlease, LeaseResource
<1>4. /\ Doing(f, "open") => <<"open", parent[On(f)]>> \in Tasks
      /\ (Doing(f, "register") \/ Doing(f, "release") \/ Doing(f, "take") \/ Doing(f, "unlease"))
            => <<"finalize", On(f)>> \in Tasks /\ <<"take", On(f)>> \in Tasks
  <2>1. /\ Doing(f, "open") => On(f) \in Scopes
        /\ (Doing(f, "register") \/ Doing(f, "release") \/ Doing(f, "take") \/ Doing(f, "unlease"))
              => On(f) \in Resources
    BY DoingFacts
  <2> QED BY <2>1, TaskTypes DEF TypeOK
<1>5. /\ <<"open", parent[On(f)]>>[1] = "open"
      /\ <<"finalize", On(f)>>[1] = "finalize" /\ <<"finalize", On(f)>>[2] = On(f)
      /\ <<"take", On(f)>>[1] = "take" /\ <<"take", On(f)>>[2] = On(f)
      /\ <<"lease", r>>[1] = "lease"
  OBVIOUS
<1>6. (Doing(f, "register") \/ Doing(f, "release") \/ Doing(f, "take") \/ Doing(f, "unlease")) => On(f) # r
  BY DEF Doing
<1>7. ASSUME NEW t \in Tasks, Replace(f, <<t>>), t \notin Custodial(r), t # <<"lease", r>>
      PROVE  \E new \in Seq(Tasks) : /\ Replace(f, new) /\ Absent(new, Custodial(r))
                                     /\ <<"lease", r>> \notin ToSet(new)
  <2>1. <<t>> \in Seq(Tasks) /\ ToSet(<<t>>) = {t} /\ (t \notin Custodial(r) => Absent(<<t>>, Custodial(r)))
    BY ONLY t \in Tasks, SingleFacts
  <2> QED BY <1>7, <2>1
<1>8. CASE Replace(f, <<>>)
  <2>1. <<>> \in Seq(Tasks) /\ ToSet(<<>>) = {} /\ Absent(<<>>, Custodial(r))
    BY EmptyAbsent DEF ToSet
  <2> QED BY <1>1, <1>2, <1>8, <2>1
<1>9. CASE Doing(f, "open") /\ Replace(f, << <<"open", parent[On(f)]>> >>)
  <2>1. /\ <<"open", parent[On(f)]>> \notin Custodial(r)
        /\ <<"open", parent[On(f)]>> # <<"lease", r>>
    BY <1>4, <1>5, <1>9, CustodialKinds
  <2> QED BY <1>1, <1>2, <1>4, <1>7, <1>9, <2>1
<1>10. CASE /\ Doing(f, "register") \/ Doing(f, "release") \/ Doing(f, "take")
            /\ Replace(f, << <<"finalize", On(f)>> >>)
  <2>1. <<"finalize", On(f)>> \notin Custodial(r) /\ <<"finalize", On(f)>> # <<"lease", r>>
    BY <1>4, <1>5, <1>6, <1>10, CustodialKinds
  <2> QED BY <1>1, <1>2, <1>4, <1>7, <1>10, <2>1
<1>11. CASE Doing(f, "unlease") /\ Replace(f, << <<"take", On(f)>> >>)
  <2>1. <<"take", On(f)>> \notin Custodial(r) /\ <<"take", On(f)>> # <<"lease", r>>
    BY <1>4, <1>5, <1>6, <1>11, CustodialKinds
  <2> QED BY <1>1, <1>2, <1>4, <1>7, <1>11, <2>1
<1> QED BY <1>3, <1>8, <1>9, <1>10, <1>11

(* Steps about scopes and other resources.                                 *)
LEMMA AsideStages ==
    ASSUME TypeOK, NEW r \in Resources, Stage(r), NEW f \in Fibers,
           \/ OpenChild(f) \/ OpenNone(f) \/ Register(f) \/ Unregister(f)
           \/ Release(f) \/ Finalize(f) \/ TakeFinalizer(f) \/ Unlease(f) \/ LeaseResource(f),
           On(f) # r \/ Doing(f, "open") \/ Doing(f, "unregister")
    PROVE  Stage(r)'
<1>1. /\ todo[f] # <<>> /\ Head(todo[f]) \notin Custodial(r)
      /\ \E new \in Seq(Tasks) : /\ Replace(f, new) /\ Absent(new, Custodial(r))
                                 /\ <<"lease", r>> \notin ToSet(new)
  BY AsideTasks
<1>2. UNCHANGED abandoned /\ runs'[r] = runs[r]
  <2>1. UNCHANGED abandoned
    BY DEF OpenChild, OpenNone, Register, Unregister, Release, Finalize, TakeFinalizer,
     Unlease, LeaseResource
  <2>2. CASE Finalize(f)
    BY <2>2 DEF Finalize, Doing, TypeOK
  <2>3. CASE ~Finalize(f)
    BY <2>3 DEF OpenChild, OpenNone, Register, Unregister, Release, TakeFinalizer,
     Unlease, LeaseResource
  <2> QED BY <2>1, <2>2, <2>3
<1>3. resource'[r] = resource[r]
  <2>1. CASE UNCHANGED resource
    BY <2>1
  <2>2. CASE Release(f) \/ TakeFinalizer(f) \/ Unlease(f) \/ LeaseResource(f)
    <3>1. On(f) # r
      BY <2>2 DEF Release, TakeFinalizer, Unlease, LeaseResource, Doing
    <3>2. On(f) \in Resources
      BY <2>2, DoingFacts DEF Release, TakeFinalizer, Unlease, LeaseResource
    <3>3. PICK q \in Resources : q = On(f)
      BY <3>2
    <3>4. \/ UNCHANGED resource
          \/ resource' = [resource EXCEPT ![q].open = FALSE]
          \/ resource' = [resource EXCEPT ![q].open = FALSE, ![q].finalizer = FALSE]
          \/ resource' = [resource EXCEPT ![q].finalizer = FALSE]
          \/ resource' = [resource EXCEPT ![q].leases = @ - 1]
          \/ resource' = [resource EXCEPT ![q].leases = @ + 1]
      BY <2>2, <3>3 DEF Release, TakeFinalizer, Unlease, LeaseResource
    <3>5. resource \in [Resources -> ResourceState] /\ q # r
      BY <3>1, <3>3 DEF TypeOK
    <3> QED BY <3>4, <3>5
  <2>3. CASE OpenChild(f) \/ OpenNone(f) \/ Register(f) \/ Unregister(f) \/ Finalize(f)
    BY <2>3 DEF OpenChild, OpenNone, Register, Unregister, Finalize
  <2> QED BY <2>2, <2>3
<1>4. (NoScope(r) => NoScope(r)') /\ (OneScope(r) => OneScope(r)')
  <2>1. CASE UNCHANGED scope
    BY <2>1, SameScopes
  <2>2. CASE OpenChild(f)
    <3>1. \A x \in Scopes : scope'[x].resources = scope[x].resources
      BY <2>2, OpenScopes
    <3> QED BY <3>1, SameScopes
  <2>3. CASE Unregister(f)
    <3>1. \A x \in Scopes : scope'[x].resources = scope[x].resources
      BY <2>3, UnregisterScopes
    <3> QED BY <3>1, SameScopes
  <2>4. CASE Register(f) /\ ~UNCHANGED scope
    <3>1. On(f) # r /\ On(f) \in Resources
      BY <2>4, DoingFacts DEF Register, Doing
    <3>2. PICK q \in Resources : q = On(f)
      BY <3>1
    <3>3. PICK s \in Scopes :
                 /\ scope'[s].resources = <<q>> \o scope[s].resources
                 /\ \A x \in Scopes \ {s} : scope'[x] = scope[x]
      BY <2>4, <3>2, RegisterScopes
    <3>4. scope[s].resources \in Seq(Resources)
      BY DEF TypeOK, ScopeState
    <3>5. <<q>> \in Seq(Resources) /\ Absent(<<q>>, {r})
      <4>1. q \in Resources /\ q \notin {r}
        BY <3>1, <3>2
      <4> QED BY ONLY <4>1, SingleFacts
    <3>6. /\ Absent(scope[s].resources, {r}) => Absent(scope'[s].resources, {r})
          /\ Once(scope[s].resources, {r}) => Once(scope'[s].resources, {r})
      <4>1. /\ Absent(scope[s].resources, {r}) => Absent(<<q>> \o scope[s].resources, {r})
            /\ Once(scope[s].resources, {r}) => Once(<<q>> \o scope[s].resources, {r})
        BY ONLY <3>4, <3>5, JoinAbsent, JoinOnce
      <4> QED BY <3>3, <4>1
    <3> QED BY <3>3, <3>6 DEF NoScope, OneScope
  <2>5. CASE \/ OpenNone(f) \/ Release(f) \/ Finalize(f) \/ TakeFinalizer(f) \/ Unlease(f)
             \/ LeaseResource(f)
    BY <2>1, <2>5 DEF OpenNone, Release, Finalize, TakeFinalizer, Unlease, LeaseResource
  <2> QED BY <2>1, <2>2, <2>3, <2>4, <2>5
<1>5. Undisturbed(r)
  BY <1>1, <1>2, <1>4, StepAside
<1> QED BY <1>3, <1>5, SameStage

(* Reading the resources of a scope finds only those that a scope has.     *)
LEMMA ReadStages ==
    ASSUME TypeOK, Operations, NEW r \in Resources, Stage(r), NEW f \in Fibers, ReadResources(f)
    PROVE  Stage(r)'
<1>1. /\ \A t \in ToSet(todo[f]) \cup ToSet(todo'[f]) : t[1] \in LeasingKinds
      /\ \A t \in ToSet(todo'[f]) : t \in ToSet(todo[f]) \/ t[1] = "climb" \/ t \in ToSet(Found(f))
      /\ \A t \in ToSet(Found(f)) : t[1] = "lease" /\ t[2] \in ToSet(scope[On(f)].resources)
      /\ \A g \in Fibers \ {f} : todo'[g] = todo[g]
      /\ On(f) \in Scopes
      /\ UNCHANGED <<scope, resource, runs, abandoned>>
  BY ReadKinds, ReadTypes DEF ReadResources
<1>2. \A t \in Custodial(r) : t[1] \notin LeasingKinds
  BY DEF Custodial, LeasingKinds
<1>3. Absent(todo[f], Custodial(r)) /\ Absent(todo'[f], Custodial(r))
  BY <1>1, <1>2 DEF Absent, ToSet
<1>4. NoTask(r) => NoTask(r)'
  BY <1>1, <1>3 DEF NoTask
<1>5. ASSUME NEW g \in Fibers, NEW t \in Tasks, OneTaskOf(g, t, r) PROVE OneTaskOf(g, t, r)'
  <2>1. g # f
    <3>1. t \in ToSet(todo[g]) /\ t \in Custodial(r)
      BY <1>5 DEF OneTaskOf
    <3> QED BY <1>1, <1>2, <3>1
  <2>2. todo'[g] = todo[g] /\ \A h \in Fibers \ {g} : Absent(todo'[h], Custodial(r))
    BY <1>1, <1>3, <1>5, <2>1 DEF OneTaskOf
  <2> QED BY <1>5, <2>2 DEF OneTaskOf, Custodial
<1>6. ASSUME NoScope(r), NoLease(r) PROVE NoLease(r)'
  <2>1. <<"lease", r>>[1] = "lease" /\ <<"lease", r>>[2] = r
    OBVIOUS
  <2>2. r \notin ToSet(scope[On(f)].resources)
    BY <1>1, <1>6 DEF NoScope, Absent, ToSet
  <2>3. <<"lease", r>> \notin ToSet(todo'[f])
    BY <1>1, <1>6, <2>1, <2>2 DEF NoLease
  <2> QED BY <1>1, <1>6, <2>3 DEF NoLease
<1>7. (NoScope(r) => NoScope(r)') /\ (OneScope(r) => OneScope(r)')
  BY <1>1, SameScopes
<1>8. Undisturbed(r)
  BY <1>1, <1>4, <1>5, <1>6, <1>7 DEF Undisturbed
<1> QED BY <1>1, <1>8, SameStage
(* acquireResource makes its fiber responsible.                            *)
LEMMA StartStages ==
    ASSUME TypeOK, NEW r \in Resources, Stage(r), NEW f \in Fibers, Start(f)
    PROVE  Stage(r)'
<1>1. /\ todo[f] = <<>> /\ UNCHANGED <<scope, parent, runs, abandoned>>
      /\ \A g \in Fibers \ {f} : todo'[g] = todo[g]
      /\ \A t \in ToSet(todo'[f]) : t[1] \notin {"unregister", "release", "take", "finalize"}
      /\ \/ \E s \in Scopes, q \in Resources :
               Acquire(f, q, s) /\ todo'[f] = << <<"register", q, s>> >>
         \/ /\ UNCHANGED resource
            /\ \A t \in ToSet(todo'[f]) : t[1] \notin {"register", "lease"}
  BY StartTasks
<1>2. ToSet(todo[f]) = {} /\ Absent(todo[f], Custodial(r))
  BY <1>1, EmptyAbsent DEF ToSet
<1>3. ASSUME \A t \in ToSet(todo'[f]) : t \notin Custodial(r) /\ t # <<"lease", r>>,
             resource'[r] = resource[r]
      PROVE  Stage(r)'
  <2>1. Absent(todo'[f], Custodial(r))
    BY <1>3 DEF Absent, ToSet
  <2>2. NoTask(r) => NoTask(r)'
    BY <1>1, <2>1 DEF NoTask
  <2>3. ASSUME NEW g \in Fibers, NEW t \in Tasks, OneTaskOf(g, t, r) PROVE OneTaskOf(g, t, r)'
    <3>1. g # f
      BY <1>2, <2>3 DEF OneTaskOf
    <3> QED BY <1>1, <2>1, <2>3, <3>1 DEF OneTaskOf, Custodial
  <2>4. NoLease(r) => NoLease(r)'
    BY <1>1, <1>3 DEF NoLease
  <2>5. (NoScope(r) => NoScope(r)') /\ (OneScope(r) => OneScope(r)')
    BY <1>1, SameScopes
  <2>6. Undisturbed(r)
    BY <1>1, <2>2, <2>3, <2>4, <2>5 DEF Undisturbed
  <2> QED BY <1>3, <2>6, SameStage
<1>4. CASE UNCHANGED resource /\ \A t \in ToSet(todo'[f]) : t[1] \notin {"register", "lease"}
  <2>1. \A t \in Custodial(r) : t[1] \in {"register", "release", "take", "finalize"}
    BY DEF Custodial
  <2>2. <<"lease", r>>[1] = "lease"
    OBVIOUS
  <2> QED BY <1>1, <1>3, <1>4, <2>1, <2>2
<1>5. ASSUME NEW s \in Scopes, NEW q \in Resources, Acquire(f, q, s),
             todo'[f] = << <<"register", q, s>> >>
      PROVE  Stage(r)'
  <2>0. <<"register", q, s>> \in Tasks /\ <<"register", q, s>>[2] = q /\ <<"register", q, s>>[1] = "register"
    BY TaskTypes
  <2>1. PICK t \in Tasks : t = <<"register", q, s>>
    BY <2>0
  <2>2. /\ <<t>> \in Seq(Tasks) /\ ToSet(<<t>>) = {t}
        /\ Once(<<t>>, Custodial(r)) <=> t \in Custodial(r)
    BY ONLY t \in Tasks, SingleFacts
  <2>3. todo'[f] = <<t>>
    BY <1>5, <2>1
  <2>4. t # <<"lease", r>>
    <3>1. <<"lease", r>>[1] = "lease"
      OBVIOUS
    <3> QED BY <2>0, <2>1, <3>1
  <2>5. resource' = [resource EXCEPT ![q].acquired = TRUE, ![q].finalizer = TRUE]
        /\ ~resource[q].acquired
    BY <1>5 DEF Acquire
  <2>6. CASE q # r
    <3>1. t \notin Custodial(r)
      BY <2>0, <2>1, <2>6, CustodialKinds
    <3>2. resource'[r] = resource[r]
      BY <2>5, <2>6 DEF TypeOK
    <3> QED BY <1>3, <2>2, <2>3, <2>4, <3>1, <3>2
  <2>7. CASE q = r
    <3>1. Fresh(r)
      BY <2>5, <2>7 DEF Stage, InScope, InTask, ByLeases, Done, Lost
    <3>2. /\ resource'[r].acquired = TRUE /\ resource'[r].finalizer = TRUE
          /\ resource'[r].open = resource[r].open /\ resource'[r].leases = resource[r].leases
      <4>1. resource \in [Resources -> ResourceState] /\ resource[r] \in ResourceState
        BY DEF TypeOK
      <4>2. resource' = [resource EXCEPT ![r].acquired = TRUE, ![r].finalizer = TRUE]
        BY <2>5, <2>7
      <4>3. resource'[r] = [resource[r] EXCEPT !.acquired = TRUE, !.finalizer = TRUE]
        BY <4>1, <4>2
      <4> QED BY <4>1, <4>3 DEF ResourceState
    <3>3. t \in Custodial(r)
      BY <2>0, <2>1, <2>7, CustodialKinds
    <3>4. OneTaskOf(f, t, r)'
      <4>1. \A g \in Fibers \ {f} : Absent(todo'[g], Custodial(r))
        BY <1>1, <3>1 DEF Fresh, NoTask
      <4> QED BY <2>2, <2>3, <3>3, <4>1 DEF OneTaskOf, Custodial
    <3>5. NoLease(r)'
      <4>1. NoLease(r)
        BY <3>1 DEF Fresh, Dropped
      <4> QED BY <1>1, <2>2, <2>3, <2>4, <4>1 DEF NoLease
    <3>6. Fits(t, r)'
      BY <2>0, <2>1, <3>1, <3>2, <3>5 DEF Fits, Untouched, Dropped, Fresh
    <3>7. NoScope(r)' /\ runs'[r] = 0 /\ r \notin abandoned'
      BY <1>1, <3>1 DEF Fresh, NoScope
    <3> QED BY <3>2, <3>4, <3>6, <3>7 DEF InTask, Stage
  <2> QED BY <2>6, <2>7
<1> QED BY <1>1, <1>4, <1>5

(* A canceled close() loses the resources that it had to release.          *)
LEMMA CancelStages ==
    ASSUME TypeOK, Operations, NEW r \in Resources, Stage(r), NEW f \in Fibers, Cancel(f)
    PROVE  Stage(r)'
<1>1. /\ todo'[f] = <<>> /\ \A g \in Fibers \ {f} : todo'[g] = todo[g]
      /\ r \in abandoned' <=> \/ r \in abandoned
                              \/ \E t \in ToSet(todo[f]) :
                                    t[1] \in {"close", "release", "finalize"} /\ t[2] = r
      /\ UNCHANGED <<scope, resource, runs>>
  BY CancelTypes DEF Cancel
<1>2. \A t \in ToSet(todo[f]) : t[1] \in ClosingKinds /\ t \in Tasks
  BY DEF Cancel, Operations, TypeOK, ToSet
<1>3. ToSet(<<>>) = {} /\ Absent(<<>>, Custodial(r))
  BY EmptyAbsent DEF ToSet
<1>4. NoScope(r) => NoScope(r)'
  BY <1>1, SameScopes
<1>5. OneScope(r) => OneScope(r)'
  BY <1>1, SameScopes
<1>6. NoTask(r) => NoTask(r)'
  BY <1>1, <1>3 DEF NoTask
<1>7. NoLease(r) => NoLease(r)'
  BY <1>1, <1>3 DEF NoLease
<1>8. CASE Absent(todo[f], Custodial(r))
  <2>1. \A t \in ToSet(todo[f]) : t \notin Custodial(r)
    BY <1>8 DEF Absent, ToSet
  <2>2. ASSUME NEW t \in ToSet(todo[f]), t[1] \in {"close", "release", "finalize"}, t[2] = r
        PROVE  FALSE
    <3>1. CASE t[1] = "close"
      BY <1>2, <2>2, <3>1, TaskFields, ScopeAssumption
    <3>2. CASE t[1] # "close"
      BY <1>2, <2>1, <2>2, <3>2, CustodialKinds
    <3> QED BY <3>1, <3>2
  <2>3. r \in abandoned' <=> r \in abandoned
    BY <1>1, <2>2
  <2>4. ASSUME NEW g \in Fibers, NEW t \in Tasks, OneTaskOf(g, t, r) PROVE OneTaskOf(g, t, r)'
    <3>1. g # f
      BY <2>1, <2>4 DEF OneTaskOf
    <3> QED BY <1>1, <1>3, <2>4, <3>1 DEF OneTaskOf, Custodial
  <2>5. Undisturbed(r)
    BY <1>1, <1>4, <1>5, <1>6, <1>7, <2>3, <2>4 DEF Undisturbed
  <2> QED BY <1>1, <2>5, SameStage
<1>9. CASE ~Absent(todo[f], Custodial(r))
  <2>1. InTask(r)
    BY <1>9 DEF Stage, Fresh, InScope, ByLeases, Done, Lost, NoTask
  <2>2. PICK g \in Fibers, t \in Tasks : OneTaskOf(g, t, r) /\ Fits(t, r)
    BY <2>1 DEF InTask
  <2>3. g = f
    BY <1>9, <2>2 DEF OneTaskOf
  <2>4. t \in ToSet(todo[f]) /\ t[1] \in {"release", "finalize"} /\ t[2] = r
    <3>1. t \in Custodial(r) /\ t \in ToSet(todo[f])
      BY <2>2, <2>3 DEF OneTaskOf
    <3>2. t[1] \in {"release", "take", "finalize", "register"} /\ t[2] = r
      BY <3>1, CustodialKinds
    <3> QED BY <1>2, <3>1, <3>2 DEF ClosingKinds
  <2>5. r \in abandoned'
    BY <1>1, <2>4
  <2>6. resource[r].open \/ resource[r].leases = 0
    BY <2>2, <2>4 DEF Fits, Untouched, Dropped
  <2>7. NoTask(r)'
    BY <1>1, <1>3, <2>2, <2>3 DEF OneTaskOf, NoTask
  <2> QED BY <1>1, <1>4, <2>1, <2>5, <2>6, <2>7 DEF InTask, Lost, Stage
<1> QED BY <1>8, <1>9

(* close() passes the resources of its scope to its fiber.                 *)
LEMMA CloseStages ==
    ASSUME TypeOK, Tree, NEW r \in Resources, Stage(r), NEW f \in Fibers, Close(f)
    PROVE  Stage(r)'
<1>1. PICK s \in Scopes :
        /\ Head(todo[f]) = <<"close", s>> /\ todo[f] # <<>>
        /\ scope'[s].resources = <<>>
        /\ \A x \in Scopes \ {s} : scope'[x] = scope[x]
        /\ \E new \in Seq(Tasks) : /\ Replace(f, new)
                                   /\ new = IF IsOpen(s) THEN CloseTasks(s) ELSE <<>>
  BY CloseScopes
<1>2. PICK new \in Seq(Tasks) : Replace(f, new) /\ new = IF IsOpen(s) THEN CloseTasks(s) ELSE <<>>
  BY <1>1
<1>3. UNCHANGED <<resource, runs, abandoned>>
  BY DEF Close
<1>4. Head(todo[f]) \notin Custodial(r)
  <2>1. \A t \in Custodial(r) : t[1] # "close"
    BY DEF Custodial
  <2>2. <<"close", s>>[1] = "close"
    OBVIOUS
  <2> QED BY <1>1, <2>1, <2>2
<1>5. ToSet(<<>>) = {} /\ Absent(<<>>, Custodial(r)) /\ Absent(<<>>, {r})
  BY EmptyAbsent DEF ToSet
<1>6. \A t \in ToSet(new) : t[1] \in {"close", "release", "unregister"}
  <2>1. CASE IsOpen(s)
    BY <1>2, <2>1, CloseTasksFacts
  <2>2. CASE ~IsOpen(s)
    BY <1>2, <1>5, <2>2
  <2> QED BY <2>1, <2>2
<1>7. <<"lease", r>> \notin ToSet(new)
  <2>1. <<"lease", r>>[1] = "lease"
    OBVIOUS
  <2> QED BY <1>6, <2>1
<1>8. NoScope(r) => NoScope(r)'
  BY <1>1, <1>5 DEF NoScope
<1>9. CASE Absent(scope[s].resources, {r})
  <2>1. Absent(new, Custodial(r))
    <3>1. CASE IsOpen(s)
      BY <1>2, <1>9, <3>1, CloseTasksFacts
    <3>2. CASE ~IsOpen(s)
      BY <1>2, <1>5, <3>2
    <3> QED BY <3>1, <3>2
  <2>2. ASSUME OneScope(r) PROVE OneScope(r)'
    <3>1. PICK x \in Scopes : /\ Once(scope[x].resources, {r})
                              /\ \A y \in Scopes \ {x} : Absent(scope[y].resources, {r})
      BY <2>2 DEF OneScope
    <3>2. x # s
      BY <1>9, <3>1 DEF Once, Absent
    <3>3. scope'[x] = scope[x] /\ \A y \in Scopes \ {x} : Absent(scope'[y].resources, {r})
      BY <1>1, <1>5, <3>1, <3>2
    <3> QED BY <3>1, <3>3 DEF OneScope
  <2>3. runs'[r] = runs[r] /\ UNCHANGED abandoned /\ resource'[r] = resource[r]
    BY <1>3
  <2>4. Undisturbed(r)
    BY <1>1, <1>2, <1>4, <1>7, <1>8, <2>1, <2>2, <2>3, StepAside
  <2> QED BY <2>3, <2>4, SameStage
<1>10. CASE ~Absent(scope[s].resources, {r})
  <2>1. InScope(r)
    BY <1>10 DEF Stage, Fresh, InTask, ByLeases, Done, Lost, NoScope
  <2>2. PICK x \in Scopes : /\ Once(scope[x].resources, {r})
                            /\ \A y \in Scopes \ {x} : Absent(scope[y].resources, {r})
    BY <2>1 DEF InScope, OneScope
  <2>3. x = s
    BY <1>10, <2>2
  <2>4. IsOpen(s)
    BY <1>5, <1>10 DEF Tree
  <2>5. new = CloseTasks(s) /\ Once(new, Custodial(r))
    BY <1>2, <2>2, <2>3, <2>4, CloseTasksFacts
  <2>6. PICK t \in ToSet(new) \cap Custodial(r) : TRUE
    BY <2>5 DEF Once, ToSet
  <2>7. t \in Tasks /\ t[1] = "release"
    <3>1. t \in Tasks
      BY DEF ToSet
    <3> QED BY <1>6, <2>6, <3>1, CustodialKinds
  <2>8. NoTask(r)
    BY <2>1 DEF InScope
  <2>9. OneTaskOf(f, t, r)'
    BY <1>1, <1>2, <2>5, <2>8, TasksPass
  <2>10. NoScope(r)'
    BY <1>1, <1>5, <2>2, <2>3 DEF NoScope
  <2>11. Fits(t, r)'
    BY <1>3, <2>1, <2>7 DEF InScope, Fits, Untouched
  <2> QED BY <1>3, <2>1, <2>7, <2>9, <2>10, <2>11 DEF InScope, InTask, Stage
<1> QED BY <1>9, <1>10
(* What the responsible fiber's step leads to: to finalizing the resource, *)
(* or to no task of its own.                                               *)
LEMMA HolderSteps ==
    ASSUME TypeOK, NEW r \in Resources, NEW f \in Fibers, todo[f] # <<>>,
           NoTask(r) \/ OneTaskOf(f, Head(todo[f]), r)
    PROVE  /\ \A t \in Tasks : t \in Custodial(r) /\ Replace(f, <<t>>) => OneTaskOf(f, t, r)'
           /\ OneTaskOf(f, Head(todo[f]), r) /\ Replace(f, <<>>) => NoTask(r)'
           /\ \A t \in Tasks : t \in Custodial(r) /\ Replace(f, <<t>>) => (NoLease(r) => NoLease(r)')
           /\ Replace(f, <<>>) => (NoLease(r) => NoLease(r)')
<1>1. <<>> \in Seq(Tasks) /\ ToSet(<<>>) = {} /\ Absent(<<>>, Custodial(r))
  BY EmptyAbsent DEF ToSet
<1>2. ASSUME NEW t \in Tasks, t \in Custodial(r), Replace(f, <<t>>)
      PROVE  OneTaskOf(f, t, r)' /\ (NoLease(r) => NoLease(r)')
  <2>1. /\ <<t>> \in Seq(Tasks) /\ ToSet(<<t>>) = {t}
        /\ Once(<<t>>, Custodial(r)) <=> t \in Custodial(r)
    BY ONLY t \in Tasks, SingleFacts
  <2>2. t # <<"lease", r>>
    <3>1. t[1] # "lease" /\ <<"lease", r>>[1] = "lease"
      BY <1>2 DEF Custodial
    <3> QED BY <3>1
  <2>3. t \in ToSet(<<t>>) \cap Custodial(r) /\ <<"lease", r>> \notin ToSet(<<t>>)
    BY <1>2, <2>1, <2>2
  <2> QED BY <1>2, <2>1, <2>3, TasksPass
<1>3. ASSUME Replace(f, <<>>)
      PROVE  (OneTaskOf(f, Head(todo[f]), r) => NoTask(r)') /\ (NoLease(r) => NoLease(r)')
  BY <1>1, <1>3, TasksPass
<1> QED BY <1>2, <1>3

(* The scope takes the resource, or its fiber finalizes it.                *)
LEMMA RegisterStages ==
    ASSUME TypeOK, NEW r \in Resources, Stage(r), NEW f \in Fibers, Register(f), On(f) = r
    PROVE  Stage(r)'
<1>1. /\ todo[f] # <<>> /\ Head(todo[f])[1] = "register" /\ Head(todo[f]) \in Custodial(r)
      /\ UNCHANGED <<resource, runs, abandoned>>
  <2>1. /\ todo[f] # <<>> /\ Head(todo[f])[1] = "register" /\ Head(todo[f])[2] = r
        /\ Head(todo[f]) \in Tasks
    BY DoingFacts DEF Register, On
  <2> QED BY <2>1, CustodialKinds DEF Register
<1>2. /\ resource[r].acquired /\ NoScope(r) /\ runs[r] = 0 /\ r \notin abandoned
      /\ OneTaskOf(f, Head(todo[f]), r) /\ Fits(Head(todo[f]), r)
  BY <1>1, Holder
<1>3. Untouched(r) /\ Dropped(r)
  BY <1>1, <1>2 DEF Fits
<1>4. <<"finalize", r>> \in Tasks /\ <<"finalize", r>> \in Custodial(r) /\ <<"finalize", r>>[1] = "finalize"
  BY TaskTypes, CustodyTasks
<1>5. CASE UNCHANGED scope /\ Replace(f, << <<"finalize", On(f)>> >>)
  <2>1. OneTaskOf(f, <<"finalize", r>>, r)' /\ (NoLease(r) => NoLease(r)')
    BY <1>1, <1>2, <1>4, <1>5, HolderSteps
  <2>2. Dropped(r)'
    BY <1>1, <1>3, <2>1 DEF Dropped
  <2>3. NoScope(r)'
    BY <1>2, <1>5, SameScopes
  <2>4. Fits(<<"finalize", r>>, r)'
    BY <1>4, <2>2 DEF Fits
  <2> QED BY <1>1, <1>2, <1>4, <2>1, <2>3, <2>4 DEF InTask, Stage
<1>6. ASSUME NEW s \in Scopes, IsOpen(s), Replace(f, <<>>),
             scope'[s].resources = <<On(f)>> \o scope[s].resources,
             \A x \in Scopes \ {s} : scope'[x] = scope[x]
      PROVE  Stage(r)'
  <2>1. NoTask(r)'
    BY <1>1, <1>2, <1>6, HolderSteps
  <2>2. Once(scope'[s].resources, {r})
    <3>1. <<r>> \in Seq(Resources) /\ (Once(<<r>>, {r}) <=> r \in {r})
      BY ONLY r \in Resources, SingleFacts
    <3>2. scope[s].resources \in Seq(Resources) /\ Absent(scope[s].resources, {r})
      BY <1>2 DEF TypeOK, ScopeState, NoScope
    <3>3. Once(<<r>> \o scope[s].resources, {r})
      BY ONLY <3>1, <3>2, JoinOnce
    <3> QED BY <1>6, <3>3
  <2>3. OneScope(r)'
    BY <1>2, <1>6, <2>2 DEF OneScope, NoScope
  <2> QED BY <1>1, <1>2, <1>3, <2>1, <2>3 DEF InScope, Untouched, Stage
<1> QED BY <1>5, <1>6, RegisterScopes

(* release() leaves a leased resource to its leases, and finalizes         *)
(* another.                                                                *)
LEMMA ReleaseStages ==
    ASSUME TypeOK, NEW r \in Resources, Stage(r), NEW f \in Fibers, Release(f), On(f) = r
    PROVE  Stage(r)'
<1>1. /\ todo[f] # <<>> /\ Head(todo[f])[1] = "release" /\ Head(todo[f]) \in Custodial(r)
      /\ UNCHANGED <<scope, runs, abandoned>>
  <2>1. /\ todo[f] # <<>> /\ Head(todo[f])[1] = "release" /\ Head(todo[f])[2] = r
        /\ Head(todo[f]) \in Tasks
    BY DoingFacts DEF Release, On
  <2> QED BY <2>1, CustodialKinds DEF Release
<1>2. /\ resource[r].acquired /\ NoScope(r) /\ runs[r] = 0 /\ r \notin abandoned
      /\ OneTaskOf(f, Head(todo[f]), r) /\ Fits(Head(todo[f]), r)
  BY <1>1, Holder
<1>3. Untouched(r)
  BY <1>1, <1>2 DEF Fits
<1>4. <<"finalize", r>> \in Tasks /\ <<"finalize", r>> \in Custodial(r) /\ <<"finalize", r>>[1] = "finalize"
  BY TaskTypes, CustodyTasks
<1>5. NoScope(r)'
  BY <1>1, <1>2, SameScopes
<1>6. CASE resource[r].leases # 0
  <2>1. resource' = [resource EXCEPT ![r].open = FALSE] /\ Replace(f, <<>>)
    BY <1>6 DEF Release
  <2>2. NoTask(r)'
    BY <1>1, <1>2, <2>1, HolderSteps
  <2>3. /\ ~resource'[r].open /\ resource'[r].leases = resource[r].leases
        /\ resource'[r].finalizer /\ resource'[r].acquired
    BY <1>2, <1>3, <2>1, OpenUpdate DEF Untouched
  <2> QED BY <1>1, <1>2, <1>5, <1>6, <2>2, <2>3 DEF ByLeases, Stage
<1>7. CASE resource[r].leases = 0
  <2>1. /\ resource' = [resource EXCEPT ![r].open = FALSE, ![r].finalizer = FALSE]
        /\ Replace(f, << <<"finalize", r>> >>)
    BY <1>3, <1>7 DEF Release, Untouched
  <2>2. OneTaskOf(f, <<"finalize", r>>, r)'
    BY <1>1, <1>2, <1>4, <2>1, HolderSteps
  <2>3. ~resource'[r].open /\ resource'[r].leases = 0 /\ resource'[r].acquired
    BY <1>2, <1>7, <2>1, ReleaseUpdate
  <2>4. Fits(<<"finalize", r>>, r)'
    BY <1>4, <2>3 DEF Fits, Dropped
  <2> QED BY <1>1, <1>2, <1>4, <1>5, <2>2, <2>3, <2>4 DEF InTask, Stage
<1> QED BY <1>6, <1>7

(* The finalizer is run by who is responsible, and nobody is from then on. *)
LEMMA FinalizeStages ==
    ASSUME TypeOK, NEW r \in Resources, Stage(r), NEW f \in Fibers, Finalize(f), On(f) = r
    PROVE  Stage(r)'
<1>1. /\ todo[f] # <<>> /\ Head(todo[f])[1] = "finalize" /\ Head(todo[f]) \in Custodial(r)
      /\ UNCHANGED <<scope, resource, abandoned>>
      /\ Replace(f, <<>>) /\ runs' = [runs EXCEPT ![r] = @ + 1]
  <2>1. /\ todo[f] # <<>> /\ Head(todo[f])[1] = "finalize" /\ Head(todo[f])[2] = r
        /\ Head(todo[f]) \in Tasks
    BY DoingFacts DEF Finalize, On
  <2> QED BY <2>1, CustodialKinds DEF Finalize
<1>2. /\ resource[r].acquired /\ NoScope(r) /\ runs[r] = 0 /\ r \notin abandoned
      /\ OneTaskOf(f, Head(todo[f]), r) /\ Fits(Head(todo[f]), r)
  BY <1>1, Holder
<1>3. runs'[r] = 1
  BY <1>1, <1>2 DEF TypeOK
<1>4. NoTask(r)' /\ (NoLease(r) => NoLease(r)')
  BY <1>1, <1>2, HolderSteps
<1>5. Dropped(r)'
  BY <1>1, <1>2, <1>4 DEF Fits, Dropped
<1>6. NoScope(r)'
  BY <1>1, <1>2, SameScopes
<1> QED BY <1>1, <1>2, <1>3, <1>4, <1>5, <1>6 DEF Done, Stage

(* The finalizer of a resource whose last lease ended is there to be       *)
(* taken.                                                                  *)
LEMMA TakeStages ==
    ASSUME TypeOK, NEW r \in Resources, Stage(r), NEW f \in Fibers, TakeFinalizer(f), On(f) = r
    PROVE  Stage(r)'
<1>1. /\ todo[f] # <<>> /\ Head(todo[f])[1] = "take" /\ Head(todo[f]) \in Custodial(r)
      /\ UNCHANGED <<scope, runs, abandoned>>
  <2>1. /\ todo[f] # <<>> /\ Head(todo[f])[1] = "take" /\ Head(todo[f])[2] = r
        /\ Head(todo[f]) \in Tasks
    BY DoingFacts DEF TakeFinalizer, On
  <2> QED BY <2>1, CustodialKinds DEF TakeFinalizer
<1>2. /\ resource[r].acquired /\ NoScope(r) /\ runs[r] = 0 /\ r \notin abandoned
      /\ OneTaskOf(f, Head(todo[f]), r) /\ Fits(Head(todo[f]), r)
  BY <1>1, Holder
<1>3. Dropped(r) /\ ~resource[r].open /\ resource[r].finalizer
  BY <1>1, <1>2 DEF Fits
<1>4. <<"finalize", r>> \in Tasks /\ <<"finalize", r>> \in Custodial(r) /\ <<"finalize", r>>[1] = "finalize"
  BY TaskTypes, CustodyTasks
<1>5. NoScope(r)'
  BY <1>1, <1>2, SameScopes
<1>6. resource' = [resource EXCEPT ![r].finalizer = FALSE] /\ Replace(f, << <<"finalize", r>> >>)
  BY <1>3 DEF TakeFinalizer
<1>7. OneTaskOf(f, <<"finalize", r>>, r)'
  BY <1>1, <1>2, <1>4, <1>6, HolderSteps
<1>8. ~resource'[r].open /\ resource'[r].leases = 0 /\ resource'[r].acquired
  BY <1>2, <1>3, <1>6, FinalizerUpdate DEF Dropped
<1>9. Fits(<<"finalize", r>>, r)'
  BY <1>4, <1>8 DEF Fits, Dropped
<1> QED BY <1>1, <1>2, <1>4, <1>5, <1>7, <1>8, <1>9 DEF InTask, Stage

(* A lease is taken of a resource that somebody will release.              *)
LEMMA LeaseStages ==
    ASSUME TypeOK, NEW r \in Resources, Stage(r), NEW f \in Fibers, LeaseResource(f), On(f) = r
    PROVE  Stage(r)'
<1>1. /\ todo[f] # <<>> /\ Head(todo[f]) \notin Custodial(r)
      /\ \E new \in Seq(Tasks) : /\ Replace(f, new) /\ Absent(new, Custodial(r))
                                 /\ <<"lease", r>> \notin ToSet(new)
  BY AsideTasks DEF LeaseResource
<1>2. UNCHANGED <<scope, runs, abandoned>>
  BY DEF LeaseResource
<1>3. (NoScope(r) => NoScope(r)') /\ (OneScope(r) => OneScope(r)')
  BY <1>2, SameScopes
<1>4. Undisturbed(r)
  BY <1>1, <1>2, <1>3, StepAside
<1>5. CASE ~resource[r].open
  BY <1>4, <1>5, SameStage DEF LeaseResource
<1>6. CASE resource[r].open
  <2>1. ~NoLease(r)
    BY DoingFacts DEF LeaseResource, NoLease
  <2>2. resource' = [resource EXCEPT ![r].leases = resource[r].leases + 1]
        /\ resource[r].leases + 1 \in Nat
    BY <1>6 DEF LeaseResource, TypeOK, ResourceState
  <2>3. /\ resource'[r].open /\ resource'[r].finalizer = resource[r].finalizer
        /\ resource'[r].acquired = resource[r].acquired
    BY <1>6, <2>2, LeaseUpdate
  <2>4. ~Dropped(r)
    BY <1>6, <2>1 DEF Dropped
  <2>5. CASE InScope(r)
    BY <1>4, <2>3, <2>5 DEF InScope, Untouched, Undisturbed, Stage
  <2>6. CASE InTask(r)
    <3>1. PICK g \in Fibers, t \in Tasks : OneTaskOf(g, t, r) /\ Fits(t, r)
      BY <2>6 DEF InTask
    <3>2. OneTaskOf(g, t, r)'
      BY <1>4, <3>1 DEF Undisturbed
    <3>3. t[1] = "release" /\ Untouched(r)
      BY <2>4, <3>1 DEF Fits
    <3>4. Fits(t, r)'
      BY <2>3, <3>3 DEF Fits, Untouched
    <3> QED BY <1>4, <2>3, <2>6, <3>2, <3>4 DEF InTask, Undisturbed, Stage
  <2>7. CASE Lost(r)
    BY <1>4, <2>3, <2>7 DEF Lost, Undisturbed, Stage
  <2> QED BY <1>6, <2>4, <2>5, <2>6, <2>7 DEF Stage, Fresh, ByLeases, Done
<1> QED BY <1>5, <1>6

(* The last lease of a resource that was released makes its fiber          *)
(* responsible.                                                            *)
LEMMA UnleaseStages ==
    ASSUME TypeOK, Operations, LeasesCounted, NEW r \in Resources, Stage(r), NEW f \in Fibers,
           Unlease(f), On(f) = r
    PROVE  Stage(r)'
<1>1. /\ resource[r].leases > 0 /\ resource[r].leases - 1 \in Nat
      /\ resource' = [resource EXCEPT ![r].leases = resource[r].leases - 1]
  BY GiveLease
<1>2. /\ resource'[r].open = resource[r].open /\ resource'[r].finalizer = resource[r].finalizer
      /\ resource'[r].acquired = resource[r].acquired
      /\ resource'[r].leases = resource[r].leases - 1
  BY <1>1, LeaseUpdate
<1>3. ~Dropped(r) /\ resource[r].leases \in Nat
  BY <1>1 DEF Dropped, TypeOK, ResourceState
<1>4. /\ todo[f] # <<>> /\ Head(todo[f]) \notin Custodial(r)
  <2>1. /\ todo[f] # <<>> /\ Head(todo[f])[1] = "unlease" /\ Head(todo[f]) \in Tasks
    BY DoingFacts DEF Unlease
  <2> QED BY <2>1, CustodialKinds
<1>5. UNCHANGED <<scope, runs, abandoned>>
  BY DEF Unlease
<1>6. (NoScope(r) => NoScope(r)') /\ (OneScope(r) => OneScope(r)')
  BY <1>5, SameScopes
<1>7. CASE ~(~resource[r].open /\ resource[r].leases = 1)
  <2>1. Replace(f, <<>>)
    BY <1>7 DEF Unlease
  <2>2. <<>> \in Seq(Tasks) /\ ToSet(<<>>) = {} /\ Absent(<<>>, Custodial(r))
    BY EmptyAbsent DEF ToSet
  <2>3. Undisturbed(r)
    BY <1>4, <1>5, <1>6, <2>1, <2>2, StepAside
  <2>4. CASE InScope(r)
    BY <1>2, <2>3, <2>4 DEF InScope, Untouched, Undisturbed, Stage
  <2>5. CASE InTask(r)
    <3>1. PICK g \in Fibers, t \in Tasks : OneTaskOf(g, t, r) /\ Fits(t, r)
      BY <2>5 DEF InTask
    <3>2. OneTaskOf(g, t, r)'
      BY <2>3, <3>1 DEF Undisturbed
    <3>3. t[1] = "release" /\ Untouched(r)
      BY <1>3, <3>1 DEF Fits
    <3>4. Fits(t, r)'
      BY <1>2, <3>3 DEF Fits, Untouched
    <3> QED BY <1>2, <2>3, <2>5, <3>2, <3>4 DEF InTask, Undisturbed, Stage
  <2>6. CASE Lost(r)
    <3>1. resource[r].open
      BY <1>1, <1>3, <2>6 DEF Lost
    <3> QED BY <1>2, <2>3, <2>6, <3>1 DEF Lost, Undisturbed, Stage
  <2>7. CASE ByLeases(r)
    <3>1. resource'[r].leases # 0
      BY <1>1, <1>2, <1>3, <1>7, <2>7 DEF ByLeases
    <3> QED BY <1>2, <2>3, <2>7, <3>1 DEF ByLeases, Undisturbed, Stage
  <2> QED BY <1>3, <2>4, <2>5, <2>6, <2>7 DEF Stage, Fresh, Done
<1>8. CASE ~resource[r].open /\ resource[r].leases = 1
  <2>1. Replace(f, << <<"take", r>> >>)
    BY <1>8 DEF Unlease
  <2>2. ByLeases(r)
    <3>1. ~InTask(r)
      BY <1>3, <1>8 DEF InTask, Fits, Untouched
    <3> QED BY <1>3, <1>8, <3>1 DEF Stage, Fresh, InScope, Untouched, Done, Lost
  <2>3. <<"take", r>> \in Tasks /\ <<"take", r>> \in Custodial(r) /\ <<"take", r>>[1] = "take"
    BY TaskTypes, CustodyTasks
  <2>4. OneTaskOf(f, <<"take", r>>, r)'
    BY <1>4, <2>1, <2>2, <2>3, HolderSteps DEF ByLeases
  <2>5. resource'[r].leases = 0
    BY <1>2, <1>8
  <2>6. Fits(<<"take", r>>, r)'
    BY <1>2, <1>8, <2>2, <2>3, <2>5 DEF Fits, Dropped, ByLeases
  <2> QED BY <1>2, <1>5, <1>6, <2>2, <2>3, <2>4, <2>6 DEF ByLeases, InTask, Stage
<1> QED BY <1>7, <1>8
(* Every step takes a resource from one stage of its life to the next, or  *)
(* leaves it where it is.                                                  *)
LEMMA NextLifecycle ==
    ASSUME TypeOK, Operations, LeasesCounted, Tree, Lifecycle, [Next]_vars
    PROVE  Lifecycle'
<1> SUFFICES ASSUME NEW r \in Resources PROVE Stage(r)'
  BY DEF Lifecycle
<1>1. Stage(r)
  BY DEF Lifecycle
<1>2. CASE UNCHANGED vars
  <2>1. Undisturbed(r) /\ resource'[r] = resource[r]
    BY <1>2 DEF vars, Undisturbed, NoScope, OneScope, NoTask, OneTaskOf, NoLease, Custodial
  <2> QED BY <1>1, <2>1, SameStage
<1>3. ASSUME NEW f \in Fibers,
             \/ OpenChild(f) \/ OpenNone(f) \/ Register(f) \/ Unregister(f)
             \/ Release(f) \/ Finalize(f) \/ TakeFinalizer(f) \/ Unlease(f) \/ LeaseResource(f)
      PROVE  Stage(r)'
  <2>1. CASE On(f) # r
    BY <1>1, <1>3, <2>1, AsideStages
  <2>2. CASE OpenChild(f) \/ OpenNone(f) \/ Unregister(f)
    <3>1. Doing(f, "open") \/ Doing(f, "unregister")
      BY <2>2 DEF OpenChild, OpenNone, Unregister
    <3> QED BY <1>1, <1>3, <3>1, AsideStages
  <2>3. CASE On(f) = r /\ ~(OpenChild(f) \/ OpenNone(f) \/ Unregister(f))
    BY <1>1, <1>3, <2>3, RegisterStages, ReleaseStages, FinalizeStages, TakeStages, UnleaseStages,
       LeaseStages
  <2> QED BY <2>1, <2>2, <2>3
<1>4. ASSUME NEW f \in Fibers, Start(f) PROVE Stage(r)'
  BY <1>1, <1>4, StartStages
<1>5. ASSUME NEW f \in Fibers, Cancel(f) PROVE Stage(r)'
  BY <1>1, <1>5, CancelStages
<1>6. ASSUME NEW f \in Fibers, Close(f) PROVE Stage(r)'
  BY <1>1, <1>6, CloseStages
<1>7. ASSUME NEW f \in Fibers, ReadResources(f) PROVE Stage(r)'
  BY <1>1, <1>7, ReadStages
<1> QED BY <1>2, <1>3, <1>4, <1>5, <1>6, <1>7 DEF Next, Step

(* No resource is known in the beginning.                                  *)
LEMMA InitLife == Init => Tree /\ ScopesKnown /\ Lifecycle
<1> SUFFICES ASSUME Init PROVE Tree /\ ScopesKnown /\ Lifecycle
  OBVIOUS
<1>1. Root \in Scopes
  BY ScopeAssumption
<1>2. \A s \in Scopes : /\ scope[s].children = <<>> /\ scope[s].resources = <<>>
                        /\ scope[s].tag = IF s = Root THEN "open" ELSE "new"
  BY DEF Init, Empty
<1>3. \A f \in Fibers : todo[f] = <<>> /\ ToSet(todo[f]) = {}
  BY DEF Init, ToSet
<1>4. Tree
  BY <1>1, <1>2, <1>3 DEF Tree, Known
<1>5. ScopesKnown
  BY <1>2 DEF ScopesKnown, IsOpen
<1>6. ASSUME NEW r \in Resources PROVE Fresh(r)
  <2>1. NoScope(r) /\ NoTask(r) /\ NoLease(r)
    BY <1>2, <1>3, EmptyAbsent DEF NoScope, NoTask, NoLease
  <2> QED BY <2>1 DEF Init, Fresh, Dropped
<1> QED BY <1>4, <1>5, <1>6 DEF Lifecycle, Stage

(* A resource counts no lease when nobody has one.                         *)
LEMMA LeasesSlots ==
    ASSUME TypeOK, LeasesCounted, NEW r \in Resources
    PROVE  resource[r].leases = 0 <=> Leases(r) = {}
<1>1. resource[r].leases = 0 <=> Slots(r) = {}
  BY FS_EmptySet DEF LeasesCounted
<1>2. ASSUME NEW x \in Slots(r) PROVE x[1] \in Leases(r)
  BY DEF Slots, Having, Owing, Leases, Leased, ToSet
<1>3. ASSUME NEW f \in Leases(r) PROVE Slots(r) # {}
  <2>1. CASE r \in ToSet(held[f])
    <3>1. PICK i \in DOMAIN held[f] : held[f][i] = r
      BY <2>1 DEF ToSet
    <3>2. f \in Fibers /\ i \in Int
      BY DEF Leases, TypeOK
    <3>3. <<f, i>> \in Slots(r)
      BY <3>1, <3>2 DEF Slots, Having
    <3> QED BY <3>3
  <2>2. CASE <<"unlease", r>> \in ToSet(todo[f])
    <3>1. PICK i \in DOMAIN todo[f] : todo[f][i] = <<"unlease", r>>
      BY <2>2 DEF ToSet
    <3>2. f \in Fibers /\ todo[f] \in Seq(Tasks)
      BY DEF Leases, TypeOK
    <3>3. Len(todo[f]) \in Nat /\ i \in 1..Len(todo[f])
      BY <3>2
    <3>4. PICK k \in Int : k = i - Len(todo[f])
      BY <3>3
    <3>5. k <= 0 /\ Len(todo[f]) + k = i
      BY <3>3, <3>4
    <3>6. <<f, k>> \in Slots(r)
      BY <3>1, <3>2, <3>5 DEF Slots, Owing
    <3> QED BY <3>6
  <2> QED BY <2>1, <2>2 DEF Leases, Leased
<1> QED BY <1>1, <1>2, <1>3

LifeInv ==
    /\ TypeOK /\ Operations /\ LeasesCounted
    /\ Tree /\ ScopesKnown /\ Lifecycle

(* The inductive invariant of the scopes.                                  *)
LEMMA LifeHolds == Spec => []LifeInv
<1>1. Init => LifeInv
  BY InitTypes, InitLife DEF LifeInv
<1>2. LifeInv /\ [Next]_vars => LifeInv'
  BY NextKinds, NextLeases, NextTree, NextKnown, NextLifecycle DEF LifeInv
<1> QED BY <1>1, <1>2, PTL DEF Spec

(* A resource that was finalized counts no leases.                         *)
LEMMA LifeReleases == LifeInv => ReleasedOnce
<1> SUFFICES ASSUME LifeInv, NEW r \in Resources
             PROVE  runs[r] <= 1 /\ (runs[r] = 1 => Leases(r) = {})
  BY DEF ReleasedOnce
<1>1. Stage(r) /\ (resource[r].leases = 0 <=> Leases(r) = {})
  BY LeasesSlots DEF LifeInv, Lifecycle
<1>2. CASE Done(r)
  BY <1>1, <1>2 DEF Done, Dropped
<1>3. CASE ~Done(r)
  <2>1. runs[r] = 0
    BY <1>1, <1>3 DEF Stage, Fresh, InScope, InTask, ByLeases, Lost
  <2> QED BY <2>1
<1> QED BY <1>2, <1>3

(* The finalizer of a resource runs once at most, after its last lease.    *)
THEOREM FinalizedOnce == Spec => []ReleasedOnce
BY LifeHolds, LifeReleases, PTL

(* Each stage has one custodian.                                           *)
LEMMA OneCustodian ==
    ASSUME LifeInv, NEW r \in Resources \ abandoned
    PROVE  Cardinality(Custodians(r)) = IF resource[r].acquired THEN 1 ELSE 0
<1> DEFINE A == {s \in Scopes : r \in ToSet(scope[s].resources)}
           B == {x \in Fibers \X Custodial(r) : x[2] \in ToSet(todo[x[1]])}
           C == {x \in {"leases"} : ~resource[r].open /\ Leases(r) # {}}
           D == {x \in {"finalized"} : runs[r] > 0}
<1>1. Custodians(r) = A \cup B \cup C \cup D
  BY DEF Custodians
<1>2. /\ Stage(r) /\ (resource[r].leases = 0 <=> Leases(r) = {})
  BY LeasesSlots DEF LifeInv, Lifecycle
<1>3. NoScope(r) => A = {}
  BY DEF NoScope, Absent, ToSet
<1>4. NoTask(r) => B = {}
  BY DEF NoTask, Absent, ToSet
<1>5. (resource[r].open \/ Leases(r) = {}) => C = {}
  OBVIOUS
<1>6. runs[r] = 0 => D = {}
  OBVIOUS
<1>7. Cardinality({}) = 0 /\ \A x : Cardinality({x}) = 1
  BY FS_EmptySet, FS_Singleton
<1>8. CASE Fresh(r)
  <2>1. A = {} /\ B = {} /\ C = {} /\ D = {} /\ ~resource[r].acquired
    BY <1>3, <1>4, <1>5, <1>6, <1>8 DEF Fresh
  <2> QED BY <1>1, <1>7, <2>1
<1>9. CASE InScope(r)
  <2>1. B = {} /\ C = {} /\ D = {} /\ resource[r].acquired
    BY <1>4, <1>5, <1>6, <1>9 DEF InScope, Untouched
  <2>2. PICK s \in Scopes : /\ Once(scope[s].resources, {r})
                            /\ \A x \in Scopes \ {s} : Absent(scope[x].resources, {r})
    BY <1>9 DEF InScope, OneScope
  <2>3. A = {s}
    BY <2>2 DEF Once, Absent, ToSet
  <2> QED BY <1>1, <1>7, <2>1, <2>3
<1>10. CASE InTask(r)
  <2>1. PICK f \in Fibers, t \in Tasks : OneTaskOf(f, t, r) /\ Fits(t, r)
    BY <1>10 DEF InTask
  <2>2. resource[r].open \/ resource[r].leases = 0
    BY <2>1 DEF Fits, Untouched, Dropped
  <2>3. A = {} /\ C = {} /\ D = {} /\ resource[r].acquired
    BY <1>2, <1>3, <1>5, <1>6, <1>10, <2>2 DEF InTask
  <2>4. ToSet(todo[f]) \cap Custodial(r) = {t}
    <3>1. todo[f] \in Seq(Tasks) /\ Once(todo[f], Custodial(r))
      BY <2>1 DEF LifeInv, TypeOK, OneTaskOf
    <3>2. \E u \in ToSet(todo[f]) \cap Custodial(r) : ToSet(todo[f]) \cap Custodial(r) = {u}
      BY ONLY <3>1, OnceSet
    <3> QED BY <2>1, <3>2 DEF OneTaskOf
  <2>5. \A g \in Fibers \ {f} : ToSet(todo[g]) \cap Custodial(r) = {}
    BY <2>1 DEF OneTaskOf, Absent, ToSet
  <2>6. B = {<<f, t>>}
    <3>1. ASSUME NEW x \in B PROVE x = <<f, t>>
      <4>1. x[1] = f /\ x[2] = t
        BY <2>4, <2>5, <3>1
      <4> QED BY <4>1
    <3>2. <<f, t>> \in B
      BY <2>4
    <3> QED BY <3>1, <3>2
  <2> QED BY <1>1, <1>7, <2>3, <2>6
<1>11. CASE ByLeases(r)
  <2>1. A = {} /\ B = {} /\ D = {} /\ resource[r].acquired
    BY <1>3, <1>4, <1>6, <1>11 DEF ByLeases
  <2>2. C = {"leases"}
    BY <1>2, <1>11 DEF ByLeases
  <2> QED BY <1>1, <1>7, <2>1, <2>2
<1>12. CASE Done(r)
  <2>1. A = {} /\ B = {} /\ C = {} /\ resource[r].acquired
    BY <1>2, <1>3, <1>4, <1>5, <1>12 DEF Done, Dropped
  <2>2. D = {"finalized"}
    BY <1>12 DEF Done
  <2> QED BY <1>1, <1>7, <2>1, <2>2
<1> QED BY <1>2, <1>8, <1>9, <1>10, <1>11, <1>12 DEF Stage, Lost

(* Every resource and every open scope has somebody who will release or    *)
(* close it, but for those that a canceled close() abandoned.              *)
THEOREM NothingForgotten == Spec => []NoneForgotten
<1>1. LifeInv => NoneForgotten
  BY OneCustodian DEF NoneForgotten, ScopesKnown, LifeInv
<1> QED BY <1>1, LifeHolds, PTL
=============================================================================
