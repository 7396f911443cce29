-------------------------- MODULE DispatcherProofs --------------------------
(***************************************************************************)
(* Proofs about Dispatcher and Supervisor, for any number of calls and     *)
(* workers.                                                                *)
(***************************************************************************)
EXTENDS Dispatcher, DataProofs

(* What a worker has yet to start, the current registration included.      *)
Rest(w) == worker[w].rgs \o Reverse(state[w])

(* The current registration is started: it is in supervise(), or after it. *)
Serving(w) == worker[w].pc \in {"insert", "check", "prepare"}

(* The registrations whose turn has not come.                              *)
Waiting(w) ==
    ToSet(IF Serving(w) THEN Tail(worker[w].rgs) ELSE worker[w].rgs) \cup ToSet(state[w])

(* A worker has registrations exactly where it traverses them, and no      *)
(* registration comes twice, be it to two workers.                         *)
RegistrationsOnce ==
    /\ \A w \in Workers : worker[w].rgs # <<>> <=> Serving(w) \/ worker[w].pc \in {"took", "start"}
    /\ \A w \in Workers : IsInjective(arrived[w])
    /\ \A v, w \in Workers : v # w => ToSet(arrived[v]) \cap ToSet(arrived[w]) = {}

(* No registration is started before its turn. A fiber is done when its    *)
(* finalizer has run.                                                      *)
FibersInTurn ==
    /\ \A a \in Actions : ~Submitted(a) => fiber[a] = "none"
    /\ \A w \in Workers : worker[w].pc # "stopped" =>
        \A a \in Waiting(w) : fiber[a] = "none"
    /\ \A w \in Workers : Serving(w) => fiber[Current(w)] # "none"
    /\ \A a \in Actions : /\ a \in done => fiber[a] \in {"cleaning", "ended"}
                          /\ fiber[a] = "cleaning" => a \in done

(* Before it is inserted, a fiber's token is not there; afterwards it is   *)
(* until the fiber is done; and once supervise() is over, it is gone when  *)
(* the fiber that removes it has ended.                                    *)
TokensInTurn ==
    /\ \A a \in Actions : ~Recording(a) =>
        /\ a \in tokens => fiber[a] # "none"
        /\ a \notin done /\ fiber[a] # "none" => a \in tokens
        /\ a \in done /\ fiber[a] = "ended" => a \notin tokens
    /\ \A w \in Workers :
        /\ worker[w].pc = "insert" => Current(w) \notin tokens
        /\ worker[w].pc = "check" /\ Current(w) \notin done => Current(w) \in tokens

(* The release goes from the workers to the fibers they have left.         *)
ReleaseInTurn ==
    /\ shutdown \in {"alive", "supervisor", "cancels", "released"} =>
        \A w \in Workers : worker[w].pc = "stopped"
    /\ shutdown \in {"cancels", "released"} =>
        \A a \in Actions : fiber[a] \notin {"none", "cleaning", "ended"} => a \in snapshot
    /\ NothingOutlives

Rules ==
    /\ StartsInOrder
    /\ RegistrationsOnce
    /\ FibersInTurn
    /\ TokensInTurn
    /\ ReleaseInTurn

Inv == TypeOK /\ Rules

-----------------------------------------------------------------------------
(* Reversed lists, and the ends of a list.                                 *)
LEMMA ReverseFacts ==
    ASSUME NEW T, NEW s \in Seq(T)
    PROVE  /\ Reverse(s) \in Seq(T) /\ Len(Reverse(s)) = Len(s)
           /\ \A i \in 1..Len(s) : Reverse(s)[i] = s[(Len(s) - i) + 1]
           /\ Reverse(s) = <<>> <=> s = <<>>
<1>1. Len(s) \in Nat /\ \A i \in 1..Len(s) : s[i] \in T /\ (Len(s) - i) + 1 \in 1..Len(s)
  BY LenProperties
<1>2. Reverse(s) \in Seq(T) /\ Len(Reverse(s)) = Len(s)
  BY <1>1 DEF Reverse
<1>3. \A i \in 1..Len(s) : Reverse(s)[i] = s[(Len(s) - i) + 1]
  BY DEF Reverse
<1>4. Reverse(s) = <<>> <=> s = <<>>
  BY <1>2, EmptySeq
<1> QED BY <1>2, <1>3, <1>4

LEMMA ReverseSet ==
    ASSUME NEW T, NEW s \in Seq(T)
    PROVE  ToSet(Reverse(s)) = ToSet(s)
<1>1. /\ Reverse(s) \in Seq(T) /\ Len(s) \in Nat /\ DOMAIN s = 1..Len(s)
      /\ DOMAIN Reverse(s) = 1..Len(s)
      /\ \A i \in 1..Len(s) : Reverse(s)[i] = s[(Len(s) - i) + 1]
  BY ReverseFacts, LenProperties
<1>2. ASSUME NEW i \in 1..Len(s) PROVE Reverse(s)[i] \in ToSet(s)
  <2>1. (Len(s) - i) + 1 \in DOMAIN s
    BY <1>1
  <2> QED BY <1>1, <2>1 DEF ToSet
<1>3. ASSUME NEW i \in 1..Len(s) PROVE s[i] \in ToSet(Reverse(s))
  <2> DEFINE j == (Len(s) - i) + 1
  <2>1. j \in DOMAIN Reverse(s) /\ (Len(s) - j) + 1 = i
    BY <1>1
  <2> HIDE DEF j
  <2>2. Reverse(s)[j] = s[i]
    BY <1>1, <2>1
  <2> QED BY <2>1, <2>2 DEF ToSet
<1> QED BY <1>1, <1>2, <1>3 DEF ToSet

LEMMA ReverseCons ==
    ASSUME NEW T, NEW s \in Seq(T), NEW e \in T
    PROVE  Reverse(<<e>> \o s) = Append(Reverse(s), e)
<1> DEFINE u == <<e>> \o s
           n == Len(s)
<1>1. /\ u \in Seq(T) /\ Len(u) = 1 + n /\ n \in Nat
      /\ \A i \in 1..1 + n : u[i] = IF i <= 1 THEN <<e>>[i] ELSE s[i - 1]
  <2>1. <<e>> \in Seq(T) /\ Len(<<e>>) = 1
    OBVIOUS
  <2> QED BY <2>1, ConcatProperties, LenProperties
<1>2. /\ Reverse(u) \in Seq(T) /\ Len(Reverse(u)) = Len(u)
      /\ \A i \in 1..Len(u) : Reverse(u)[i] = u[(Len(u) - i) + 1]
  BY <1>1, ReverseFacts
<1>3. /\ Reverse(s) \in Seq(T) /\ Len(Reverse(s)) = n
      /\ \A i \in 1..n : Reverse(s)[i] = s[(n - i) + 1]
  BY ReverseFacts
<1>4. /\ Append(Reverse(s), e) \in Seq(T) /\ Len(Append(Reverse(s), e)) = n + 1
      /\ \A i \in 1..n : Append(Reverse(s), e)[i] = Reverse(s)[i]
      /\ Append(Reverse(s), e)[n + 1] = e
  BY <1>3, AppendProperties
<1> HIDE DEF u, n
<1>5. ASSUME NEW i \in 1..Len(u) PROVE Reverse(u)[i] = Append(Reverse(s), e)[i]
  <2>1. CASE i = n + 1
    <3>1. (Len(u) - i) + 1 = 1 /\ 1 \in 1..1 + n
      BY <1>1, <2>1
    <3> QED BY <1>1, <1>2, <1>4, <2>1, <3>1
  <2>2. CASE i # n + 1
    <3>1. /\ i \in 1..n /\ (Len(u) - i) + 1 \in 1..1 + n /\ ~((Len(u) - i) + 1 <= 1)
          /\ ((Len(u) - i) + 1) - 1 = (n - i) + 1
      BY <1>1, <2>2
    <3> QED BY <1>1, <1>2, <1>3, <1>4, <3>1
  <2> QED BY <2>1, <2>2
<1>6. Len(Reverse(u)) = Len(Append(Reverse(s), e))
  BY <1>1, <1>2, <1>4
<1> QED BY <1>2, <1>4, <1>5, <1>6, SeqEqual DEF u

(* Position by position, from the end.                                     *)
LEMMA SuffixMeans ==
    ASSUME NEW T, NEW s \in Seq(T), NEW t \in Seq(T)
    PROVE  IsSuffix(s, t) <=>
             /\ Len(s) <= Len(t)
             /\ \A i \in 1..Len(s) : s[(Len(s) - i) + 1] = t[(Len(t) - i) + 1]
<1> DEFINE a == Reverse(s)
           b == Reverse(t)
           n == Len(s)
<1>1. /\ a \in Seq(T) /\ b \in Seq(T) /\ n \in Nat /\ Len(t) \in Nat
      /\ Len(a) = n /\ Len(b) = Len(t)
      /\ \A i \in 1..n : a[i] = s[(n - i) + 1]
      /\ \A i \in 1..Len(t) : b[i] = t[(Len(t) - i) + 1]
  BY ReverseFacts, LenProperties
<1> HIDE DEF a, b
<1>2. CASE n <= Len(t)
  <2>1. (\A i \in 1..n : a[i] \in T) /\ (\A i \in 1..n : b[i] \in T)
    BY <1>1, <1>2, LenProperties
  <2>2. /\ SubSeq(a, 1, n) \in Seq(T) /\ Len(SubSeq(a, 1, n)) = n
        /\ SubSeq(b, 1, n) \in Seq(T) /\ Len(SubSeq(b, 1, n)) = n
        /\ \A i \in 1..n : SubSeq(a, 1, n)[i] = a[i] /\ SubSeq(b, 1, n)[i] = b[i]
    BY <1>1, <1>2
  <2>3. SubSeq(a, 1, n) = SubSeq(b, 1, n) <=> \A i \in 1..n : a[i] = b[i]
    <3>1. ASSUME \A i \in 1..n : a[i] = b[i]
          PROVE  SubSeq(a, 1, n) = SubSeq(b, 1, n)
      BY <2>2, <3>1, SeqEqual
    <3>2. ASSUME SubSeq(a, 1, n) = SubSeq(b, 1, n), NEW i \in 1..n
          PROVE  a[i] = b[i]
      BY <2>2, <3>2
    <3> QED BY <3>1, <3>2
  <2>4. IsSuffix(s, t) <=> n <= Len(t) /\ SubSeq(a, 1, n) = SubSeq(b, 1, n)
    BY <1>1 DEF IsSuffix, IsPrefix, a, b
  <2>5. \A i \in 1..n : i \in 1..Len(t)
    BY <1>1, <1>2
  <2> QED BY <1>1, <1>2, <2>3, <2>4, <2>5
<1>3. CASE ~(n <= Len(t))
  BY <1>1, <1>3 DEF IsSuffix, IsPrefix, a, b
<1> QED BY <1>2, <1>3

LEMMA SuffixAppend ==
    ASSUME NEW T, NEW s \in Seq(T), NEW t \in Seq(T), NEW e \in T, IsSuffix(s, t)
    PROVE  IsSuffix(Append(s, e), Append(t, e))
<1> DEFINE a == Append(s, e)
           b == Append(t, e)
           n == Len(s)
           m == Len(t)
<1>1. /\ a \in Seq(T) /\ b \in Seq(T) /\ n \in Nat /\ m \in Nat
      /\ Len(a) = n + 1 /\ Len(b) = m + 1
      /\ \A i \in 1..n : a[i] = s[i]
      /\ \A i \in 1..m : b[i] = t[i]
      /\ a[n + 1] = e /\ b[m + 1] = e
  BY AppendProperties, LenProperties
<1>2. n <= m /\ \A i \in 1..n : s[(n - i) + 1] = t[(m - i) + 1]
  BY SuffixMeans
<1> HIDE DEF a, b, n, m
<1>3. IsSuffix(a, b) <=>
        /\ Len(a) <= Len(b)
        /\ \A i \in 1..Len(a) : a[(Len(a) - i) + 1] = b[(Len(b) - i) + 1]
  <2>1. a \in Seq(T) /\ b \in Seq(T)
    BY <1>1
  <2> QED BY <2>1, SuffixMeans
<1>4. ASSUME NEW i \in 1..n + 1 PROVE a[((n + 1) - i) + 1] = b[((m + 1) - i) + 1]
  <2>1. CASE i = 1
    <3> DEFINE x == ((n + 1) - i) + 1
               y == ((m + 1) - i) + 1
    <3>1. x = n + 1 /\ y = m + 1
      BY <1>1, <2>1
    <3> HIDE DEF x, y
    <3>2. a[x] = e /\ b[y] = e
      BY <1>1, <3>1
    <3>3. a[x] = b[y]
      BY <3>2
    <3> QED BY <3>3 DEF x, y
  <2>2. CASE i # 1
    <3> DEFINE j == i - 1
               x == ((n + 1) - i) + 1
               y == ((m + 1) - i) + 1
    <3>1. j \in 1..n /\ x = (n - j) + 1 /\ y = (m - j) + 1 /\ x \in 1..n /\ y \in 1..m
      BY <1>1, <1>2, <2>2
    <3> HIDE DEF j, x, y
    <3>2. a[x] = s[x] /\ b[y] = t[y] /\ s[x] = t[y]
      BY <1>1, <1>2, <3>1
    <3>3. a[x] = b[y]
      BY <3>2
    <3> QED BY <3>3 DEF x, y
  <2> QED BY <2>1, <2>2
<1>5. \A i \in 1..Len(a) : a[(Len(a) - i) + 1] = b[(Len(b) - i) + 1]
  <2>1. Len(a) = n + 1 /\ Len(b) = m + 1
    BY <1>1
  <2> QED BY <1>4, <2>1
<1>6. Len(a) <= Len(b)
  BY <1>1, <1>2
<1> QED BY <1>3, <1>5, <1>6 DEF a, b

LEMMA SuffixTail ==
    ASSUME NEW T, NEW s \in Seq(T), NEW t \in Seq(T), s # <<>>, IsSuffix(s, t)
    PROVE  IsSuffix(Tail(s), t)
<1> DEFINE a == Tail(s)
           n == Len(s)
           m == Len(t)
<1>1. /\ a \in Seq(T) /\ n \in Nat \ {0} /\ m \in Nat /\ Len(a) = n - 1
      /\ \A i \in 1..n - 1 : a[i] = s[i + 1]
  BY HeadTailProperties, EmptySeq, LenProperties
<1>2. n <= m /\ \A i \in 1..n : s[(n - i) + 1] = t[(m - i) + 1]
  BY SuffixMeans
<1>3. IsSuffix(a, t) <=>
        /\ Len(a) <= m
        /\ \A i \in 1..Len(a) : a[(Len(a) - i) + 1] = t[(m - i) + 1]
  BY <1>1, SuffixMeans
<1> HIDE DEF a, n, m
<1>4. ASSUME NEW i \in 1..n - 1 PROVE a[((n - 1) - i) + 1] = t[(m - i) + 1]
  <2>1. /\ i \in 1..n /\ ((n - 1) - i) + 1 \in 1..n - 1
        /\ (((n - 1) - i) + 1) + 1 = (n - i) + 1
    BY <1>1
  <2> QED BY <1>1, <1>2, <2>1
<1>5. n - 1 <= m
  BY <1>1, <1>2
<1> QED BY <1>1, <1>3, <1>4, <1>5 DEF a

LEMMA SuffixFacts ==
    ASSUME NEW T, NEW s \in Seq(T), NEW t \in Seq(T), IsSuffix(s, t)
    PROVE  ToSet(s) \subseteq ToSet(t) /\ (IsInjective(t) => IsInjective(s))
<1> DEFINE n == Len(s)
           m == Len(t)
<1>1. /\ n \in Nat /\ m \in Nat /\ n <= m /\ DOMAIN s = 1..n /\ DOMAIN t = 1..m
      /\ \A i \in 1..n : s[(n - i) + 1] = t[(m - i) + 1]
  BY SuffixMeans, LenProperties
<1> HIDE DEF n, m
<1>2. ASSUME NEW j \in DOMAIN s PROVE (m - n) + j \in DOMAIN t /\ s[j] = t[(m - n) + j]
  <2> DEFINE i == (n - j) + 1
  <2>1. j \in Int /\ 1 <= j /\ j <= n /\ n \in Nat /\ m \in Nat /\ n <= m
    BY <1>1
  <2>2. i \in 1..n /\ (n - i) + 1 = j /\ (m - i) + 1 = (m - n) + j /\ (m - n) + j \in 1..m
    BY <2>1
  <2> HIDE DEF i
  <2> QED BY <1>1, <2>2
<1>3. ToSet(s) \subseteq ToSet(t)
  BY <1>2 DEF ToSet
<1>4. ASSUME IsInjective(t), NEW i \in DOMAIN s, NEW j \in DOMAIN s, s[i] = s[j]
      PROVE  i = j
  <2>1. (m - n) + i = (m - n) + j
    BY <1>2, <1>4 DEF IsInjective
  <2> QED BY <1>1, <2>1
<1> QED BY <1>3, <1>4 DEF IsInjective

-----------------------------------------------------------------------------
(* The lists of a worker.                                                  *)
LEMMA WorkerTypes ==
    ASSUME TypeOK, NEW w \in Workers
    PROVE  /\ worker[w] \in [pc : WorkerPCs, rgs : Seq(Actions)]
           /\ worker[w].pc \in WorkerPCs /\ worker[w].rgs \in Seq(Actions)
           /\ state[w] \in Seq(Actions) /\ Reverse(state[w]) \in Seq(Actions)
           /\ Rest(w) \in Seq(Actions) /\ arrived[w] \in Seq(Actions)
<1>1. /\ worker[w] \in [pc : WorkerPCs, rgs : Seq(Actions)]
      /\ state[w] \in Seq(Actions) /\ arrived[w] \in Seq(Actions)
  BY DEF TypeOK
<1>2. worker[w].pc \in WorkerPCs /\ worker[w].rgs \in Seq(Actions)
  BY <1>1
<1>3. Reverse(state[w]) \in Seq(Actions)
  BY <1>1, ReverseFacts
<1>4. Rest(w) \in Seq(Actions)
  BY <1>2, <1>3, JoinFacts DEF Rest
<1> QED BY <1>1, <1>2, <1>3, <1>4

(* What a worker has to start arrived with it, and is there once.          *)
LEMMA RestFacts ==
    ASSUME Inv, NEW w \in Workers, worker[w].pc # "stopped"
    PROVE  /\ IsSuffix(Rest(w), arrived[w])
           /\ IsInjective(Rest(w)) /\ ToSet(Rest(w)) \subseteq ToSet(arrived[w])
<1>1. Rest(w) \in Seq(Actions) /\ arrived[w] \in Seq(Actions)
  BY WorkerTypes DEF Inv
<1>2. IsSuffix(Rest(w), arrived[w])
  BY DEF Inv, Rules, StartsInOrder, Rest
<1>3. IsInjective(arrived[w])
  BY DEF Inv, Rules, RegistrationsOnce
<1> QED BY <1>1, <1>2, <1>3, SuffixFacts

(* The current registration comes before the others, and is the current    *)
(* one of no other worker.                                                 *)
LEMMA CurrentFacts ==
    ASSUME Inv, NEW w \in Workers, worker[w].rgs # <<>>
    PROVE  /\ worker[w].pc # "stopped"
           /\ Current(w) \in Actions /\ Current(w) \in ToSet(arrived[w])
           /\ Tail(worker[w].rgs) \in Seq(Actions)
           /\ ToSet(worker[w].rgs) = {Current(w)} \cup ToSet(Tail(worker[w].rgs))
           /\ Current(w) \notin ToSet(Tail(worker[w].rgs)) \cup ToSet(state[w])
           /\ \A v \in Workers : v # w /\ worker[v].rgs # <<>> => Current(v) # Current(w)
<1> DEFINE q(v) == worker[v].rgs
           r(v) == Reverse(state[v])
<1>1. \A v \in Workers : q(v) # <<>> => worker[v].pc # "stopped"
  BY DEF Inv, Rules, RegistrationsOnce, Serving
<1>2. \A v \in Workers : /\ q(v) \in Seq(Actions) /\ r(v) \in Seq(Actions)
                          /\ state[v] \in Seq(Actions)
  BY WorkerTypes DEF Inv
<1>3. ASSUME NEW v \in Workers, q(v) # <<>>
      PROVE  /\ IsInjective(q(v)) /\ IsInjective(r(v)) /\ ToSet(q(v)) \cap ToSet(r(v)) = {}
             /\ ToSet(q(v)) \subseteq ToSet(arrived[v])
  <2>1. IsInjective(Rest(v)) /\ ToSet(Rest(v)) \subseteq ToSet(arrived[v])
    BY <1>1, <1>3, RestFacts
  <2>2. Rest(v) = q(v) \o r(v) /\ q(v) \in Seq(Actions) /\ r(v) \in Seq(Actions)
    BY <1>2 DEF Rest
  <2> HIDE DEF q, r
  <2>3. /\ ToSet(Rest(v)) = ToSet(q(v)) \cup ToSet(r(v))
        /\ IsInjective(Rest(v)) => /\ IsInjective(q(v)) /\ IsInjective(r(v))
                                   /\ ToSet(q(v)) \cap ToSet(r(v)) = {}
    BY <2>2, JoinFacts
  <2> QED BY <2>1, <2>3
<1>4. ASSUME NEW v \in Workers, q(v) # <<>>
      PROVE  /\ Current(v) \in Actions /\ Tail(q(v)) \in Seq(Actions)
             /\ ToSet(q(v)) = {Current(v)} \cup ToSet(Tail(q(v)))
             /\ Current(v) \notin ToSet(Tail(q(v)))
  <2> DEFINE z == q(v)
  <2>1. z \in Seq(Actions) /\ z # <<>> /\ IsInjective(z)
    BY <1>2, <1>3, <1>4
  <2>2. Current(v) = Head(z)
    BY DEF Current
  <2> HIDE DEF z
  <2>3. /\ Head(z) \in Actions /\ Tail(z) \in Seq(Actions)
        /\ ToSet(z) = {Head(z)} \cup ToSet(Tail(z)) /\ Head(z) \notin ToSet(Tail(z))
    BY <2>1, TailFacts, HeadTailProperties
  <2> QED BY <2>2, <2>3 DEF z
<1>5. ToSet(r(w)) = ToSet(state[w])
  BY <1>2, ReverseSet
<1>6. \A v \in Workers : v # w => ToSet(arrived[v]) \cap ToSet(arrived[w]) = {}
  BY DEF Inv, Rules, RegistrationsOnce
<1>7. \A v \in Workers : v # w /\ q(v) # <<>> => Current(v) # Current(w)
  BY <1>3, <1>4, <1>6
<1> QED BY <1>1, <1>3, <1>4, <1>5, <1>7

LEMMA WaitingFacts ==
    ASSUME Inv, NEW w \in Workers, worker[w].pc # "stopped"
    PROVE  Waiting(w) \subseteq ToSet(arrived[w])
<1> DEFINE q == worker[w].rgs
           r == Reverse(state[w])
<1>1. q \in Seq(Actions) /\ r \in Seq(Actions) /\ ToSet(r) = ToSet(state[w])
  BY WorkerTypes, ReverseSet DEF Inv
<1>2. ToSet(Rest(w)) = ToSet(q) \cup ToSet(state[w])
  <2>1. Rest(w) = q \o r
    BY DEF Rest
  <2> HIDE DEF q, r
  <2> QED BY <1>1, <2>1, JoinFacts
<1>3. Waiting(w) \subseteq ToSet(q) \cup ToSet(state[w])
  <2>1. CASE Serving(w)
    <3>1. q # <<>>
      BY <2>1 DEF Inv, Rules, RegistrationsOnce
    <3> QED BY <2>1, <3>1, CurrentFacts DEF Waiting
  <2>2. CASE ~Serving(w)
    BY <2>2 DEF Waiting
  <2> QED BY <2>1, <2>2
<1> QED BY <1>2, <1>3, RestFacts

-----------------------------------------------------------------------------
(* Submitting: a registration that has not arrived is put with a worker.   *)
LEMMA EnqueueLists ==
    ASSUME Inv, NEW a \in Actions, NEW w \in Workers, ~Submitted(a), Enqueue(a, w)
    PROVE  /\ state' \in [Workers -> Seq(Actions)] /\ arrived' \in [Workers -> Seq(Actions)]
           /\ \A v \in Workers : /\ worker'[v].rgs = worker[v].rgs
                                 /\ worker'[v].pc \in {worker[v].pc, "reset"}
                                 /\ worker'[v].pc # worker[v].pc => worker[v].pc = "parked"
                                 /\ v # w => arrived'[v] = arrived[v] /\ Rest(v)' = Rest(v)
                                              /\ ToSet(state'[v]) = ToSet(state[v])
           /\ ToSet(arrived'[w]) = ToSet(arrived[w]) \cup {a} /\ IsInjective(arrived'[w])
           /\ arrived'[w] = Append(arrived[w], a) /\ Rest(w)' = Append(Rest(w), a)
           /\ ToSet(state'[w]) = ToSet(state[w]) \cup {a}
<1>1. /\ state \in [Workers -> Seq(Actions)] /\ arrived \in [Workers -> Seq(Actions)]
      /\ worker \in [Workers -> [pc : WorkerPCs, rgs : Seq(Actions)]]
      /\ worker[w].rgs \in Seq(Actions) /\ Reverse(state[w]) \in Seq(Actions)
      /\ state[w] \in Seq(Actions) /\ arrived[w] \in Seq(Actions)
  BY WorkerTypes DEF Inv, TypeOK
<1>2. /\ arrived' = [arrived EXCEPT ![w] = Append(@, a)]
      /\ state' = [state EXCEPT ![w] = <<a>> \o @]
      /\ worker' = IF latch[w] = "callback" /\ worker[w].pc = "parked"
                   THEN [worker EXCEPT ![w].pc = "reset"] ELSE worker
  BY DEF Enqueue
<1>3. /\ Append(arrived[w], a) \in Seq(Actions)
      /\ ToSet(Append(arrived[w], a)) = ToSet(arrived[w]) \cup {a}
      /\ IsInjective(Append(arrived[w], a))
  BY <1>1, AppendFacts DEF Submitted, Inv, Rules, RegistrationsOnce
<1>4. /\ <<a>> \o state[w] \in Seq(Actions)
      /\ ToSet(<<a>> \o state[w]) = ToSet(state[w]) \cup {a}
      /\ Reverse(<<a>> \o state[w]) = Append(Reverse(state[w]), a)
  <2> DEFINE u == <<a>> \o state[w]
  <2>1. <<a>> \in Seq(Actions) /\ ToSet(<<a>>) = {a}
    BY DEF ToSet
  <2>2. u \in Seq(Actions) /\ ToSet(u) = {a} \cup ToSet(state[w])
    BY <1>1, <2>1, JoinFacts
  <2>3. Reverse(u) = Append(Reverse(state[w]), a)
    BY <1>1, ReverseCons
  <2> QED BY <2>2, <2>3
<1>5. \A v \in Workers : /\ worker'[v].rgs = worker[v].rgs
                         /\ worker'[v].pc \in {worker[v].pc, "reset"}
                         /\ worker'[v].pc # worker[v].pc => worker[v].pc = "parked"
  BY <1>1, <1>2
<1>6. state'[w] = <<a>> \o state[w] /\ arrived'[w] = Append(arrived[w], a)
  BY <1>1, <1>2
<1>7. ASSUME NEW v \in Workers, v # w
      PROVE  state'[v] = state[v] /\ arrived'[v] = arrived[v] /\ Rest(v)' = Rest(v)
  <2>1. state'[v] = state[v] /\ arrived'[v] = arrived[v]
    BY <1>1, <1>2, <1>7
  <2> QED BY <1>5, <2>1 DEF Rest
<1>8. Rest(w)' = Append(Rest(w), a)
  <2> DEFINE q == worker[w].rgs
             r == Reverse(state[w])
  <2>1. Rest(w)' = q \o Append(r, a) /\ Rest(w) = q \o r
    BY <1>4, <1>5, <1>6 DEF Rest
  <2>2. q \in Seq(Actions) /\ r \in Seq(Actions)
    BY <1>1
  <2> HIDE DEF q, r
  <2>3. q \o Append(r, a) = Append(q \o r, a)
    BY <2>2, JoinAppend
  <2> QED BY <2>1, <2>3
<1>9. state' \in [Workers -> Seq(Actions)] /\ arrived' \in [Workers -> Seq(Actions)]
  <2>1. <<a>> \o state[w] \in Seq(Actions) /\ Append(arrived[w], a) \in Seq(Actions)
    BY <1>3, <1>4
  <2> DEFINE x == <<a>> \o state[w]
             y == Append(arrived[w], a)
  <2>2. state' = [state EXCEPT ![w] = x] /\ arrived' = [arrived EXCEPT ![w] = y]
    BY <1>2
  <2> HIDE DEF x, y
  <2> QED BY <1>1, <2>1, <2>2 DEF x, y
<1> QED BY <1>3, <1>4, <1>5, <1>6, <1>7, <1>8, <1>9

LEMMA EnqueueRules ==
    ASSUME Inv, NEW a \in Actions, NEW w \in Workers, ~Submitted(a), Enqueue(a, w),
           UNCHANGED <<shutdown, supervised>>
    PROVE  Rules'
<1>1. /\ \A v \in Workers : /\ worker'[v].rgs = worker[v].rgs
                            /\ worker'[v].pc \in {worker[v].pc, "reset"}
                            /\ worker'[v].pc # worker[v].pc => worker[v].pc = "parked"
                            /\ v # w => arrived'[v] = arrived[v] /\ Rest(v)' = Rest(v)
                                         /\ ToSet(state'[v]) = ToSet(state[v])
      /\ ToSet(arrived'[w]) = ToSet(arrived[w]) \cup {a} /\ IsInjective(arrived'[w])
      /\ arrived'[w] = Append(arrived[w], a) /\ Rest(w)' = Append(Rest(w), a)
      /\ ToSet(state'[w]) = ToSet(state[w]) \cup {a}
  BY EnqueueLists
<1>2. \A v \in Workers : /\ Serving(v)' <=> Serving(v)
                         /\ Current(v)' = Current(v)
                         /\ worker'[v].pc = "stopped" <=> worker[v].pc = "stopped"
                         /\ worker'[v].pc \in {"insert", "check"} => worker'[v].pc = worker[v].pc
                         /\ worker[v].pc \in {"insert", "check"} => worker'[v].pc = worker[v].pc
                         /\ worker[v].pc \in {"took", "start"} <=> worker'[v].pc \in {"took", "start"}
  BY <1>1 DEF Serving, Current
<1>3. UNCHANGED <<shutdown, tokens, fiber, done, asked, snapshot>>
  BY DEF supervised
<1>4. StartsInOrder'
  <2>1. ASSUME NEW v \in Workers, worker'[v].pc # "stopped"
        PROVE  IsSuffix(Rest(v)', arrived'[v])
    <3>1. /\ Rest(v) \in Seq(Actions) /\ arrived[v] \in Seq(Actions)
          /\ IsSuffix(Rest(v), arrived[v])
      BY <1>2, <2>1, WorkerTypes, RestFacts DEF Inv
    <3>2. CASE v = w
      <4>1. IsSuffix(Append(Rest(v), a), Append(arrived[v], a))
        BY <3>1, SuffixAppend
      <4> QED BY <1>1, <3>2, <4>1
    <3>3. CASE v # w
      BY <1>1, <3>1, <3>3
    <3> QED BY <3>2, <3>3
  <2> QED BY <2>1 DEF StartsInOrder, Rest
<1>5. RegistrationsOnce'
  <2>1. ~\E v \in Workers : a \in ToSet(arrived[v])
    BY DEF Submitted
  <2>2. \A v \in Workers : worker'[v].rgs # <<>> <=>
                              Serving(v)' \/ worker'[v].pc \in {"took", "start"}
    BY <1>1, <1>2 DEF Inv, Rules, RegistrationsOnce
  <2>3. \A v \in Workers : IsInjective(arrived'[v])
    BY <1>1 DEF Inv, Rules, RegistrationsOnce
  <2>4. \A u, v \in Workers : u # v => ToSet(arrived'[u]) \cap ToSet(arrived'[v]) = {}
    <3>1. \A u, v \in Workers : u # v => ToSet(arrived[u]) \cap ToSet(arrived[v]) = {}
      BY DEF Inv, Rules, RegistrationsOnce
    <3>2. \A v \in Workers : ToSet(arrived'[v]) = IF v = w THEN ToSet(arrived[v]) \cup {a}
                                                           ELSE ToSet(arrived[v])
      BY <1>1
    <3> QED BY <2>1, <3>1, <3>2
  <2> QED BY <2>2, <2>3, <2>4 DEF RegistrationsOnce
<1>6. FibersInTurn'
  <2>1. \A b \in Actions : ~Submitted(b)' => ~Submitted(b)
    BY <1>1 DEF Submitted
  <2>2. \A v \in Workers : Waiting(v)' \subseteq Waiting(v) \cup {a}
    BY <1>1, <1>2 DEF Waiting
  <2>3. fiber[a] = "none"
    BY DEF Inv, Rules, FibersInTurn
  <2>4. \A v \in Workers : worker'[v].pc # "stopped" => \A b \in Waiting(v)' : fiber'[b] = "none"
    BY <1>2, <1>3, <2>2, <2>3 DEF Inv, Rules, FibersInTurn
  <2>5. \A v \in Workers : Serving(v)' => fiber'[Current(v)'] # "none"
    BY <1>2, <1>3 DEF Inv, Rules, FibersInTurn
  <2>6. \A b \in Actions : ~Submitted(b)' => fiber'[b] = "none"
    BY <1>3, <2>1 DEF Inv, Rules, FibersInTurn
  <2> QED BY <1>3, <2>4, <2>5, <2>6 DEF Inv, Rules, FibersInTurn
<1>7. TokensInTurn'
  <2>1. \A b \in Actions : Recording(b)' <=> Recording(b)
    BY <1>1, <1>2 DEF Recording
  <2> QED BY <1>1, <1>2, <1>3, <2>1 DEF Inv, Rules, TokensInTurn
<1>8. ReleaseInTurn'
  BY <1>2, <1>3 DEF Inv, Rules, ReleaseInTurn, NothingOutlives
<1> QED BY <1>4, <1>5, <1>6, <1>7, <1>8 DEF Rules

-----------------------------------------------------------------------------
(* The worker goes on without a change to what it has to start.            *)
LEMMA MoveRules ==
    ASSUME Inv, NEW w \in Workers, NEW pc, NEW rgs \in Seq(Actions),
           worker' = [worker EXCEPT ![w] = [pc |-> pc, rgs |-> rgs]],
           \A v \in Workers : v # w => state'[v] = state[v],
           ~Serving(w), worker[w].pc # "stopped",
           pc \in {"reset", "take", "park", "parked", "took", "start"},
           rgs # <<>> <=> pc \in {"took", "start"},
           Rest(w)' = Rest(w),
           ToSet(rgs) \cup ToSet(state'[w]) = ToSet(worker[w].rgs) \cup ToSet(state[w]),
           UNCHANGED <<arrived, shutdown, supervised>>
    PROVE  Rules'
<1>1. worker'[w] = [pc |-> pc, rgs |-> rgs] /\ \A v \in Workers : v # w => worker'[v] = worker[v]
  BY DEF Inv, TypeOK
<1>2. \A v \in Workers : Rest(v)' = Rest(v) /\ (Serving(v)' <=> Serving(v))
  <2>1. Serving(w)' <=> Serving(w)
    BY <1>1 DEF Serving
  <2> QED BY <1>1, <2>1 DEF Rest, Serving
<1>3. UNCHANGED <<arrived, shutdown, tokens, fiber, done, asked, snapshot>>
  BY DEF supervised
<1>4. \A v \in Workers : /\ worker'[v].pc = "stopped" <=> worker[v].pc = "stopped"
                         /\ Serving(v) => worker'[v] = worker[v] /\ Current(v)' = Current(v)
  BY <1>1 DEF Current
<1>5. StartsInOrder'
  <2>1. \A v \in Workers : worker'[v].pc # "stopped" => IsSuffix(Rest(v)', arrived'[v])
    BY <1>2, <1>3, <1>4, RestFacts
  <2> QED BY <2>1 DEF StartsInOrder, Rest
<1>6. RegistrationsOnce'
  <2>1. \A v \in Workers : worker'[v].rgs # <<>> <=>
                              Serving(v)' \/ worker'[v].pc \in {"took", "start"}
    BY <1>1, <1>2 DEF Inv, Rules, RegistrationsOnce, Serving
  <2> QED BY <1>3, <2>1 DEF Inv, Rules, RegistrationsOnce
<1>7. FibersInTurn'
  <2>1. \A v \in Workers : Waiting(v)' = Waiting(v)
    <3>1. Waiting(w)' = Waiting(w)
      BY <1>1, <1>2 DEF Waiting
    <3> QED BY <1>1, <1>2, <3>1 DEF Waiting
  <2>2. \A b \in Actions : Submitted(b)' <=> Submitted(b)
    BY <1>3 DEF Submitted
  <2> QED BY <1>2, <1>3, <1>4, <2>1, <2>2 DEF Inv, Rules, FibersInTurn
<1>8. TokensInTurn'
  <2>1. \A v \in Workers : worker'[v].pc \in {"insert", "check"} => Serving(v)
    BY <1>2 DEF Serving
  <2>2. \A b \in Actions : Recording(b)' <=> Recording(b)
    BY <1>4, <2>1 DEF Recording, Serving
  <2> QED BY <1>3, <1>4, <2>1, <2>2 DEF Inv, Rules, TokensInTurn
<1>9. ReleaseInTurn'
  BY <1>3, <1>4 DEF Inv, Rules, ReleaseInTurn, NothingOutlives
<1> QED BY <1>5, <1>6, <1>7, <1>8, <1>9 DEF Rules

(* The worker is through with the current registration.                    *)
LEMMA AdvanceRules ==
    ASSUME Inv, NEW w \in Workers, worker[w].pc \in {"start", "prepare"}, Advance(w),
           UNCHANGED <<state, arrived, shutdown, supervised>>
    PROVE  Rules' /\ worker' \in [Workers -> [pc : WorkerPCs, rgs : Seq(Actions)]]
<1> DEFINE q == worker[w].rgs
           p == IF Len(q) = 1 THEN "reset" ELSE "start"
<1>1. /\ q # <<>> /\ worker[w].pc # "stopped" /\ worker[w].pc \notin {"insert", "check"}
      /\ q \in Seq(Actions) /\ Tail(q) \in Seq(Actions) /\ Reverse(state[w]) \in Seq(Actions)
  BY WorkerTypes, CurrentFacts DEF Inv, Rules, RegistrationsOnce, Serving
<1>2. Tail(q) # <<>> <=> p = "start"
  <2>1. Len(q) \in Nat \ {0} /\ Len(Tail(q)) = Len(q) - 1
    BY <1>1, EmptySeq, HeadTailProperties, LenProperties
  <2>2. Tail(q) = <<>> <=> Len(Tail(q)) = 0
    BY <1>1, EmptySeq
  <2> HIDE DEF q
  <2> QED BY <2>1, <2>2
<1>3. /\ worker' = [worker EXCEPT ![w] = [pc |-> p, rgs |-> Tail(q)]]
      /\ p \in {"reset", "start"}
  BY DEF Advance, Inv, TypeOK
<1>4. worker \in [Workers -> [pc : WorkerPCs, rgs : Seq(Actions)]]
  BY DEF Inv, TypeOK
<1>5. /\ worker'[w] = [pc |-> p, rgs |-> Tail(q)] /\ worker'[w].pc = p /\ worker'[w].rgs = Tail(q)
      /\ \A v \in Workers : v # w => worker'[v] = worker[v]
  BY <1>3, <1>4
<1>6. worker' \in [Workers -> [pc : WorkerPCs, rgs : Seq(Actions)]]
  <2>1. [pc |-> p, rgs |-> Tail(q)] \in [pc : WorkerPCs, rgs : Seq(Actions)]
    BY <1>1, <1>3 DEF WorkerPCs
  <2> QED BY <1>3, <1>4, <2>1
<1>7. UNCHANGED <<state, arrived, shutdown, tokens, fiber, done, asked, snapshot>>
  BY DEF supervised
<1>8. Waiting(w)' \subseteq Waiting(w) /\ ~Serving(w)'
  <2>1. ~Serving(w)' /\ Waiting(w)' = ToSet(Tail(q)) \cup ToSet(state[w])
    BY <1>3, <1>5, <1>7 DEF Waiting, Serving
  <2>2. ToSet(Tail(q)) \subseteq ToSet(q)
    BY <1>1, CurrentFacts
  <2> QED BY <2>1, <2>2 DEF Waiting
<1>9. Rest(w)' = Tail(Rest(w)) /\ Rest(w) # <<>>
  <2> DEFINE r == Reverse(state[w])
  <2>1. Rest(w) = q \o r /\ Rest(w)' = Tail(q) \o r
    BY <1>5, <1>7 DEF Rest
  <2>2. q \in Seq(Actions) /\ r \in Seq(Actions) /\ q # <<>>
    BY <1>1
  <2> HIDE DEF q, r
  <2> QED BY <2>1, <2>2, JoinTail
<1> HIDE DEF p, q
<1>10. \A v \in Workers : v # w => /\ Rest(v)' = Rest(v) /\ (Serving(v)' <=> Serving(v))
                                   /\ Waiting(v)' = Waiting(v) /\ Current(v)' = Current(v)
  BY <1>5, <1>7 DEF Rest, Serving, Waiting, Current
<1>11. worker'[w].pc \notin {"stopped", "insert", "check", "prepare"}
  BY <1>3, <1>5
<1>12. StartsInOrder'
  <2>1. ASSUME NEW v \in Workers, worker'[v].pc # "stopped"
        PROVE  IsSuffix(Rest(v)', arrived'[v])
    <3>1. CASE v = w
      <4>1. IsSuffix(Rest(w), arrived[w]) /\ Rest(w) \in Seq(Actions) /\ arrived[w] \in Seq(Actions)
        BY <1>1, RestFacts, WorkerTypes DEF Inv
      <4> QED BY <1>7, <1>9, <3>1, <4>1, SuffixTail
    <3>2. CASE v # w
      BY <1>5, <1>7, <1>10, <2>1, <3>2, RestFacts
    <3> QED BY <3>1, <3>2
  <2> QED BY <2>1 DEF StartsInOrder, Rest
<1>13. RegistrationsOnce'
  <2>1. \A v \in Workers : worker'[v].rgs # <<>> <=>
                              Serving(v)' \/ worker'[v].pc \in {"took", "start"}
    BY <1>2, <1>3, <1>5, <1>8, <1>10 DEF Inv, Rules, RegistrationsOnce
  <2> QED BY <1>7, <2>1 DEF Inv, Rules, RegistrationsOnce
<1>14. FibersInTurn'
  <2>1. \A v \in Workers : worker'[v].pc # "stopped" => \A b \in Waiting(v)' : fiber'[b] = "none"
    BY <1>1, <1>5, <1>7, <1>8, <1>10 DEF Inv, Rules, FibersInTurn
  <2>2. \A v \in Workers : Serving(v)' => fiber'[Current(v)'] # "none"
    BY <1>7, <1>8, <1>10 DEF Inv, Rules, FibersInTurn
  <2>3. \A b \in Actions : Submitted(b)' <=> Submitted(b)
    BY <1>7 DEF Submitted
  <2> QED BY <1>7, <2>1, <2>2, <2>3 DEF Inv, Rules, FibersInTurn
<1>15. TokensInTurn'
  <2>1. \A b \in Actions : Recording(b)' <=> Recording(b)
    BY <1>1, <1>5, <1>10, <1>11 DEF Recording
  <2>2. \A v \in Workers : worker'[v].pc \in {"insert", "check"} => worker'[v] = worker[v] /\ Current(v)' = Current(v)
    BY <1>5, <1>10, <1>11
  <2> QED BY <1>7, <2>1, <2>2 DEF Inv, Rules, TokensInTurn
<1>16. ReleaseInTurn'
  <2>1. shutdown \notin {"alive", "supervisor", "cancels", "released"}
    BY <1>1 DEF Inv, Rules, ReleaseInTurn
  <2> QED BY <1>7, <2>1 DEF ReleaseInTurn, NothingOutlives
<1> QED BY <1>6, <1>12, <1>13, <1>14, <1>15, <1>16 DEF Rules

-----------------------------------------------------------------------------
(* supervise(): the three steps keep the lists.                            *)
LEMMA ServeLists ==
    ASSUME Inv, NEW w \in Workers, worker[w].pc \in {"start", "insert", "check"},
           NEW p \in {"insert", "check", "prepare"}, Goto(w, p),
           UNCHANGED <<state, arrived, shutdown>>
    PROVE  /\ StartsInOrder' /\ RegistrationsOnce'
           /\ worker' \in [Workers -> [pc : WorkerPCs, rgs : Seq(Actions)]]
           /\ shutdown' \notin {"alive", "supervisor", "cancels", "released"}
           /\ \A v \in Workers : /\ worker'[v].rgs = worker[v].rgs /\ Current(v)' = Current(v)
                                 /\ worker'[v].pc = IF v = w THEN p ELSE worker[v].pc
                                 /\ Waiting(v)' \subseteq Waiting(v)
           /\ Current(w) \notin Waiting(w)' /\ worker[w].rgs # <<>>
           /\ \A v \in Workers : v # w /\ worker[v].pc # "stopped" =>
                Current(w) \notin Waiting(v)'
           /\ \A b \in Actions : Submitted(b)' <=> Submitted(b)
<1>1. worker[w].rgs # <<>> /\ worker[w].pc # "stopped"
  BY DEF Inv, Rules, RegistrationsOnce, Serving
<1>2. worker \in [Workers -> [pc : WorkerPCs, rgs : Seq(Actions)]]
  BY DEF Inv, TypeOK
<1>3. /\ \A v \in Workers : /\ worker'[v].rgs = worker[v].rgs /\ Current(v)' = Current(v)
                            /\ worker'[v].pc = IF v = w THEN p ELSE worker[v].pc
      /\ worker' \in [Workers -> [pc : WorkerPCs, rgs : Seq(Actions)]]
  BY <1>2 DEF Goto, Current, WorkerPCs
<1>4. \A v \in Workers : Rest(v)' = Rest(v)
  BY <1>3 DEF Rest
<1>5. StartsInOrder'
  <2>1. \A v \in Workers : worker'[v].pc # "stopped" => IsSuffix(Rest(v)', arrived'[v])
    BY <1>1, <1>3, <1>4, RestFacts
  <2> QED BY <2>1 DEF StartsInOrder, Rest
<1>6. RegistrationsOnce'
  <2>1. \A v \in Workers : worker'[v].rgs # <<>> <=>
                              Serving(v)' \/ worker'[v].pc \in {"took", "start"}
    BY <1>1, <1>3 DEF Inv, Rules, RegistrationsOnce, Serving
  <2> QED BY <2>1 DEF Inv, Rules, RegistrationsOnce
<1>7. shutdown' \notin {"alive", "supervisor", "cancels", "released"}
  BY <1>1 DEF Inv, Rules, ReleaseInTurn
<1>8. /\ ToSet(worker[w].rgs) = {Current(w)} \cup ToSet(Tail(worker[w].rgs))
      /\ Current(w) \notin ToSet(Tail(worker[w].rgs)) \cup ToSet(state[w])
      /\ Current(w) \in ToSet(arrived[w])
  BY <1>1, CurrentFacts
<1>9. Waiting(w)' \subseteq Waiting(w) /\ Current(w) \notin Waiting(w)'
  <2>1. Waiting(w)' = ToSet(Tail(worker[w].rgs)) \cup ToSet(state[w])
    BY <1>3 DEF Waiting, Serving
  <2> QED BY <1>8, <2>1 DEF Waiting
<1>10. ASSUME NEW v \in Workers, v # w PROVE Waiting(v)' = Waiting(v)
  BY <1>3, <1>10 DEF Waiting, Serving
<1>11. \A b \in Actions : Submitted(b)' <=> Submitted(b)
  BY DEF Submitted
<1>12. ASSUME NEW v \in Workers, v # w, worker[v].pc # "stopped"
       PROVE  Current(w) \notin Waiting(v)'
  <2>1. Waiting(v) \subseteq ToSet(arrived[v])
    BY <1>12, WaitingFacts
  <2>2. ToSet(arrived[v]) \cap ToSet(arrived[w]) = {}
    BY <1>12 DEF Inv, Rules, RegistrationsOnce
  <2> QED BY <1>8, <1>10, <1>12, <2>1, <2>2
<1>13. \A v \in Workers : Waiting(v)' \subseteq Waiting(v)
  BY <1>9, <1>10
<1> QED BY <1>1, <1>3, <1>5, <1>6, <1>7, <1>9, <1>11, <1>12, <1>13

LEMMA ForkRules ==
    ASSUME Inv, NEW w \in Workers, worker[w].pc = "start",
           Goto(w, "insert"), S!Fork(Current(w)), UNCHANGED <<state, arrived, shutdown>>
    PROVE  Rules'
<1> DEFINE c == Current(w)
<1>1. /\ StartsInOrder' /\ RegistrationsOnce'
      /\ shutdown' \notin {"alive", "supervisor", "cancels", "released"}
      /\ \A v \in Workers : /\ worker'[v].rgs = worker[v].rgs /\ Current(v)' = Current(v)
                            /\ worker'[v].pc = IF v = w THEN "insert" ELSE worker[v].pc
                            /\ Waiting(v)' \subseteq Waiting(v)
      /\ c \notin Waiting(w)' /\ worker[w].rgs # <<>>
      /\ \A v \in Workers : v # w /\ worker[v].pc # "stopped" => c \notin Waiting(v)'
      /\ \A b \in Actions : Submitted(b)' <=> Submitted(b)
  BY ServeLists
<1>2. /\ fiber' = [fiber EXCEPT ![c] = "scheduled"]
      /\ UNCHANGED <<tokens, done, asked, snapshot>>
      /\ fiber \in [Actions -> S!Lives]
  BY DEF S!Fork, S!Goto, Inv, TypeOK, S!TypeOK
<1>3. /\ c \in Actions /\ Submitted(c)
      /\ \A v \in Workers : v # w /\ worker[v].rgs # <<>> => Current(v) # c
  BY <1>1, CurrentFacts DEF Submitted
<1>4. fiber[c] = "none"
  <2>1. ToSet(worker[w].rgs) = {c} \cup ToSet(Tail(worker[w].rgs))
    BY <1>1, CurrentFacts
  <2>2. c \in Waiting(w)
    BY <2>1 DEF Waiting, Serving
  <2> QED BY <2>2 DEF Inv, Rules, FibersInTurn
<1> HIDE DEF c
<1>5. fiber'[c] = "scheduled" /\ \A b \in Actions : b # c => fiber'[b] = fiber[b]
  BY <1>2, <1>3
<1>6. \A v \in Workers : worker'[v].rgs # <<>> /\ v # w => Current(v)' # c
  BY <1>1, <1>3
<1>7. \A v \in Workers : Serving(v) => worker[v].rgs # <<>> /\ Current(v) \in Actions
  <2>1. \A v \in Workers : Serving(v) => worker[v].rgs # <<>>
    BY DEF Inv, Rules, RegistrationsOnce
  <2> QED BY <2>1, CurrentFacts
<1>8. FibersInTurn'
  <2>1. \A b \in Actions : ~Submitted(b)' => fiber'[b] = "none"
    BY <1>1, <1>3, <1>5 DEF Inv, Rules, FibersInTurn
  <2>2. ASSUME NEW v \in Workers, worker'[v].pc # "stopped", NEW b \in Waiting(v)'
        PROVE  fiber'[b] = "none"
    <3>1. fiber[b] = "none" /\ b # c /\ b \in Waiting(v) /\ worker[v].pc # "stopped"
      BY <1>1, <2>2 DEF Inv, Rules, FibersInTurn
    <3>2. b \in ToSet(arrived[v])
      BY <3>1, WaitingFacts
    <3>3. b \in Actions
      BY <3>2, WorkerTypes, LenProperties DEF ToSet, Inv
    <3> QED BY <1>5, <3>1, <3>3
  <2>3. ASSUME NEW v \in Workers, Serving(v)' PROVE fiber'[Current(v)'] # "none"
    <3>1. CASE v = w
      BY <1>1, <1>5, <3>1 DEF c
    <3>2. CASE v # w
      <4>1. Serving(v) /\ fiber[Current(v)] # "none" /\ Current(v)' = Current(v)
        BY <1>1, <2>3, <3>2 DEF Serving, Inv, Rules, FibersInTurn
      <4> QED BY <1>3, <1>5, <1>7, <3>2, <4>1
    <3> QED BY <3>1, <3>2
  <2>4. \A b \in Actions : /\ b \in done' => fiber'[b] \in {"cleaning", "ended"}
                           /\ fiber'[b] = "cleaning" => b \in done'
    BY <1>2, <1>4, <1>5 DEF Inv, Rules, FibersInTurn
  <2> QED BY <2>1, <2>2, <2>3, <2>4 DEF FibersInTurn
<1>9. TokensInTurn'
  <2>1. \A b \in Actions : b = c => Recording(b)'
    BY <1>1 DEF Recording, c
  <2>2. \A b \in Actions : b # c => (Recording(b)' <=> Recording(b))
    BY <1>1 DEF Recording, c
  <2>3. c \notin tokens
    <3>1. ~Recording(c)
      BY <1>3 DEF Recording, c
    <3> QED BY <1>3, <1>4, <3>1 DEF Inv, Rules, TokensInTurn
  <2>4. \A b \in Actions : ~Recording(b)' =>
          /\ b \in tokens' => fiber'[b] # "none"
          /\ b \notin done' /\ fiber'[b] # "none" => b \in tokens'
          /\ b \in done' /\ fiber'[b] = "ended" => b \notin tokens'
    BY <1>2, <1>5, <2>1, <2>2 DEF Inv, Rules, TokensInTurn
  <2>5. ASSUME NEW v \in Workers
        PROVE  /\ worker'[v].pc = "insert" => Current(v)' \notin tokens'
               /\ worker'[v].pc = "check" /\ Current(v)' \notin done' => Current(v)' \in tokens'
    <3>1. CASE v = w
      BY <1>1, <1>2, <2>3, <3>1 DEF c
    <3>2. CASE v # w
      BY <1>1, <1>2, <3>2 DEF Inv, Rules, TokensInTurn
    <3> QED BY <3>1, <3>2
  <2> QED BY <2>4, <2>5 DEF TokensInTurn
<1>10. ReleaseInTurn'
  BY <1>1 DEF ReleaseInTurn, NothingOutlives
<1> QED BY <1>1, <1>8, <1>9, <1>10 DEF Rules

LEMMA ServeFibers ==
    ASSUME Inv, NEW w \in Workers, worker[w].pc \in {"insert", "check"},
           NEW p \in {"insert", "check", "prepare"}, Goto(w, p),
           UNCHANGED <<state, arrived, shutdown, fiber, done>>
    PROVE  FibersInTurn' /\ ReleaseInTurn'
<1>1. /\ shutdown' \notin {"alive", "supervisor", "cancels", "released"}
      /\ \A v \in Workers : /\ worker'[v].rgs = worker[v].rgs /\ Current(v)' = Current(v)
                            /\ worker'[v].pc = IF v = w THEN p ELSE worker[v].pc
                            /\ Waiting(v)' \subseteq Waiting(v)
      /\ \A b \in Actions : Submitted(b)' <=> Submitted(b)
  BY ServeLists
<1>2. \A v \in Workers : /\ Serving(v)' <=> Serving(v)
                         /\ worker'[v].pc = "stopped" <=> worker[v].pc = "stopped"
  BY <1>1 DEF Serving
<1>3. \A v \in Workers : worker'[v].pc # "stopped" => \A b \in Waiting(v)' : fiber'[b] = "none"
  BY <1>1, <1>2 DEF Inv, Rules, FibersInTurn
<1>4. \A v \in Workers : Serving(v)' => fiber'[Current(v)'] # "none"
  BY <1>1, <1>2 DEF Inv, Rules, FibersInTurn
<1>5. FibersInTurn'
  BY <1>1, <1>3, <1>4 DEF Inv, Rules, FibersInTurn
<1>6. ReleaseInTurn'
  BY <1>1 DEF ReleaseInTurn, NothingOutlives
<1> QED BY <1>5, <1>6

LEMMA InsertRules ==
    ASSUME Inv, NEW w \in Workers, worker[w].pc = "insert",
           Goto(w, "check"), S!Insert(Current(w)), UNCHANGED <<state, arrived, shutdown>>
    PROVE  Rules'
<1>1. /\ StartsInOrder' /\ RegistrationsOnce'
      /\ \A v \in Workers : /\ worker'[v].rgs = worker[v].rgs /\ Current(v)' = Current(v)
                            /\ worker'[v].pc = IF v = w THEN "check" ELSE worker[v].pc
      /\ worker[w].rgs # <<>>
  BY ServeLists
<1>2. tokens' = tokens \cup {Current(w)} /\ UNCHANGED <<fiber, done, asked, snapshot>>
  BY DEF S!Insert
<1>3. FibersInTurn' /\ ReleaseInTurn'
  BY <1>2, ServeFibers
<1>4. \A v \in Workers : v # w /\ worker[v].rgs # <<>> => Current(v) # Current(w)
  BY <1>1, CurrentFacts
<1>5. TokensInTurn'
  <2>1. \A b \in Actions : Recording(b)' <=> Recording(b)
    BY <1>1 DEF Recording
  <2>2. \A b \in Actions : ~Recording(b)' => b # Current(w)
    BY <1>1, <2>1 DEF Recording
  <2>3. \A b \in Actions : ~Recording(b)' =>
          /\ b \in tokens' => fiber'[b] # "none"
          /\ b \notin done' /\ fiber'[b] # "none" => b \in tokens'
          /\ b \in done' /\ fiber'[b] = "ended" => b \notin tokens'
    BY <1>2, <2>1, <2>2 DEF Inv, Rules, TokensInTurn
  <2>4. ASSUME NEW v \in Workers
        PROVE  /\ worker'[v].pc = "insert" => Current(v)' \notin tokens'
               /\ worker'[v].pc = "check" /\ Current(v)' \notin done' => Current(v)' \in tokens'
    <3>1. CASE v = w
      BY <1>1, <1>2, <3>1
    <3>2. CASE v # w
      <4>1. worker[v].pc = "insert" => worker[v].rgs # <<>>
        BY DEF Inv, Rules, RegistrationsOnce, Serving
      <4> QED BY <1>1, <1>2, <1>4, <3>2, <4>1 DEF Inv, Rules, TokensInTurn
    <3> QED BY <3>1, <3>2
  <2> QED BY <2>3, <2>4 DEF TokensInTurn
<1> QED BY <1>1, <1>3, <1>5 DEF Rules

LEMMA CheckRules ==
    ASSUME Inv, NEW w \in Workers, worker[w].pc = "check",
           Goto(w, "prepare"), S!Check(Current(w)), UNCHANGED <<state, arrived, shutdown>>
    PROVE  Rules'
<1>1. /\ StartsInOrder' /\ RegistrationsOnce'
      /\ \A v \in Workers : /\ worker'[v].rgs = worker[v].rgs /\ Current(v)' = Current(v)
                            /\ worker'[v].pc = IF v = w THEN "prepare" ELSE worker[v].pc
      /\ worker[w].rgs # <<>>
  BY ServeLists
<1>2. /\ tokens' = IF Current(w) \in done THEN tokens \ {Current(w)} ELSE tokens
      /\ UNCHANGED <<fiber, done, asked, snapshot>>
  BY DEF S!Check
<1>3. FibersInTurn' /\ ReleaseInTurn'
  BY <1>2, ServeFibers
<1>4. \A v \in Workers : v # w /\ worker[v].rgs # <<>> => Current(v) # Current(w)
  BY <1>1, CurrentFacts
<1>5. fiber[Current(w)] # "none" /\ (Current(w) \notin done => Current(w) \in tokens)
  BY DEF Inv, Rules, FibersInTurn, TokensInTurn, Serving
<1>6. TokensInTurn'
  <2>1. \A b \in Actions : b # Current(w) => (Recording(b)' <=> Recording(b))
    BY <1>1 DEF Recording
  <2>2. ASSUME NEW b \in Actions, ~Recording(b)'
        PROVE  /\ b \in tokens' => fiber'[b] # "none"
               /\ b \notin done' /\ fiber'[b] # "none" => b \in tokens'
               /\ b \in done' /\ fiber'[b] = "ended" => b \notin tokens'
    <3>1. CASE b = Current(w)
      BY <1>2, <1>5, <3>1
    <3>2. CASE b # Current(w)
      BY <1>2, <2>1, <2>2, <3>2 DEF Inv, Rules, TokensInTurn
    <3> QED BY <3>1, <3>2
  <2>3. ASSUME NEW v \in Workers
        PROVE  /\ worker'[v].pc = "insert" => Current(v)' \notin tokens'
               /\ worker'[v].pc = "check" /\ Current(v)' \notin done' => Current(v)' \in tokens'
    <3>1. CASE v = w
      BY <1>1, <3>1
    <3>2. CASE v # w
      <4>1. worker[v].pc = "check" => worker[v].rgs # <<>>
        BY DEF Inv, Rules, RegistrationsOnce, Serving
      <4> QED BY <1>1, <1>2, <1>4, <3>2, <4>1 DEF Inv, Rules, TokensInTurn
    <3> QED BY <3>1, <3>2
  <2> QED BY <2>2, <2>3 DEF TokensInTurn
<1> QED BY <1>1, <1>3, <1>6 DEF Rules

-----------------------------------------------------------------------------
(* A supervised fiber goes on: it is none of those that have to wait, and  *)
(* it is in its finalizer exactly when it leaves its token behind.         *)
LEMMA FiberRules ==
    ASSUME Inv, NEW a \in Actions, UNCHANGED <<state, arrived, worker, shutdown, snapshot>>,
           \/ S!Run(a) \/ S!Leave(a) \/ S!SetDone(a) \/ S!Cleanup(a)
    PROVE  Rules'
<1>1. /\ \A b \in Actions : b # a => fiber'[b] = fiber[b]
      /\ fiber[a] \notin {"none", "ended"} /\ fiber'[a] \notin {"none", "scheduled"}
      /\ fiber[a] = "cleaning" => fiber'[a] = "ended" /\ tokens' = tokens \ {a}
      /\ fiber[a] # "cleaning" => tokens' = tokens
      /\ fiber[a] = "finalizing" => fiber'[a] = "cleaning" /\ done' = done \cup {a}
      /\ fiber[a] # "finalizing" => fiber'[a] # "cleaning" /\ done' = done
  BY DEF S!Run, S!Leave, S!SetDone, S!Cleanup, S!Goto, Inv, TypeOK, S!TypeOK
<1>2. /\ a \in done => fiber[a] = "cleaning"
      /\ fiber[a] = "cleaning" => a \in done
  BY <1>1 DEF Inv, Rules, FibersInTurn
<1>3. \A v \in Workers : /\ Serving(v)' <=> Serving(v)
                         /\ Current(v)' = Current(v) /\ Waiting(v)' = Waiting(v)
  BY DEF Serving, Current, Waiting
<1>4. \A b \in Actions : (Recording(b)' <=> Recording(b)) /\ (Submitted(b)' <=> Submitted(b))
  BY DEF Recording, Current, Submitted
<1>5. StartsInOrder' /\ RegistrationsOnce'
  BY DEF Inv, Rules, StartsInOrder, RegistrationsOnce, Serving
<1>6. ASSUME NEW v \in Workers, Serving(v) PROVE Current(v) \in Actions
  <2>1. worker[v].rgs # <<>>
    BY <1>6 DEF Inv, Rules, RegistrationsOnce
  <2> QED BY <2>1, CurrentFacts
<1>7. FibersInTurn'
  <2>1. \A b \in Actions : ~Submitted(b)' => fiber'[b] = "none"
    BY <1>1, <1>4 DEF Inv, Rules, FibersInTurn
  <2>2. ASSUME NEW v \in Workers, worker'[v].pc # "stopped", NEW b \in Waiting(v)'
        PROVE  fiber'[b] = "none"
    <3>1. worker[v].pc # "stopped" /\ b \in Waiting(v) /\ fiber[b] = "none" /\ b # a
      BY <1>1, <1>3, <2>2 DEF Inv, Rules, FibersInTurn
    <3>2. b \in ToSet(arrived[v]) /\ arrived[v] \in Seq(Actions)
      BY <3>1, WaitingFacts, WorkerTypes DEF Inv
    <3>3. b \in Actions
      BY <3>2, LenProperties DEF ToSet
    <3> QED BY <1>1, <3>1, <3>3
  <2>3. \A v \in Workers : Serving(v)' => fiber'[Current(v)'] # "none"
    BY <1>1, <1>3, <1>6 DEF Inv, Rules, FibersInTurn
  <2>4. ASSUME NEW b \in Actions
        PROVE  /\ b \in done' => fiber'[b] \in {"cleaning", "ended"}
               /\ fiber'[b] = "cleaning" => b \in done'
    BY <1>1, <1>2 DEF Inv, Rules, FibersInTurn
  <2> QED BY <2>1, <2>2, <2>3, <2>4 DEF FibersInTurn
<1>8. TokensInTurn'
  <2>1. ASSUME NEW b \in Actions, ~Recording(b)'
        PROVE  /\ b \in tokens' => fiber'[b] # "none"
               /\ b \notin done' /\ fiber'[b] # "none" => b \in tokens'
               /\ b \in done' /\ fiber'[b] = "ended" => b \notin tokens'
    <3>1. /\ b \in tokens => fiber[b] # "none"
          /\ b \notin done /\ fiber[b] # "none" => b \in tokens
          /\ b \in done /\ fiber[b] = "ended" => b \notin tokens
      BY <1>4, <2>1 DEF Inv, Rules, TokensInTurn
    <3>2. CASE b = a
      BY <1>1, <1>2, <3>1, <3>2
    <3>3. CASE b # a
      BY <1>1, <3>1, <3>3
    <3> QED BY <3>2, <3>3
  <2>2. ASSUME NEW v \in Workers
        PROVE  /\ worker'[v].pc = "insert" => Current(v)' \notin tokens'
               /\ worker'[v].pc = "check" /\ Current(v)' \notin done' => Current(v)' \in tokens'
    BY <1>1, <1>2, <1>3 DEF Inv, Rules, TokensInTurn
  <2> QED BY <2>1, <2>2 DEF TokensInTurn
<1>9. ReleaseInTurn'
  BY <1>1 DEF Inv, Rules, ReleaseInTurn, NothingOutlives
<1> QED BY <1>5, <1>7, <1>8, <1>9 DEF Rules

-----------------------------------------------------------------------------
(* The release, and the steps that change nothing of the above.            *)
LEMMA StillRules ==
    ASSUME Inv, UNCHANGED <<state, arrived, worker, tokens, fiber, done>>, ReleaseInTurn'
    PROVE  Rules'
<1>1. /\ \A v \in Workers : /\ Serving(v)' <=> Serving(v)
                            /\ Current(v)' = Current(v) /\ Waiting(v)' = Waiting(v)
      /\ \A b \in Actions : (Recording(b)' <=> Recording(b)) /\ (Submitted(b)' <=> Submitted(b))
  BY DEF Serving, Current, Waiting, Recording, Submitted
<1>2. StartsInOrder' /\ RegistrationsOnce'
  BY <1>1 DEF Inv, Rules, StartsInOrder, RegistrationsOnce
<1>3. FibersInTurn' /\ TokensInTurn'
  BY <1>1 DEF Inv, Rules, FibersInTurn, TokensInTurn
<1> QED BY <1>2, <1>3 DEF Rules

LEMMA StopRules ==
    ASSUME Inv, NEW w \in Workers, StopWorker(w)
    PROVE  Rules'
<1>1. /\ worker' = [worker EXCEPT ![w] = [pc |-> "stopped", rgs |-> <<>>]]
      /\ UNCHANGED <<state, arrived, shutdown, tokens, fiber, done, asked, snapshot>>
      /\ ~Serving(w) /\ shutdown = "workers"
      /\ worker \in [Workers -> [pc : WorkerPCs, rgs : Seq(Actions)]]
  BY DEF StopWorker, queues, supervised, Serving, Inv, TypeOK
<1>2. /\ worker'[w] = [pc |-> "stopped", rgs |-> <<>>]
      /\ \A v \in Workers : v # w => worker'[v] = worker[v]
  BY <1>1
<1>3. \A v \in Workers : worker'[v].pc # "stopped" => v # w /\ worker[v].pc # "stopped"
  BY <1>2
<1>4. \A v \in Workers : v # w => /\ Rest(v)' = Rest(v) /\ Waiting(v)' = Waiting(v)
                                  /\ Current(v)' = Current(v) /\ (Serving(v)' <=> Serving(v))
  BY <1>1, <1>2 DEF Rest, Waiting, Current, Serving
<1>5. StartsInOrder'
  <2>1. \A v \in Workers : worker'[v].pc # "stopped" => IsSuffix(Rest(v)', arrived'[v])
    BY <1>1, <1>3, <1>4, RestFacts
  <2> QED BY <2>1 DEF StartsInOrder, Rest
<1>6. RegistrationsOnce'
  <2>1. \A v \in Workers : worker'[v].rgs # <<>> <=>
                              Serving(v)' \/ worker'[v].pc \in {"took", "start"}
    <3>1. worker'[w].rgs = <<>> /\ worker'[w].pc \notin {"took", "start"} /\ ~Serving(w)'
      BY <1>2 DEF Serving
    <3> QED BY <1>2, <1>4, <3>1 DEF Inv, Rules, RegistrationsOnce
  <2> QED BY <1>1, <2>1 DEF Inv, Rules, RegistrationsOnce
<1>7. FibersInTurn'
  <2>1. \A b \in Actions : Submitted(b)' <=> Submitted(b)
    BY <1>1 DEF Submitted
  <2>2. \A v \in Workers : worker'[v].pc # "stopped" => \A b \in Waiting(v)' : fiber'[b] = "none"
    BY <1>1, <1>3, <1>4 DEF Inv, Rules, FibersInTurn
  <2>3. \A v \in Workers : Serving(v)' => v # w
    BY <1>2 DEF Serving
  <2>4. \A v \in Workers : Serving(v)' => fiber'[Current(v)'] # "none"
    BY <1>1, <1>4, <2>3 DEF Inv, Rules, FibersInTurn
  <2> QED BY <1>1, <2>1, <2>2, <2>4 DEF Inv, Rules, FibersInTurn
<1>8. TokensInTurn'
  <2>1. \A b \in Actions : Recording(b)' <=> Recording(b)
    BY <1>1, <1>2, <1>4 DEF Recording, Serving
  <2>2. \A v \in Workers : worker'[v].pc \in {"insert", "check"} =>
                              worker'[v].pc = worker[v].pc /\ Current(v)' = Current(v)
    BY <1>2, <1>4
  <2> QED BY <1>1, <2>1, <2>2 DEF Inv, Rules, TokensInTurn
<1>9. ReleaseInTurn'
  BY <1>1 DEF ReleaseInTurn, NothingOutlives
<1> QED BY <1>5, <1>6, <1>7, <1>8, <1>9 DEF Rules

(* With the workers stopped, the supervisor holds the token of every fiber *)
(* that lives, but of those that remove it.                                *)
LEMMA ReleaseRules ==
    ASSUME Inv, BeginShutdown \/ WorkersStopped \/ Die \/ ReadTokens \/ Released
    PROVE  Rules'
<1>1. UNCHANGED <<state, arrived, worker, tokens, fiber, done>>
  BY DEF BeginShutdown, WorkersStopped, Die, ReadTokens, Released, S!ReadTokens, queues, supervised
<1>2. CASE BeginShutdown \/ WorkersStopped \/ Die
  <2>1. \/ shutdown' = "workers"
        \/ shutdown' = "alive" /\ \A w \in Workers : worker'[w].pc = "stopped"
        \/ shutdown' = "supervisor" /\ shutdown = "alive"
    BY <1>1, <1>2 DEF BeginShutdown, WorkersStopped, Die, At
  <2>2. ReleaseInTurn'
    BY <1>1, <2>1 DEF Inv, Rules, ReleaseInTurn, NothingOutlives
  <2> QED BY <1>1, <2>2, StillRules
<1>3. CASE ReadTokens
  <2>1. shutdown = "supervisor" /\ shutdown' = "cancels" /\ snapshot' = tokens
    BY <1>3 DEF ReadTokens, S!ReadTokens
  <2>2. \A w \in Workers : worker[w].pc = "stopped"
    BY <2>1 DEF Inv, Rules, ReleaseInTurn
  <2>3. \A b \in Actions : ~Recording(b)
    BY <2>2 DEF Recording
  <2>4. \A b \in Actions : fiber[b] \notin {"none", "cleaning", "ended"} => b \in tokens
    BY <2>3 DEF Inv, Rules, FibersInTurn, TokensInTurn
  <2>5. ReleaseInTurn'
    BY <1>1, <2>1, <2>2, <2>4 DEF ReleaseInTurn, NothingOutlives
  <2> QED BY <1>1, <2>5, StillRules
<1>4. CASE Released
  <2>1. /\ shutdown = "cancels" /\ shutdown' = "released" /\ snapshot' = snapshot
        /\ \A b \in snapshot : fiber[b] = "ended"
    BY <1>4 DEF Released, S!AllEnded, S!Ended, supervised
  <2>2. ReleaseInTurn'
    BY <1>1, <2>1 DEF Inv, Rules, ReleaseInTurn, NothingOutlives
  <2> QED BY <1>1, <2>2, StillRules
<1> QED BY <1>2, <1>3, <1>4

-----------------------------------------------------------------------------
(* Every step keeps the invariant.                                         *)
LEMMA InvInit ==
    ASSUME Init
    PROVE  Inv
<1> USE DEF Init, S!Init
<1>1. Workers = 1..Cpus /\ \A w \in Workers : /\ worker[w] = [pc |-> "reset", rgs |-> <<>>]
                                              /\ state[w] = <<>> /\ arrived[w] = <<>>
  BY DEF Workers
<1>2. TypeOK
  BY DEF TypeOK, S!TypeOK, S!Lives, WorkerPCs
<1>3. StartsInOrder
  <2>1. <<>> \o Reverse(<<>>) = <<>> /\ IsSuffix(<<>>, <<>>)
    <3> DEFINE e == <<>>
    <3>1. e \in Seq(Actions) /\ Len(e) = 0
      BY EmptySeq
    <3> HIDE DEF e
    <3>2. Reverse(e) = <<>>
      BY <3>1, ReverseFacts DEF e
    <3>3. IsSuffix(e, e)
      <4>1. Len(e) <= Len(e) /\ \A i \in 1..Len(e) : e[(Len(e) - i) + 1] = e[(Len(e) - i) + 1]
        BY <3>1
      <4> QED BY <3>1, <4>1, SuffixMeans
    <3>4. e \o e = e
      BY <3>1, ConcatEmptySeq DEF e
    <3> QED BY <3>2, <3>3, <3>4 DEF e
  <2> QED BY <1>1, <2>1 DEF StartsInOrder
<1>4. RegistrationsOnce
  BY <1>1 DEF RegistrationsOnce, Serving, IsInjective, ToSet
<1>5. FibersInTurn
  BY <1>1 DEF FibersInTurn, Serving, Waiting, ToSet
<1>6. TokensInTurn
  BY <1>1 DEF TokensInTurn
<1>7. ReleaseInTurn
  BY DEF ReleaseInTurn, NothingOutlives
<1> QED BY <1>2, <1>3, <1>4, <1>5, <1>6, <1>7 DEF Inv, Rules

(* What no rule is about: the calls, and the remaining types.              *)
LEMMA WorkerStepInv ==
    ASSUME Inv, NEW w \in Workers, WorkerStep(w)
    PROVE  Inv'
<1> USE DEF queues, calls, supervised, At
<1>1. /\ worker \in [Workers -> [pc : WorkerPCs, rgs : Seq(Actions)]]
      /\ state \in [Workers -> Seq(Actions)] /\ latch \in [Workers -> {"Noop", "Open", "callback"}]
      /\ worker[w].rgs \in Seq(Actions) /\ state[w] \in Seq(Actions)
      /\ Reverse(state[w]) \in Seq(Actions)
      /\ worker[w] = [pc |-> worker[w].pc, rgs |-> worker[w].rgs]
  BY WorkerTypes DEF Inv, TypeOK
<1>2. ASSUME NEW p \in WorkerPCs, Goto(w, p)
      PROVE  /\ worker' = [worker EXCEPT ![w] = [pc |-> p, rgs |-> worker[w].rgs]]
             /\ worker' \in [Workers -> [pc : WorkerPCs, rgs : Seq(Actions)]]
             /\ worker'[w].rgs = worker[w].rgs
  <2> DEFINE x == worker[w]
             y == [pc |-> p, rgs |-> x.rgs]
  <2>1. [x EXCEPT !.pc = p] = y
    BY <1>1
  <2>2. worker' = [worker EXCEPT ![w] = y]
    BY <1>2, <2>1 DEF Goto
  <2>3. y \in [pc : WorkerPCs, rgs : Seq(Actions)] /\ y.rgs = x.rgs
    BY <1>1
  <2> HIDE DEF y
  <2>4. worker'[w] = y /\ worker' \in [Workers -> [pc : WorkerPCs, rgs : Seq(Actions)]]
    BY <1>1, <2>2, <2>3
  <2> QED BY <2>2, <2>3, <2>4 DEF y
<1>3. worker[w].pc \in {"reset", "take", "park"} => worker[w].rgs = <<>>
  BY DEF Inv, Rules, RegistrationsOnce, Serving
<1>4. CASE ResetLatch(w)
  <2>1. worker[w].pc = "reset" /\ Goto(w, "take") /\ "take" \in WorkerPCs
    BY <1>4 DEF ResetLatch, WorkerPCs
  <2>2. Rest(w)' = Rest(w)
    <3>1. worker'[w].rgs = worker[w].rgs /\ state' = state
      BY <1>2, <1>4, <2>1 DEF ResetLatch
    <3> QED BY <3>1 DEF Rest
  <2>3. Rules'
    BY <1>1, <1>2, <1>3, <1>4, <2>1, <2>2, MoveRules DEF ResetLatch, Serving
  <2>4. TypeOK'
    BY <1>1, <1>2, <1>4, <2>1 DEF ResetLatch, Inv, TypeOK, S!TypeOK
  <2> QED BY <2>3, <2>4 DEF Inv
<1>5. CASE Take(w)
  <2> DEFINE p == IF state[w] = <<>> THEN "park" ELSE "took"
             r == Reverse(state[w])
  <2>1. /\ worker[w].pc = "take" /\ worker[w].rgs = <<>> /\ ~Serving(w)
        /\ worker' = [worker EXCEPT ![w] = [pc |-> p, rgs |-> r]]
        /\ state' = [state EXCEPT ![w] = <<>>] /\ p \in {"park", "took"}
        /\ UNCHANGED <<arrived, shutdown, supervised>>
    BY <1>3, <1>5 DEF Take, Serving
  <2>2. r \in Seq(Actions) /\ (r # <<>> <=> p = "took") /\ ToSet(r) = ToSet(state[w])
    BY <1>1, ReverseFacts, ReverseSet
  <2>3. worker'[w] = [pc |-> p, rgs |-> r] /\ state'[w] = <<>>
    BY <1>1, <2>1
  <2> DEFINE e == <<>>
  <2>4. Rest(w) = worker[w].rgs \o r /\ Rest(w)' = worker'[w].rgs \o Reverse(state'[w])
    BY DEF Rest
  <2>5. Rest(w)' = Rest(w)
    <3>1. e \in Seq(Actions) /\ worker[w].rgs = e /\ worker'[w].rgs = r /\ state'[w] = e
      BY <2>1, <2>3, EmptySeq
    <3> HIDE DEF r, e
    <3>2. Reverse(e) = <<>>
      BY <3>1, ReverseFacts DEF e
    <3>3. e \o r = r /\ r \o e = r
      BY <2>2, ConcatEmptySeq DEF e
    <3> QED BY <2>4, <3>1, <3>2, <3>3 DEF e
  <2> HIDE DEF p, r
  <2>6. ToSet(<<>>) = {}
    BY DEF ToSet
  <2>7. \A v \in Workers : v # w => state'[v] = state[v]
    BY <1>1, <2>1
  <2>8. Rules'
    BY <2>1, <2>2, <2>3, <2>5, <2>6, <2>7, MoveRules
  <2>9. [pc |-> p, rgs |-> r] \in [pc : WorkerPCs, rgs : Seq(Actions)] /\ <<>> \in Seq(Actions)
    BY <2>1, <2>2, EmptySeq DEF WorkerPCs
  <2>10. /\ worker' \in [Workers -> [pc : WorkerPCs, rgs : Seq(Actions)]]
         /\ state' \in [Workers -> Seq(Actions)]
    BY <1>1, <2>1, <2>9
  <2>11. TypeOK'
    BY <1>5, <2>10 DEF Take, Inv, TypeOK, S!TypeOK
  <2> QED BY <2>8, <2>11 DEF Inv
<1>6. CASE Park(w)
  <2>1. PICK p \in {"parked", "reset"} : Goto(w, p)
    BY <1>6 DEF Park
  <2>2. p \in WorkerPCs /\ worker[w].pc = "park"
    BY <1>6 DEF Park, WorkerPCs
  <2>3. Rest(w)' = Rest(w)
    <3>1. worker'[w].rgs = worker[w].rgs /\ state' = state
      BY <1>2, <1>6, <2>1, <2>2 DEF Park
    <3> QED BY <3>1 DEF Rest
  <2>4. Rules'
    BY <1>1, <1>2, <1>3, <1>6, <2>1, <2>2, <2>3, MoveRules DEF Park, Serving
  <2>5. TypeOK'
    BY <1>1, <1>2, <1>6, <2>1, <2>2 DEF Park, Inv, TypeOK, S!TypeOK
  <2> QED BY <2>4, <2>5 DEF Inv
<1>7. CASE Mask(w)
  <2>1. worker[w].pc = "took" /\ Goto(w, "start") /\ "start" \in WorkerPCs
    BY <1>7 DEF Mask, WorkerPCs
  <2>2. worker[w].rgs # <<>> /\ ~Serving(w)
    BY <2>1 DEF Inv, Rules, RegistrationsOnce, Serving
  <2>3. Rest(w)' = Rest(w)
    <3>1. worker'[w].rgs = worker[w].rgs /\ state' = state
      BY <1>2, <1>7, <2>1 DEF Mask
    <3> QED BY <3>1 DEF Rest
  <2>4. Rules'
    BY <1>1, <1>2, <1>7, <2>1, <2>2, <2>3, MoveRules DEF Mask
  <2>5. TypeOK'
    BY <1>1, <1>2, <1>7, <2>1 DEF Mask, Inv, TypeOK, S!TypeOK
  <2> QED BY <2>4, <2>5 DEF Inv
<1>8. CASE Start(w)
  <2>1. worker[w].pc = "start" /\ UNCHANGED <<alive, queues, calls, shutdown>>
    BY <1>8 DEF Start
  <2>2. CASE Advance(w) /\ UNCHANGED supervised
    <3>1. Rules' /\ worker' \in [Workers -> [pc : WorkerPCs, rgs : Seq(Actions)]]
      BY <2>1, <2>2, AdvanceRules
    <3>2. TypeOK'
      BY <2>1, <2>2, <3>1 DEF Inv, TypeOK, S!TypeOK
    <3> QED BY <3>1, <3>2 DEF Inv
  <2>3. CASE S!Fork(Current(w)) /\ Goto(w, "insert")
    <3>1. Rules'
      BY <2>1, <2>3, ForkRules
    <3>2. worker' \in [Workers -> [pc : WorkerPCs, rgs : Seq(Actions)]]
      BY <1>2, <2>3 DEF WorkerPCs
    <3>3. fiber' \in [Actions -> S!Lives]
      BY <2>3 DEF S!Fork, S!Goto, S!Lives, Inv, TypeOK, S!TypeOK
    <3>4. TypeOK'
      BY <2>1, <2>3, <3>2, <3>3 DEF S!Fork, Inv, TypeOK, S!TypeOK
    <3> QED BY <3>1, <3>4 DEF Inv
  <2> QED BY <1>8, <2>2, <2>3 DEF Start
<1>9. CASE Insert(w)
  <2>1. /\ worker[w].pc = "insert" /\ Goto(w, "check") /\ S!Insert(Current(w))
        /\ UNCHANGED <<alive, queues, calls, shutdown>>
    BY <1>9 DEF Insert
  <2>2. Rules'
    BY <2>1, InsertRules
  <2>3. worker' \in [Workers -> [pc : WorkerPCs, rgs : Seq(Actions)]]
    BY <1>2, <2>1 DEF WorkerPCs
  <2>4. Current(w) \in Actions
    BY <2>1, CurrentFacts DEF Inv, Rules, RegistrationsOnce, Serving
  <2>5. TypeOK'
    BY <2>1, <2>3, <2>4 DEF S!Insert, Inv, TypeOK, S!TypeOK
  <2> QED BY <2>2, <2>5 DEF Inv
<1>10. CASE Check(w)
  <2>1. /\ worker[w].pc = "check" /\ Goto(w, "prepare") /\ S!Check(Current(w))
        /\ UNCHANGED <<alive, queues, calls, shutdown>>
    BY <1>10 DEF Check
  <2>2. Rules'
    BY <2>1, CheckRules
  <2>3. worker' \in [Workers -> [pc : WorkerPCs, rgs : Seq(Actions)]]
    BY <1>2, <2>1 DEF WorkerPCs
  <2>4. TypeOK'
    BY <2>1, <2>3 DEF S!Check, Inv, TypeOK, S!TypeOK
  <2> QED BY <2>2, <2>4 DEF Inv
<1>11. CASE PrepareCancel(w)
  <2>1. /\ worker[w].pc = "prepare" /\ Advance(w)
        /\ UNCHANGED <<alive, queues, inactive, timers, canceled, shutdown, supervised>>
    BY <1>11 DEF PrepareCancel
  <2>2. Rules' /\ worker' \in [Workers -> [pc : WorkerPCs, rgs : Seq(Actions)]]
    BY <2>1, AdvanceRules
  <2>3. Current(w) \in Actions
    BY <2>1, CurrentFacts DEF Inv, Rules, RegistrationsOnce, Serving
  <2>4. cancelTokens' \subseteq Calls
    BY <1>11, <2>3 DEF PrepareCancel, Actions, Inv, TypeOK
  <2>5. TypeOK'
    BY <2>1, <2>2, <2>4 DEF Inv, TypeOK, S!TypeOK
  <2> QED BY <2>2, <2>5 DEF Inv
<1> QED BY <1>4, <1>5, <1>6, <1>7, <1>8, <1>9, <1>10, <1>11 DEF WorkerStep

LEMMA EnqueueInv ==
    ASSUME Inv, NEW a \in Actions, NEW w \in Workers, ~Submitted(a), Enqueue(a, w),
           UNCHANGED <<alive, inactive, cancelTokens, shutdown, supervised>>,
           timers' \subseteq Calls, canceled' \subseteq Calls
    PROVE  Inv'
<1>1. Rules'
  BY EnqueueRules
<1>2. state' \in [Workers -> Seq(Actions)] /\ arrived' \in [Workers -> Seq(Actions)]
  BY EnqueueLists
<1>3. worker' \in [Workers -> [pc : WorkerPCs, rgs : Seq(Actions)]]
  <2>1. worker \in [Workers -> [pc : WorkerPCs, rgs : Seq(Actions)]] /\ "reset" \in WorkerPCs
    BY DEF Inv, TypeOK, WorkerPCs
  <2> QED BY <2>1 DEF Enqueue
<1>4. latch' \in [Workers -> {"Noop", "Open", "callback"}]
  BY DEF Enqueue, Inv, TypeOK
<1>5. S!TypeOK'
  BY DEF supervised, Inv, TypeOK, S!TypeOK
<1> QED BY <1>1, <1>2, <1>3, <1>4, <1>5 DEF Inv, TypeOK

LEMMA CallInv ==
    ASSUME Inv, NEW c \in Calls, Call(c) \/ (c \in Cancelable /\ (CancelCall(c) \/ Timer(c)))
    PROVE  Inv'
<1> USE DEF calls, queues, supervised
<1>1. <<"run", c>> \in Actions /\ (c \in Cancelable => <<"cancel", c>> \in Actions)
  BY DEF Actions
<1>2. CASE Call(c)
  <2>1. PICK w \in Workers : Enqueue(<<"run", c>>, w)
    BY <1>2 DEF Call
  <2>2. timers' \subseteq Calls /\ canceled' \subseteq Calls
    BY <1>2 DEF Call, Inv, TypeOK
  <2>3. /\ ~Submitted(<<"run", c>>)
        /\ UNCHANGED <<alive, inactive, cancelTokens, shutdown, supervised>>
    BY <1>2 DEF Call
  <2> QED BY <1>1, <2>1, <2>2, <2>3, EnqueueInv
<1>3. CASE c \in Cancelable /\ CancelCall(c)
  <2>1. /\ timers' \subseteq Calls /\ canceled' \subseteq Calls
        /\ ~Submitted(<<"cancel", c>>)
        /\ UNCHANGED <<alive, inactive, cancelTokens, shutdown, supervised>>
    BY <1>3 DEF CancelCall, Inv, TypeOK
  <2>2. CASE \E w \in Workers : Enqueue(<<"cancel", c>>, w)
    BY <1>1, <1>3, <2>1, <2>2, EnqueueInv
  <2>3. CASE UNCHANGED <<queues, worker>>
    <3>1. ReleaseInTurn'
      BY <2>1, <2>3 DEF Inv, Rules, ReleaseInTurn, NothingOutlives
    <3>2. Rules'
      BY <2>1, <2>3, <3>1, StillRules
    <3> QED BY <2>1, <2>3, <3>2 DEF Inv, TypeOK, S!TypeOK
  <2> QED BY <1>3, <2>2, <2>3 DEF CancelCall
<1>4. CASE Timer(c)
  <2>1. ReleaseInTurn'
    BY <1>4 DEF Timer, Inv, Rules, ReleaseInTurn, NothingOutlives
  <2>2. Rules'
    BY <1>4, <2>1, StillRules DEF Timer
  <2> QED BY <1>4, <2>2 DEF Timer, Inv, TypeOK, S!TypeOK
<1> QED BY <1>2, <1>3, <1>4

LEMMA FiberInv ==
    ASSUME Inv, NEW a \in Actions, ActionStep(a) \/ EndAction(a) \/ CancelToken(a)
    PROVE  Inv'
<1> USE DEF calls, queues, unsupervised
<1>1. CASE S!Run(a) \/ S!Leave(a) \/ S!SetDone(a) \/ S!Cleanup(a)
  <2>1. UNCHANGED unsupervised /\ UNCHANGED snapshot
    <3>1. UNCHANGED snapshot
      BY <1>1 DEF S!Run, S!Leave, S!SetDone, S!Cleanup
    <3>2. UNCHANGED unsupervised
      BY DEF ActionStep, EndAction, CancelToken, RunAction, CancelTarget, EndCanceled, FinalizeAction
    <3> QED BY <3>1, <3>2
  <2>2. Rules'
    BY <1>1, <2>1, FiberRules
  <2>3. S!TypeOK'
    BY <1>1 DEF S!Run, S!Leave, S!SetDone, S!Cleanup, S!Goto, S!Lives, Inv, TypeOK, S!TypeOK
  <2> QED BY <2>1, <2>2, <2>3 DEF Inv, TypeOK
<1>2. CASE CancelTarget(a) \/ CancelToken(a)
  <2>1. PICK b \in Actions : S!Ask(b)
    <3>1. CASE CancelTarget(a)
      <4>1. Target(a) \in Actions
        BY <3>1, DispatcherAssumption DEF CancelTarget, Target, Actions
      <4> QED BY <3>1, <4>1 DEF CancelTarget
    <3>2. CASE CancelToken(a)
      BY <3>2 DEF CancelToken, S!CancelToken
    <3> QED BY <1>2, <3>1, <3>2
  <2>2. UNCHANGED <<unsupervised, tokens, fiber, done, snapshot>> /\ asked' = asked \cup {b}
    BY <1>2, <2>1 DEF CancelTarget, CancelToken, S!Ask
  <2>3. ReleaseInTurn'
    BY <2>2 DEF Inv, Rules, ReleaseInTurn, NothingOutlives
  <2>4. Rules'
    BY <2>2, <2>3, StillRules
  <2> QED BY <2>2, <2>4 DEF Inv, TypeOK, S!TypeOK
<1> QED BY <1>1, <1>2 DEF ActionStep, EndAction, RunAction, EndCanceled, FinalizeAction

LEMMA ReleaseInv ==
    ASSUME Inv, BeginShutdown \/ Shutdown
    PROVE  Inv'
<1> USE DEF calls, queues, supervised
<1>1. CASE BeginShutdown \/ WorkersStopped \/ Die \/ ReadTokens \/ Released
  <2>1. Rules'
    BY <1>1, ReleaseRules
  <2>2. TypeOK'
    BY <1>1 DEF BeginShutdown, WorkersStopped, Die, ReadTokens, S!ReadTokens, Released,
                Inv, TypeOK, S!TypeOK
  <2> QED BY <2>1, <2>2 DEF Inv
<1>2. CASE \E w \in Workers : StopWorker(w)
  <2>1. PICK w \in Workers : StopWorker(w)
    BY <1>2
  <2>2. Rules'
    BY <2>1, StopRules
  <2>3. worker' \in [Workers -> [pc : WorkerPCs, rgs : Seq(Actions)]]
    <3>1. [pc |-> "stopped", rgs |-> <<>>] \in [pc : WorkerPCs, rgs : Seq(Actions)]
      BY EmptySeq DEF WorkerPCs
    <3> QED BY <2>1, <3>1 DEF StopWorker, Inv, TypeOK
  <2>4. TypeOK'
    BY <2>1, <2>3 DEF StopWorker, Inv, TypeOK, S!TypeOK
  <2> QED BY <2>2, <2>4 DEF Inv
<1>3. CASE \E a \in Actions : CancelToken(a)
  BY <1>3, FiberInv
<1> QED BY <1>1, <1>2, <1>3 DEF Shutdown

LEMMA InvNext ==
    ASSUME Inv, [Next]_vars
    PROVE  Inv'
<1>1. ASSUME NEW c \in Calls, Call(c) PROVE Inv'
  BY <1>1, CallInv
<1>2. ASSUME NEW c \in Cancelable, CancelCall(c) \/ Timer(c) PROVE Inv'
  BY <1>2, DispatcherAssumption, CallInv
<1>3. ASSUME NEW w \in Workers, WorkerStep(w) PROVE Inv'
  BY <1>3, WorkerStepInv
<1>4. ASSUME NEW a \in Actions, ActionStep(a) \/ EndAction(a) PROVE Inv'
  BY <1>4, FiberInv
<1>5. CASE BeginShutdown \/ Shutdown
  BY <1>5, ReleaseInv
<1>6. CASE UNCHANGED vars
  <2>1. ReleaseInTurn'
    BY <1>6 DEF vars, queues, calls, supervised, Inv, Rules, ReleaseInTurn, NothingOutlives
  <2>2. Rules'
    BY <1>6, <2>1, StillRules DEF vars, queues, calls, supervised
  <2> QED BY <1>6, <2>2 DEF vars, queues, calls, supervised, Inv, TypeOK, S!TypeOK
<1> QED BY <1>1, <1>2, <1>3, <1>4, <1>5, <1>6 DEF Next

LEMMA InvHolds == Spec => []Inv
<1>1. Init => Inv
  BY InvInit
<1>2. Inv /\ [Next]_vars => Inv'
  BY InvNext
<1> QED BY <1>1, <1>2, PTL DEF Spec

-----------------------------------------------------------------------------
(* The types are kept.                                                     *)
THEOREM TypeCorrect == Spec => []TypeOK
<1>1. Inv => TypeOK
  BY DEF Inv
<1> QED BY <1>1, InvHolds, PTL

(* What a worker has yet to start is always an end of what it was sent:    *)
(* with any number of workers, each starts its registrations in the order  *)
(* of submission, whatever comes between its steps.                        *)
THEOREM InOrder == Spec => []StartsInOrder
<1>1. Inv => StartsInOrder
  BY DEF Inv, Rules
<1> QED BY <1>1, InvHolds, PTL

(* Outside of the masked region that records it, the supervisor has the    *)
(* token of a fiber exactly as long as the fiber lives, or it was canceled *)
(* before its first node.                                                  *)
THEOREM TokensKept == Spec => []TokensExact
<1>1. Inv => TokensExact
  <2>1. ASSUME Inv, NEW a \in Actions, ~Recording(a), fiber[a] # "cleaning"
        PROVE  a \in tokens <=> fiber[a] \notin {"none", "ended"} \/ NeverRan(a)
    BY <2>1 DEF Inv, Rules, FibersInTurn, TokensInTurn, NeverRan, S!Ended
  <2> QED BY <2>1 DEF TokensExact
<1> QED BY <1>1, InvHolds, PTL

(* When the dispatcher is released no computation goes on, whichever step  *)
(* the release finds the workers and the fibers at.                        *)
THEOREM NoneOutlives == Spec => []NothingOutlives
<1>1. Inv => NothingOutlives
  BY DEF Inv, Rules, ReleaseInTurn
<1> QED BY <1>1, InvHolds, PTL
-----------------------------------------------------------------------------
(* A worker that sleeps has nothing to do, and its callback in the latch;  *)
(* one about to sleep finds the latch open if something came meanwhile.    *)
LatchInTurn ==
    \A w \in Workers :
        /\ At(w, "parked") => latch[w] = "callback" /\ state[w] = <<>>
        /\ At(w, "park") /\ state[w] # <<>> => latch[w] = "Open"

(* The steps that may disturb a latch: a submission opens it, and wakes    *)
(* the worker whose callback it finds there.                               *)
LEMMA EnqueueLatch ==
    ASSUME TypeOK, LatchInTurn, NEW a \in Actions, NEW w \in Workers, Enqueue(a, w)
    PROVE  LatchInTurn'
<1> SUFFICES ASSUME NEW v \in Workers
             PROVE  /\ At(v, "parked")' => latch'[v] = "callback" /\ state'[v] = <<>>
                    /\ At(v, "park")' /\ state'[v] # <<>> => latch'[v] = "Open"
  BY DEF LatchInTurn
<1>1. CASE v = w
  BY <1>1 DEF Enqueue, TypeOK, LatchInTurn, At
<1>2. CASE v # w
  BY <1>2 DEF Enqueue, TypeOK, LatchInTurn, At
<1> QED BY <1>1, <1>2

(* A worker changes its own latch only, in the order reset, take, park.    *)
LEMMA WorkerLatch ==
    ASSUME TypeOK, LatchInTurn, NEW w \in Workers, WorkerStep(w) \/ StopWorker(w)
    PROVE  LatchInTurn'
<1> USE DEF queues, calls, supervised, At
<1> SUFFICES ASSUME NEW v \in Workers
             PROVE  /\ At(v, "parked")' => latch'[v] = "callback" /\ state'[v] = <<>>
                    /\ At(v, "park")' /\ state'[v] # <<>> => latch'[v] = "Open"
  BY DEF LatchInTurn
<1>1. CASE ResetLatch(w)
  BY <1>1 DEF ResetLatch, Goto, TypeOK, LatchInTurn
<1>2. CASE Take(w)
  BY <1>2 DEF Take, TypeOK, LatchInTurn
<1>3. CASE Park(w)
  BY <1>3 DEF Park, Goto, TypeOK, LatchInTurn
<1>4. ASSUME latch' = latch, state' = state, ~At(w, "park")', ~At(w, "parked")',
             v # w => worker'[v] = worker[v]
      PROVE  /\ At(v, "parked")' => latch'[v] = "callback" /\ state'[v] = <<>>
             /\ At(v, "park")' /\ state'[v] # <<>> => latch'[v] = "Open"
  BY <1>4 DEF LatchInTurn
<1>5. ASSUME NEW p \in WorkerPCs \ {"park", "parked"}, Goto(w, p)
      PROVE  /\ ~At(w, "park")' /\ ~At(w, "parked")'
             /\ v # w => worker'[v] = worker[v]
  BY <1>5 DEF Goto, TypeOK
<1>6. ASSUME Advance(w)
      PROVE  /\ ~At(w, "park")' /\ ~At(w, "parked")'
             /\ v # w => worker'[v] = worker[v]
  BY <1>6 DEF Advance, TypeOK
<1>7. CASE Mask(w) \/ Insert(w) \/ Check(w)
  <2>1. Goto(w, "start") \/ Goto(w, "check") \/ Goto(w, "prepare")
    BY <1>7 DEF Mask, Insert, Check
  <2>2. latch' = latch /\ state' = state
    BY <1>7 DEF Mask, Insert, Check
  <2> QED BY <1>4, <1>5, <2>1, <2>2 DEF WorkerPCs
<1>8. CASE Start(w) \/ PrepareCancel(w)
  <2>1. Advance(w) \/ Goto(w, "insert")
    BY <1>8 DEF Start, PrepareCancel
  <2>2. latch' = latch /\ state' = state
    BY <1>8 DEF Start, PrepareCancel
  <2> QED BY <1>4, <1>5, <1>6, <2>1, <2>2 DEF WorkerPCs
<1>9. CASE StopWorker(w)
  <2>1. worker'[w].pc = "stopped" /\ (v # w => worker'[v] = worker[v])
    BY <1>9 DEF StopWorker, TypeOK
  <2>2. latch' = latch /\ state' = state
    BY <1>9 DEF StopWorker
  <2> QED BY <1>4, <2>1, <2>2
<1> QED BY <1>1, <1>2, <1>3, <1>7, <1>8, <1>9 DEF WorkerStep

LEMMA LatchNext == TypeOK /\ LatchInTurn /\ [Next]_vars => LatchInTurn'
<1> SUFFICES ASSUME TypeOK, LatchInTurn, [Next]_vars PROVE LatchInTurn'
  OBVIOUS
<1>1. ASSUME NEW c \in Calls, Call(c) PROVE LatchInTurn'
  <2>1. <<"run", c>> \in Actions
    BY DEF Actions
  <2> QED BY <1>1, <2>1, EnqueueLatch DEF Call
<1>2. ASSUME UNCHANGED <<latch, state, worker>> PROVE LatchInTurn'
  BY <1>2 DEF LatchInTurn, At
<1>3. ASSUME NEW c \in Cancelable, CancelCall(c) \/ Timer(c) PROVE LatchInTurn'
  <2>1. <<"cancel", c>> \in Actions
    BY DEF Actions
  <2>2. UNCHANGED <<latch, state, worker>> \/ \E w \in Workers : Enqueue(<<"cancel", c>>, w)
    BY <1>3 DEF CancelCall, Timer, queues
  <2> QED BY <1>2, <2>1, <2>2, EnqueueLatch
<1>4. ASSUME NEW w \in Workers, WorkerStep(w) \/ StopWorker(w) PROVE LatchInTurn'
  BY <1>4, WorkerLatch
<1>5. ASSUME NEW a \in Actions, ActionStep(a) \/ EndAction(a) \/ CancelToken(a)
      PROVE  LatchInTurn'
  <2>1. UNCHANGED <<latch, state, worker>>
    BY <1>5 DEF ActionStep, EndAction, RunAction, CancelTarget, EndCanceled, FinalizeAction,
                CancelToken, unsupervised, queues
  <2> QED BY <1>2, <2>1
<1>6. CASE BeginShutdown \/ WorkersStopped \/ Die \/ ReadTokens \/ Released \/ UNCHANGED vars
  <2>1. UNCHANGED <<latch, state, worker>>
    BY <1>6 DEF BeginShutdown, WorkersStopped, Die, ReadTokens, Released, vars, queues
  <2> QED BY <1>2, <2>1
<1> QED BY <1>1, <1>3, <1>4, <1>5, <1>6 DEF Next, Shutdown

(* No worker sleeps over a registration, wherever between its look at the  *)
(* list and its exchange of the latch a submission or the stop of another  *)
(* worker comes.                                                           *)
THEOREM WakesUp == Spec => []NoWakeUpLost
<1>1. Init => LatchInTurn
  BY DEF Init, LatchInTurn, At
<1>2. LatchInTurn => NoWakeUpLost
  BY DEF LatchInTurn, NoWakeUpLost
<1> QED BY <1>1, <1>2, TypeCorrect, LatchNext, PTL DEF Spec

=============================================================================
