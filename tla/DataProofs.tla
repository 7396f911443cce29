----------------------------- MODULE DataProofs -----------------------------
(***************************************************************************)
(* Facts on the data that the components keep.                             *)
(*                                                                         *)
(* First the waiting lists of Deferred, Semaphore, Queue and Channel: what *)
(* joining, serving and leaving one does to it.                            *)
(*                                                                         *)
(* Then the trees of OrdMap, of every size: what each operation returns is *)
(* a balanced search tree again, and holds what a dictionary would. The    *)
(* operations are functions over a set V of all such trees, with keys in K *)
(* and values in X, that do at every node what OrdMap does there; entries  *)
(* is the function from a tree to the pairs of keys and values it holds.   *)
(* The proofs are by induction over the size of a tree. MCOrdMap has TLC   *)
(* evaluate the hypotheses for the operators of OrdMap itself.             *)
(***************************************************************************)
EXTENDS WaitingLists, Integers, SequenceTheorems, FiniteSetTheorems,
        WellFoundedInduction, TLAPS

(* A newcomer at the end of a list.                                        *)
LEMMA AppendFacts ==
    ASSUME NEW S, NEW s \in Seq(S), NEW e \in S
    PROVE  /\ Append(s, e) \in Seq(S)
           /\ ToSet(Append(s, e)) = ToSet(s) \cup {e}
           /\ IsInjective(s) /\ e \notin ToSet(s) => IsInjective(Append(s, e))
<1> DEFINE t == Append(s, e)
<1>1. /\ t \in Seq(S) /\ Len(s) \in Nat /\ Len(t) = Len(s) + 1
      /\ DOMAIN s = 1..Len(s) /\ DOMAIN t = 1..Len(s) + 1
      /\ \A i \in 1..Len(s) : t[i] = s[i]
      /\ t[Len(s) + 1] = e
  OBVIOUS
<1> HIDE DEF t
<1>2. ToSet(t) = ToSet(s) \cup {e}
  BY <1>1 DEF ToSet
<1>3. ASSUME IsInjective(s), e \notin ToSet(s) PROVE IsInjective(t)
  <2> SUFFICES ASSUME NEW i \in DOMAIN t, NEW j \in DOMAIN t, t[i] = t[j]
               PROVE  i = j
    BY DEF IsInjective
  <2>1. \A k \in 1..Len(s) : t[k] # e
    BY <1>1, <1>3 DEF ToSet
  <2>2. CASE i \in 1..Len(s) /\ j \in 1..Len(s)
    BY <1>1, <1>3, <2>2 DEF IsInjective
  <2>3. CASE i = Len(s) + 1 \/ j = Len(s) + 1
    BY <1>1, <2>1, <2>3
  <2> QED BY <1>1, <2>2, <2>3
<1> QED BY <1>1, <1>2, <1>3 DEF t

(* The head of a list is served.                                           *)
LEMMA TailFacts ==
    ASSUME NEW S, NEW s \in Seq(S), s # <<>>
    PROVE  /\ Head(s) \in S
           /\ Tail(s) \in Seq(S)
           /\ Len(Tail(s)) = Len(s) - 1
           /\ Head(s) \in ToSet(s)
           /\ ToSet(s) = {Head(s)} \cup ToSet(Tail(s))
           /\ IsInjective(s) => IsInjective(Tail(s)) /\ Head(s) \notin ToSet(Tail(s))
<1> DEFINE t == Tail(s)
<1>1. /\ t \in Seq(S) /\ Len(s) \in Nat \ {0} /\ Len(t) = Len(s) - 1
      /\ DOMAIN s = 1..Len(s) /\ DOMAIN t = 1..Len(s) - 1
      /\ \A i \in 1..Len(s) - 1 : t[i] = s[i + 1]
      /\ Head(s) = s[1] /\ s[1] \in S
  OBVIOUS
<1> HIDE DEF t
<1>2. ToSet(s) = {Head(s)} \cup ToSet(t)
  <2>1. ASSUME NEW i \in DOMAIN s PROVE s[i] \in {Head(s)} \cup ToSet(t)
    <3>1. CASE i = 1
      BY <1>1, <3>1
    <3>2. CASE i # 1
      <4>1. i - 1 \in DOMAIN t /\ t[i - 1] = s[i]
        BY <1>1, <3>2
      <4> QED BY <4>1 DEF ToSet
    <3> QED BY <3>1, <3>2
  <2>2. ASSUME NEW i \in DOMAIN t PROVE t[i] \in ToSet(s)
    <3>1. i + 1 \in DOMAIN s /\ s[i + 1] = t[i]
      BY <1>1
    <3> QED BY <3>1 DEF ToSet
  <2>3. Head(s) \in ToSet(s)
    BY <1>1 DEF ToSet
  <2> QED BY <2>1, <2>2, <2>3 DEF ToSet
<1>3. ASSUME IsInjective(s) PROVE IsInjective(t) /\ Head(s) \notin ToSet(t)
  <2>1. \A i, j \in 1..Len(s) - 1 : t[i] = t[j] => i = j
    <3> SUFFICES ASSUME NEW i \in 1..Len(s) - 1, NEW j \in 1..Len(s) - 1, t[i] = t[j]
                 PROVE  i = j
      OBVIOUS
    <3>1. i + 1 \in DOMAIN s /\ j + 1 \in DOMAIN s /\ s[i + 1] = s[j + 1]
      BY <1>1
    <3>2. i + 1 = j + 1
      BY <1>3, <3>1 DEF IsInjective
    <3> QED BY <1>1, <3>2
  <2>2. \A i \in 1..Len(s) - 1 : t[i] # s[1]
    <3> SUFFICES ASSUME NEW i \in 1..Len(s) - 1, t[i] = s[1] PROVE FALSE
      OBVIOUS
    <3>1. i + 1 \in DOMAIN s /\ 1 \in DOMAIN s /\ s[i + 1] = s[1]
      BY <1>1
    <3>2. i + 1 = 1
      BY <1>3, <3>1 DEF IsInjective
    <3> QED BY <1>1, <3>2
  <2> QED BY <1>1, <2>1, <2>2 DEF IsInjective, ToSet
<1> QED BY <1>1, <1>2, <1>3 DEF t

(* Leaving a list neither lengthens it nor changes its kind.               *)
LEMMA WithoutType ==
    ASSUME NEW S, NEW s \in Seq(S), NEW e
    PROVE  Without(s, e) \in Seq(S) /\ (s = <<>> => Without(s, e) = <<>>)
<1>1. CASE e \in ToSet(s)
  <2> DEFINE k == CHOOSE i \in DOMAIN s : s[i] = e
  <2>1. k \in 1..Len(s) /\ Len(s) \in Nat
    BY <1>1 DEF ToSet
  <2> HIDE DEF k
  <2>2. SubSeq(s, 1, k - 1) \in Seq(S) /\ SubSeq(s, k + 1, Len(s)) \in Seq(S)
    BY <2>1
  <2>3. Without(s, e) = SubSeq(s, 1, k - 1) \o SubSeq(s, k + 1, Len(s))
    BY <1>1 DEF Without, RemoveAt, k
  <2>4. s # <<>>
    BY <1>1 DEF ToSet
  <2> QED BY <2>2, <2>3, <2>4
<1>2. CASE e \notin ToSet(s)
  BY <1>2 DEF Without
<1> QED BY <1>1, <1>2

(* The entries of a list that somebody left: one entry is gone.            *)
LEMMA WithoutEntries ==
    ASSUME NEW S, NEW s \in Seq(S), NEW e \in ToSet(s)
    PROVE  \E k \in 1..Len(s) :
              /\ s[k] = e
              /\ Without(s, e) \in Seq(S) /\ DOMAIN Without(s, e) = 1..Len(s) - 1
              /\ \A i \in 1..k - 1 : Without(s, e)[i] = s[i]
              /\ \A i \in k..Len(s) - 1 : Without(s, e)[i] = s[i + 1]
<1> DEFINE k == CHOOSE i \in DOMAIN s : s[i] = e
           t == Without(s, e)
<1>1. /\ DOMAIN s = 1..Len(s) /\ Len(s) \in Nat
      /\ k \in 1..Len(s) /\ s[k] = e
  BY DEF ToSet
<1> HIDE DEF k
<1>2. t = SubSeq(s, 1, k - 1) \o SubSeq(s, k + 1, Len(s))
  BY DEF Without, RemoveAt, k
<1>3. /\ SubSeq(s, 1, k - 1) \in Seq(S) /\ Len(SubSeq(s, 1, k - 1)) = k - 1
      /\ \A i \in 1..k - 1 : SubSeq(s, 1, k - 1)[i] = s[i]
  BY <1>1
<1>4. /\ SubSeq(s, k + 1, Len(s)) \in Seq(S)
      /\ Len(SubSeq(s, k + 1, Len(s))) = Len(s) - k
      /\ \A i \in 1..Len(s) - k : SubSeq(s, k + 1, Len(s))[i] = s[k + i]
  <2> DEFINE b == SubSeq(s, k + 1, Len(s))
  <2>1. b \in Seq(S)
    BY <1>1
  <2>2. Len(b) = Len(s) - k
    <3>1. /\ k + 1 \in Int /\ Len(s) \in Int
          /\ \A i \in k + 1..Len(s) : s[i] \in S
      BY <1>1
    <3>2. k + 1 <= Len(s) => Len(b) = Len(s) - (k + 1) + 1
      BY <3>1, SubSeqProperties
    <3>3. ~(k + 1 <= Len(s)) => Len(b) = 0
      BY <3>1, SubSeqProperties
    <3> HIDE DEF b
    <3>4. k \in Nat /\ Len(s) \in Nat /\ k <= Len(s)
      BY <1>1
    <3> QED BY <3>2, <3>3, <3>4
  <2>3. ASSUME NEW i \in 1..Len(s) - k PROVE b[i] = s[k + i]
    BY <1>1
  <2> QED BY <2>1, <2>2, <2>3
<1>5. /\ t \in Seq(S) /\ Len(t) = Len(s) - 1 /\ DOMAIN t = 1..Len(s) - 1
      /\ \A i \in 1..k - 1 : t[i] = s[i]
      /\ \A i \in k..Len(s) - 1 : t[i] = s[i + 1]
  <2> DEFINE a == SubSeq(s, 1, k - 1)
             b == SubSeq(s, k + 1, Len(s))
  <2>1. /\ a \in Seq(S) /\ Len(a) = k - 1 /\ \A i \in 1..k - 1 : a[i] = s[i]
        /\ b \in Seq(S) /\ Len(b) = Len(s) - k /\ \A i \in 1..Len(s) - k : b[i] = s[k + i]
    BY <1>3, <1>4
  <2>2. t = a \o b
    BY <1>2
  <2> HIDE DEF a, b, t
  <2>3. t \in Seq(S) /\ Len(t) = Len(s) - 1 /\ DOMAIN t = 1..Len(s) - 1
    <3>1. t \in Seq(S) /\ Len(t) = Len(a) + Len(b)
      BY <2>1, <2>2
    <3>2. Len(t) = Len(s) - 1
      BY <1>1, <2>1, <3>1
    <3> QED BY <3>1, <3>2
  <2>4. \A i \in 1..k - 1 : t[i] = s[i]
    BY <1>1, <2>1, <2>2
  <2>5. ASSUME NEW i \in k..Len(s) - 1 PROVE t[i] = s[i + 1]
    <3>1. i - (k - 1) \in 1..Len(s) - k /\ k + (i - (k - 1)) = i + 1
      BY <1>1
    <3>2. t[i] = b[i - (k - 1)]
      <4>1. i \in 1..Len(a) + Len(b) /\ ~ (i \in 1..Len(a)) /\ Len(a) = k - 1
        BY <1>1, <2>1
      <4>2. \A j \in 1..Len(a) + Len(b) : ~ (j \in 1..Len(a)) => t[j] = b[j - Len(a)]
        <5>1. a \in Seq(S) /\ b \in Seq(S)
          BY <2>1
        <5> QED BY <2>2, <5>1
      <4> QED BY <4>1, <4>2
    <3> QED BY <2>1, <3>1, <3>2
  <2> QED BY <2>3, <2>4, <2>5
<1> HIDE DEF t
<1> QED BY <1>1, <1>5 DEF t

(* A fiber leaves a list: everybody else keeps a place.                    *)
LEMMA WithoutFacts ==
    ASSUME NEW S, NEW s \in Seq(S), IsInjective(s), NEW e
    PROVE  /\ Without(s, e) \in Seq(S)
           /\ ToSet(Without(s, e)) = ToSet(s) \ {e}
           /\ IsInjective(Without(s, e))
<1>1. CASE e \notin ToSet(s)
  BY <1>1 DEF Without
<1>2. CASE e \in ToSet(s)
  <2> DEFINE t == Without(s, e)
  <2>1. DOMAIN s = 1..Len(s) /\ Len(s) \in Nat
    OBVIOUS
  <2>2. PICK k \in 1..Len(s) :
          /\ s[k] = e
          /\ t \in Seq(S) /\ DOMAIN t = 1..Len(s) - 1
          /\ \A i \in 1..k - 1 : t[i] = s[i]
          /\ \A i \in k..Len(s) - 1 : t[i] = s[i + 1]
    <3>1. s \in Seq(S) /\ e \in ToSet(s)
      BY <1>2
    <3> QED BY ONLY <3>1, WithoutEntries
  <2> HIDE DEF t
  <2>3. ToSet(t) = ToSet(s) \ {e}
    <3>1. ASSUME NEW i \in DOMAIN t PROVE t[i] \in ToSet(s) \ {e}
      <4>1. CASE i < k
        <5>1. i \in DOMAIN s /\ t[i] = s[i] /\ i # k
          BY <2>1, <2>2, <4>1
        <5> QED BY <2>1, <2>2, <5>1 DEF ToSet, IsInjective
      <4>2. CASE i >= k
        <5>1. i + 1 \in DOMAIN s /\ t[i] = s[i + 1] /\ i + 1 # k
          BY <2>1, <2>2, <4>2
        <5> QED BY <2>1, <2>2, <5>1 DEF ToSet, IsInjective
      <4> QED BY <2>1, <2>2, <4>1, <4>2
    <3>2. ASSUME NEW i \in DOMAIN s, s[i] # e PROVE s[i] \in ToSet(t)
      <4>1. CASE i < k
        <5>1. i \in DOMAIN t /\ t[i] = s[i]
          BY <2>1, <2>2, <4>1
        <5> QED BY <5>1 DEF ToSet
      <4>2. CASE i > k
        <5>1. i - 1 \in DOMAIN t /\ t[i - 1] = s[i]
          BY <2>1, <2>2, <4>2
        <5> QED BY <5>1 DEF ToSet
      <4> QED BY <2>1, <2>2, <3>2, <4>1, <4>2
    <3> QED BY <3>1, <3>2 DEF ToSet
  <2>4. IsInjective(t)
    <3> SUFFICES ASSUME NEW i \in DOMAIN t, NEW j \in DOMAIN t, t[i] = t[j]
                 PROVE  i = j
      BY DEF IsInjective
    <3> DEFINE old(n) == IF n < k THEN n ELSE n + 1
    <3>1. ASSUME NEW n \in DOMAIN t
          PROVE  old(n) \in DOMAIN s /\ s[old(n)] = t[n]
      <4>1. n \in 1..Len(s) - 1
        BY <2>2
      <4> HIDE DEF t
      <4>2. CASE n < k
        <5>1. n \in 1..k - 1 /\ n \in 1..Len(s)
          BY <2>1, <4>1, <4>2
        <5> QED BY <2>1, <2>2, <4>2, <5>1
      <4>3. CASE ~ (n < k)
        <5>1. n \in k..Len(s) - 1 /\ n + 1 \in 1..Len(s)
          BY <2>1, <4>1, <4>3
        <5> QED BY <2>1, <2>2, <4>3, <5>1
      <4> QED BY <4>2, <4>3
    <3> HIDE DEF old
    <3>2. old(i) = old(j)
      BY <3>1 DEF IsInjective
    <3> QED BY <2>1, <2>2, <3>2 DEF old
  <2> QED BY <2>2, <2>3, <2>4 DEF t
<1> QED BY <1>1, <1>2

(* Whoever else is on a list stays on it.                                  *)
LEMMA WithoutOthers ==
    ASSUME NEW S, NEW s \in Seq(S), NEW e, NEW x \in ToSet(s), x # e
    PROVE  x \in ToSet(Without(s, e))
<1>1. CASE e \notin ToSet(s)
  BY <1>1 DEF Without
<1>2. CASE e \in ToSet(s)
  <2> DEFINE t == Without(s, e)
  <2>1. PICK k \in 1..Len(s) :
          /\ s[k] = e
          /\ t \in Seq(S) /\ DOMAIN t = 1..Len(s) - 1
          /\ \A i \in 1..k - 1 : t[i] = s[i]
          /\ \A i \in k..Len(s) - 1 : t[i] = s[i + 1]
    <3>1. s \in Seq(S) /\ e \in ToSet(s)
      BY <1>2
    <3> QED BY ONLY <3>1, WithoutEntries
  <2> HIDE DEF t
  <2>2. PICK i \in 1..Len(s) : s[i] = x
    BY DEF ToSet
  <2>3. Len(s) \in Nat /\ i # k
    BY <2>1, <2>2
  <2>4. CASE i < k
    <3>1. i \in DOMAIN t /\ t[i] = x
      BY <2>1, <2>2, <2>3, <2>4
    <3> QED BY <3>1 DEF ToSet, t
  <2>5. CASE i > k
    <3>1. i - 1 \in DOMAIN t /\ t[i - 1] = x
      BY <2>1, <2>2, <2>3, <2>5
    <3> QED BY <3>1 DEF ToSet, t
  <2> QED BY <2>3, <2>4, <2>5
<1> QED BY <1>1, <1>2

-----------------------------------------------------------------------------
(* A list behind a list.                                                   *)
LEMMA JoinFacts ==
    ASSUME NEW S, NEW s \in Seq(S), NEW t \in Seq(S)
    PROVE  /\ s \o t \in Seq(S)
           /\ Len(s \o t) = Len(s) + Len(t)
           /\ ToSet(s \o t) = ToSet(s) \cup ToSet(t)
           /\ IsInjective(s \o t) =>
                IsInjective(s) /\ IsInjective(t) /\ ToSet(s) \cap ToSet(t) = {}
<1> DEFINE u == s \o t
<1>1. /\ u \in Seq(S) /\ Len(s) \in Nat /\ Len(t) \in Nat /\ Len(u) = Len(s) + Len(t)
      /\ DOMAIN s = 1..Len(s) /\ DOMAIN t = 1..Len(t) /\ DOMAIN u = 1..Len(s) + Len(t)
      /\ \A i \in 1..Len(s) + Len(t) : u[i] = IF i <= Len(s) THEN s[i] ELSE t[i - Len(s)]
  BY ConcatProperties, LenProperties
<1> HIDE DEF u
<1>2. \A i \in DOMAIN s : i \in DOMAIN u /\ u[i] = s[i]
  BY <1>1
<1>3. ASSUME NEW i \in DOMAIN t PROVE Len(s) + i \in DOMAIN u /\ u[Len(s) + i] = t[i]
  <2>1. Len(s) + i \in 1..Len(s) + Len(t) /\ ~(Len(s) + i <= Len(s)) /\ (Len(s) + i) - Len(s) = i
    BY <1>1
  <2> QED BY <1>1, <2>1
<1>4. ASSUME NEW i \in DOMAIN u
      PROVE  \/ i \in DOMAIN s /\ u[i] = s[i]
             \/ i - Len(s) \in DOMAIN t /\ u[i] = t[i - Len(s)]
  BY <1>1
<1>5. ToSet(u) = ToSet(s) \cup ToSet(t)
  <2>1. \A i \in DOMAIN u : u[i] \in ToSet(s) \cup ToSet(t)
    BY <1>4 DEF ToSet
  <2>2. \A i \in DOMAIN s : s[i] \in ToSet(u)
    BY <1>2 DEF ToSet
  <2>3. \A i \in DOMAIN t : t[i] \in ToSet(u)
    BY <1>3 DEF ToSet
  <2> QED BY <2>1, <2>2, <2>3 DEF ToSet
<1>6. ASSUME IsInjective(u)
      PROVE  IsInjective(s) /\ IsInjective(t) /\ ToSet(s) \cap ToSet(t) = {}
  <2>1. IsInjective(s)
    BY <1>2, <1>6 DEF IsInjective
  <2>2. IsInjective(t)
    <3> SUFFICES ASSUME NEW i \in DOMAIN t, NEW j \in DOMAIN t, t[i] = t[j] PROVE i = j
      BY DEF IsInjective
    <3>1. Len(s) + i = Len(s) + j
      BY <1>3, <1>6 DEF IsInjective
    <3> QED BY <1>1, <3>1
  <2>3. ASSUME NEW i \in DOMAIN s, NEW j \in DOMAIN t PROVE s[i] # t[j]
    <3>1. i # Len(s) + j
      BY <1>1
    <3> QED BY <1>2, <1>3, <1>6, <3>1 DEF IsInjective
  <2> QED BY <2>1, <2>2, <2>3 DEF ToSet
<1> QED BY <1>1, <1>5, <1>6 DEF u

LEMMA JoinInjective ==
    ASSUME NEW S, NEW s \in Seq(S), NEW t \in Seq(S),
           IsInjective(s), IsInjective(t), ToSet(s) \cap ToSet(t) = {}
    PROVE  IsInjective(s \o t)
<1> DEFINE u == s \o t
<1>1. /\ Len(s) \in Nat /\ Len(t) \in Nat
      /\ DOMAIN s = 1..Len(s) /\ DOMAIN t = 1..Len(t) /\ DOMAIN u = 1..Len(s) + Len(t)
      /\ \A i \in 1..Len(s) + Len(t) : u[i] = IF i <= Len(s) THEN s[i] ELSE t[i - Len(s)]
  BY ConcatProperties, LenProperties
<1> HIDE DEF u
<1>2. ASSUME NEW i \in DOMAIN u
      PROVE  IF i <= Len(s) THEN i \in DOMAIN s /\ u[i] = s[i] /\ u[i] \in ToSet(s)
                            ELSE i - Len(s) \in DOMAIN t /\ u[i] = t[i - Len(s)] /\ u[i] \in ToSet(t)
  BY <1>1 DEF ToSet
<1> SUFFICES ASSUME NEW i \in DOMAIN u, NEW j \in DOMAIN u, u[i] = u[j]
             PROVE  i = j
  BY DEF IsInjective, u
<1>3. CASE i <= Len(s) /\ j <= Len(s)
  BY <1>2, <1>3 DEF IsInjective
<1>4. CASE ~(i <= Len(s)) /\ ~(j <= Len(s))
  <2>1. i - Len(s) = j - Len(s)
    BY <1>2, <1>4 DEF IsInjective
  <2> QED BY <1>1, <2>1
<1>5. CASE (i <= Len(s)) # (j <= Len(s))
  BY <1>2, <1>5
<1> QED BY <1>3, <1>4, <1>5

LEMMA JoinAppend ==
    ASSUME NEW S, NEW s \in Seq(S), NEW t \in Seq(S), NEW e \in S
    PROVE  s \o Append(t, e) = Append(s \o t, e)
<1>1. Append(t, e) = t \o <<e>> /\ s \o t \in Seq(S) /\ <<e>> \in Seq(S)
  BY AppendIsConcat, ConcatProperties
<1>2. Append(s \o t, e) = (s \o t) \o <<e>>
  BY <1>1, AppendIsConcat
<1>3. (s \o t) \o <<e>> = s \o (t \o <<e>>)
  BY <1>1, ConcatAssociative
<1> QED BY <1>1, <1>2, <1>3

LEMMA JoinTail ==
    ASSUME NEW S, NEW s \in Seq(S), NEW t \in Seq(S), s # <<>>
    PROVE  s \o t # <<>> /\ Head(s \o t) = Head(s) /\ Tail(s \o t) = Tail(s) \o t
<1>1. /\ s \o t \in Seq(S) /\ Len(s) \in Nat \ {0} /\ Len(t) \in Nat
      /\ Len(s \o t) = Len(s) + Len(t)
      /\ \A i \in 1..Len(s) + Len(t) : (s \o t)[i] = IF i <= Len(s) THEN s[i] ELSE t[i - Len(s)]
  BY ConcatProperties, EmptySeq, LenProperties
<1>2. s \o t # <<>>
  BY <1>1, EmptySeq
<1>3. Head(s \o t) = Head(s)
  <2>1. Head(s \o t) = (s \o t)[1] /\ Head(s) = s[1]
    BY <1>1, <1>2
  <2> QED BY <1>1, <2>1
<1>4. /\ Tail(s \o t) \in Seq(S) /\ Len(Tail(s \o t)) = Len(s) + Len(t) - 1
      /\ \A i \in 1..Len(s) + Len(t) - 1 : Tail(s \o t)[i] = (s \o t)[i + 1]
  BY <1>1, <1>2, HeadTailProperties
<1>5. /\ Tail(s) \in Seq(S) /\ Len(Tail(s)) = Len(s) - 1
      /\ \A i \in 1..Len(s) - 1 : Tail(s)[i] = s[i + 1]
  BY HeadTailProperties
<1>6. /\ Tail(s) \o t \in Seq(S) /\ Len(Tail(s) \o t) = Len(s) - 1 + Len(t)
      /\ \A i \in 1..Len(s) - 1 + Len(t) :
            (Tail(s) \o t)[i] = IF i <= Len(s) - 1 THEN Tail(s)[i] ELSE t[i - (Len(s) - 1)]
  BY <1>5, ConcatProperties
<1>7. ASSUME NEW i \in 1..Len(s) + Len(t) - 1 PROVE Tail(s \o t)[i] = (Tail(s) \o t)[i]
  <2>1. /\ i \in 1..Len(s) - 1 + Len(t) /\ i + 1 \in 1..Len(s) + Len(t)
        /\ i <= Len(s) - 1 <=> i + 1 <= Len(s)
        /\ i - (Len(s) - 1) = (i + 1) - Len(s)
    BY <1>1
  <2>2. CASE i <= Len(s) - 1
    <3>1. i \in 1..Len(s) - 1
      BY <1>1, <2>2
    <3> QED BY <1>1, <1>4, <1>5, <1>6, <2>1, <2>2, <3>1
  <2>3. CASE ~(i <= Len(s) - 1)
    BY <1>1, <1>4, <1>6, <2>1, <2>3
  <2> QED BY <2>2, <2>3
<1>8. Tail(s \o t) = Tail(s) \o t
  <2>1. Len(Tail(s \o t)) = Len(Tail(s) \o t)
    BY <1>1, <1>4, <1>6
  <2> QED BY <1>4, <1>6, <1>7, <2>1, SeqEqual
<1> QED BY <1>2, <1>3, <1>8

(* The first of the second list moves to the end of the first.             *)
LEMMA JoinShift ==
    ASSUME NEW S, NEW s \in Seq(S), NEW t \in Seq(S), t # <<>>
    PROVE  Append(s, Head(t)) \o Tail(t) = s \o t
<1>1. Head(t) \in S /\ Tail(t) \in Seq(S) /\ <<Head(t)>> \in Seq(S)
  BY HeadTailProperties
<1>2. t = <<Head(t)>> \o Tail(t)
  <2>1. /\ Len(t) \in Nat \ {0} /\ Len(Tail(t)) = Len(t) - 1 /\ Head(t) = t[1]
        /\ \A i \in 1..Len(t) - 1 : Tail(t)[i] = t[i + 1]
    BY HeadTailProperties, EmptySeq
  <2> DEFINE u == <<Head(t)>> \o Tail(t)
  <2>2. /\ u \in Seq(S) /\ Len(u) = 1 + Len(Tail(t))
        /\ \A i \in 1..1 + Len(Tail(t)) : u[i] = IF i <= 1 THEN <<Head(t)>>[i] ELSE Tail(t)[i - 1]
    BY <1>1, ConcatProperties
  <2> HIDE DEF u
  <2>3. ASSUME NEW i \in 1..Len(t) PROVE t[i] = u[i]
    <3>1. CASE i = 1
      BY <2>1, <2>2, <3>1
    <3>2. CASE i # 1
      <4>1. i - 1 \in 1..Len(t) - 1 /\ i - 1 + 1 = i /\ ~(i <= 1)
        BY <2>1, <3>2
      <4> QED BY <2>1, <2>2, <4>1
    <3> QED BY <3>1, <3>2
  <2>4. Len(t) = Len(u)
    BY <2>1, <2>2
  <2> QED BY <2>2, <2>3, <2>4, SeqEqual DEF u
<1>3. Append(s, Head(t)) = s \o <<Head(t)>>
  BY <1>1, AppendIsConcat
<1>4. (s \o <<Head(t)>>) \o Tail(t) = s \o (<<Head(t)>> \o Tail(t))
  BY <1>1, ConcatAssociative
<1> QED BY <1>2, <1>3, <1>4

(* Who leaves the second list leaves the whole.                            *)
LEMMA JoinWithout ==
    ASSUME NEW S, NEW s \in Seq(S), NEW t \in Seq(S), NEW e \in ToSet(t)
    PROVE  \E i \in DOMAIN (s \o t) : /\ i > Len(s) /\ (s \o t)[i] = e
                                      /\ s \o Without(t, e) = RemoveAt(s \o t, i)
<1> DEFINE k == CHOOSE i \in DOMAIN t : t[i] = e
           n == Len(s)
           l == Len(t)
           u == s \o t
<1>1. k \in 1..l /\ l \in Nat /\ n \in Nat /\ t[k] = e
  BY DEF ToSet
<1>2. Without(t, e) = SubSeq(t, 1, k - 1) \o SubSeq(t, k + 1, l)
  BY DEF Without, RemoveAt
<1> HIDE DEF k
<1>3. u \in Seq(S) /\ Len(u) = n + l /\ DOMAIN u = 1..n + l
  BY ConcatProperties, LenProperties
<1>4. SubSeq(t, 1, k - 1) \in Seq(S) /\ SubSeq(t, k + 1, l) \in Seq(S)
  BY <1>1
<1>5. \A i, j \in n + 1..n + l : SubSeq(u, i, j) = SubSeq(t, i - n, j - n)
  BY SubSeqOfConcat2
<1>6. SubSeq(u, 1, n) = s
  <2>1. CASE n = 0
    <3>1. s = <<>>
      BY <2>1, EmptySeq
    <3>2. SubSeq(u, 1, 0) = <<>>
      BY SubSeqEmpty
    <3> QED BY <2>1, <3>1, <3>2
  <2>2. CASE n # 0
    <3>1. SubSeq(u, 1, n) = SubSeq(s, 1, n)
      BY <1>1, <2>2, SubSeqOfConcat1
    <3> QED BY <3>1, SubSeqFull
  <2> QED BY <2>1, <2>2
<1> HIDE DEF n, l, u
<1>7. SubSeq(u, n + k + 1, n + l) = SubSeq(t, k + 1, l)
  <2>1. CASE k = l
    <3>1. SubSeq(u, n + k + 1, n + l) = <<>>
      BY <1>1, <2>1, SubSeqEmpty
    <3>2. SubSeq(t, k + 1, l) = <<>>
      BY <1>1, <2>1, SubSeqEmpty
    <3> QED BY <3>1, <3>2
  <2>2. CASE k # l
    <3>1. /\ n + k + 1 \in n + 1..n + l /\ n + l \in n + 1..n + l
          /\ (n + k + 1) - n = k + 1 /\ (n + l) - n = l
      BY <1>1, <2>2
    <3> QED BY <1>5, <3>1
  <2> QED BY <2>1, <2>2
<1>8. SubSeq(u, 1, n + k - 1) = s \o SubSeq(t, 1, k - 1)
  <2>1. CASE k = 1
    <3>1. SubSeq(t, 1, k - 1) = <<>> /\ n + k - 1 = n
      BY <1>1, <2>1, SubSeqEmpty
    <3> QED BY <1>6, <3>1, ConcatEmptySeq
  <2>2. CASE k # 1
    <3>1. /\ n + 1 \in n + 1..n + l /\ n + k - 1 \in n + 1..n + l
          /\ (n + 1) - n = 1 /\ (n + k - 1) - n = k - 1
          /\ 1 \in 1..Len(u) + 1 /\ n \in 1 - 1..Len(u) /\ n + k - 1 \in n..Len(u)
      BY <1>1, <1>3, <2>2
    <3>2. SubSeq(u, n + 1, n + k - 1) = SubSeq(t, 1, k - 1)
      BY <1>5, <3>1
    <3>3. SubSeq(u, 1, n) \o SubSeq(u, n + 1, n + k - 1) = SubSeq(u, 1, n + k - 1)
      BY <1>3, <3>1, ConcatAdjacentSubSeq
    <3> QED BY <1>6, <3>2, <3>3
  <2> QED BY <2>1, <2>2
<1>9. RemoveAt(u, n + k) = s \o Without(t, e)
  <2> DEFINE a == SubSeq(t, 1, k - 1)
             b == SubSeq(t, k + 1, l)
  <2>1. RemoveAt(u, n + k) = SubSeq(u, 1, (n + k) - 1) \o SubSeq(u, n + k + 1, n + l)
    BY <1>3 DEF RemoveAt
  <2>2. SubSeq(u, 1, n + k - 1) = s \o a /\ SubSeq(u, n + k + 1, n + l) = b
    BY <1>7, <1>8
  <2>3. Without(t, e) = a \o b /\ a \in Seq(S) /\ b \in Seq(S)
    BY <1>2, <1>4
  <2> HIDE DEF a, b
  <2>4. (n + k) - 1 = n + k - 1
    BY <1>1
  <2>5. (s \o a) \o b = s \o (a \o b)
    BY <2>3, ConcatAssociative
  <2> QED BY <2>1, <2>2, <2>3, <2>4, <2>5
<1>10. n + k \in DOMAIN u /\ n + k > n
  BY <1>1, <1>3
<1>11. u[n + k] = e
  <2>1. n + k \in 1..n + l /\ ~(n + k <= n) /\ (n + k) - n = k
    BY <1>1
  <2>2. \A i \in 1..n + l : u[i] = IF i <= n THEN s[i] ELSE t[i - n]
    BY ConcatProperties DEF u, n, l
  <2> QED BY <1>1, <2>1, <2>2
<1> QED BY <1>9, <1>10, <1>11 DEF n, u

LEMMA JoinWithoutOnce ==
    ASSUME NEW S, NEW s \in Seq(S), NEW t \in Seq(S), NEW e \in ToSet(t), IsInjective(s \o t)
    PROVE  Without(s \o t, e) = s \o Without(t, e)
<1> DEFINE u == s \o t
<1>1. PICK i \in DOMAIN u : u[i] = e /\ s \o Without(t, e) = RemoveAt(u, i)
  BY JoinWithout
<1>2. e \in ToSet(u) /\ (CHOOSE j \in DOMAIN u : u[j] = e) = i
  BY <1>1 DEF ToSet, IsInjective
<1> QED BY <1>1, <1>2 DEF Without

-----------------------------------------------------------------------------
(* The trees of OrdMap.                                                    *)

Map == INSTANCE OrdMapFunctions

(* The fields of a node...                                                 *)
LEMMA NodeFields ==
    ASSUME NEW n, NEW k, NEW v, NEW l, NEW r
    PROVE  /\ Map!Bin(n, k, v, l, r).size = n
           /\ Map!Bin(n, k, v, l, r).key = k
           /\ Map!Bin(n, k, v, l, r).value = v
           /\ Map!Bin(n, k, v, l, r).lhs = l
           /\ Map!Bin(n, k, v, l, r).rhs = r
BY DEF Map!Bin

(* ... and of the empty tree,                                              *)
LEMMA EmptyFields == Map!Empty.size = 0
BY DEF Map!Empty

(* What a tree that is not empty is made of.                               *)
LEMMA Parts ==
    ASSUME NEW K, NEW V, NEW X, NEW entries, Map!SearchTrees(K, V, X, entries), NEW t \in V
    PROVE  /\ t.size \in Nat
           /\ Map!IsEmpty(t) <=> t = Map!Empty
           /\ t.size = 0 <=> t = Map!Empty
           /\ t # Map!Empty =>
                /\ t.key \in K /\ t.value \in X /\ t.lhs \in V /\ t.rhs \in V
                /\ t.lhs.size \in Nat /\ t.rhs.size \in Nat
                /\ t.size = 1 + t.lhs.size + t.rhs.size
                /\ t = Map!MkBin(t.key, t.value, t.lhs, t.rhs)
                /\ Map!Balanced(t.lhs.size, t.rhs.size)
                /\ Map!Below(entries[t.lhs], t.key) /\ Map!Above(entries[t.rhs], t.key)
                /\ entries[t] = entries[t.lhs] \cup {<<t.key, t.value>>} \cup entries[t.rhs]
<1>1. t.size \in Nat
  BY DEF Map!SearchTrees
<1>2. CASE t = Map!Empty
  BY <1>2, EmptyFields DEF Map!IsEmpty
<1>3. CASE t # Map!Empty
  <2>1. PICK k \in K, x \in X, l \in V, r \in V :
          /\ t = Map!MkBin(k, x, l, r)
          /\ Map!Balanced(l.size, r.size) /\ Map!Below(entries[l], k) /\ Map!Above(entries[r], k)
    BY <1>3 DEF Map!SearchTrees
  <2>2. /\ t.size = 1 + l.size + r.size
        /\ t.key = k /\ t.value = x /\ t.lhs = l /\ t.rhs = r
    BY <2>1, NodeFields DEF Map!MkBin
  <2>3. l.size \in Nat /\ r.size \in Nat
    BY DEF Map!SearchTrees
  <2>4. entries[t] = entries[l] \cup {<<k, x>>} \cup entries[r]
    BY <2>1 DEF Map!SearchTrees
  <2> QED BY <1>3, <2>1, <2>2, <2>3, <2>4 DEF Map!IsEmpty
<1> QED BY <1>1, <1>2, <1>3

(* ... which is the only one of size 0.                                    *)
LEMMA EmptyOnly ==
    ASSUME NEW K, NEW V, NEW X, NEW entries, Map!SearchTrees(K, V, X, entries), NEW t \in V, t.size = 0
    PROVE  t = Map!Empty
BY Parts

(* A node over two trees that fit.                                         *)
LEMMA Joined ==
    ASSUME NEW K, NEW V, NEW X, NEW entries, Map!SearchTrees(K, V, X, entries),
           NEW k \in K, NEW x \in X, NEW l, NEW r, NEW m, NEW n, NEW A, NEW B,
           Map!Holds(V, entries, l, m, A), Map!Holds(V, entries, r, n, B),
           Map!Balanced(m, n), Map!Below(A, k), Map!Above(B, k)
    PROVE  Map!Holds(V, entries, Map!MkBin(k, x, l, r), 1 + m + n, A \cup {<<k, x>>} \cup B)
<1>1. l \in V /\ r \in V /\ m = l.size /\ n = r.size /\ A = entries[l] /\ B = entries[r]
  BY DEF Map!Holds
<1>2. Map!MkBin(k, x, l, r).size = 1 + l.size + r.size
  BY NodeFields DEF Map!MkBin
<1>3. /\ Map!MkBin(k, x, l, r) \in V
      /\ entries[Map!MkBin(k, x, l, r)] = entries[l] \cup {<<k, x>>} \cup entries[r]
  BY <1>1 DEF Map!SearchTrees
<1> QED BY <1>1, <1>2, <1>3 DEF Map!Holds

(* The keys of a tree below k, of those of its parts.                      *)
LEMMA BelowParts ==
    ASSUME NEW K, NEW V, NEW X, NEW entries, Map!SearchTrees(K, V, X, entries),
           NEW t \in V, t # Map!Empty, NEW k \in K
    PROVE  Map!Below(entries[t], k) <=>
              t.key < k /\ Map!Below(entries[t.lhs], k) /\ Map!Below(entries[t.rhs], k)
<1>1. entries[t] = entries[t.lhs] \cup {<<t.key, t.value>>} \cup entries[t.rhs]
  BY Parts
<1>2. <<t.key, t.value>>[1] = t.key
  OBVIOUS
<1> QED BY <1>1, <1>2 DEF Map!Below

(* The same of those above k.                                              *)
LEMMA AboveParts ==
    ASSUME NEW K, NEW V, NEW X, NEW entries, Map!SearchTrees(K, V, X, entries),
           NEW t \in V, t # Map!Empty, NEW k \in K
    PROVE  Map!Above(entries[t], k) <=>
              k < t.key /\ Map!Above(entries[t.lhs], k) /\ Map!Above(entries[t.rhs], k)
<1>1. entries[t] = entries[t.lhs] \cup {<<t.key, t.value>>} \cup entries[t.rhs]
  BY Parts
<1>2. <<t.key, t.value>>[1] = t.key
  OBVIOUS
<1> QED BY <1>1, <1>2 DEF Map!Above

(* A bound further out.                                                    *)
LEMMA FurtherOut ==
    ASSUME NEW K, NEW V, NEW X, NEW entries, Map!SearchTrees(K, V, X, entries),
           NEW t \in V, NEW k \in K, NEW j \in K, j < k
    PROVE  /\ Map!Below(entries[t], j) => Map!Below(entries[t], k)
           /\ Map!Above(entries[t], k) => Map!Above(entries[t], j)
<1>1. k \in Nat /\ j \in Nat /\ \A e \in entries[t] : e[1] \in Nat
  <2>1. K \subseteq Nat /\ entries[t] \subseteq K \X X
    BY DEF Map!SearchTrees
  <2> QED BY <2>1
<1> QED BY <1>1 DEF Map!Below, Map!Above

(* The keys of a new node, and of those of its parts.                      *)
LEMMA BelowNode ==
    ASSUME NEW A, NEW B, NEW j, NEW x, NEW k, Map!Below(A, k), Map!Below(B, k), j < k
    PROVE  Map!Below(A \cup {<<j, x>>} \cup B, k)
<1>1. <<j, x>>[1] = j
  OBVIOUS
<1> QED BY <1>1 DEF Map!Below

(* The same of a bound below them.                                         *)
LEMMA AboveNode ==
    ASSUME NEW A, NEW B, NEW j, NEW x, NEW k, Map!Above(A, k), Map!Above(B, k), k < j
    PROVE  Map!Above(A \cup {<<j, x>>} \cup B, k)
<1>1. <<j, x>>[1] = j
  OBVIOUS
<1> QED BY <1>1 DEF Map!Above

(* To be balanced is a matter of two trees.                                *)
LEMMA BothWays ==
    ASSUME NEW m \in Nat, NEW n \in Nat, Map!Balanced(m, n)
    PROVE  Map!Balanced(n, m)
BY DEF Map!Balanced, Map!Delta

(* The sizes at a double rotation: m of the heavy tree, a and b of its     *)
(* parts, c and d of those of the inner one, and n of its sibling.         *)
IsHeavyInside(a, b, c, d, m, n) ==
    /\ a \in Nat /\ b \in Nat /\ c \in Nat /\ d \in Nat /\ m \in Nat /\ n \in Nat
    /\ m = 1 + a + b /\ b = 1 + c + d
    /\ Map!Balanced(a, b) /\ Map!Balanced(c, d)
    /\ ~ (b < Map!Ratio * a)
    /\ ~ ((m <= 1 /\ n = 0) \/ m <= Map!Delta * n)
    /\ m <= Map!Delta * n + 3 \/ 3 * m <= 13 * n + 3

(* Its three nodes are balanced: what Delta = 3 and Ratio = 2 are for.     *)
LEMMA DoubleRotation ==
    ASSUME NEW a, NEW b, NEW c, NEW d, NEW m, NEW n, IsHeavyInside(a, b, c, d, m, n)
    PROVE  /\ Map!Balanced(a, c) /\ Map!Balanced(d, n) /\ Map!Balanced(1 + a + c, 1 + d + n)
           /\ Map!Balanced(c, a) /\ Map!Balanced(n, d) /\ Map!Balanced(1 + n + d, 1 + c + a)
<1> USE DEF IsHeavyInside
<1>1. Map!Balanced(a, c) /\ Map!Balanced(c, a)
  BY DEF Map!Balanced, Map!Delta, Map!Ratio
<1>2. Map!Balanced(d, n) /\ Map!Balanced(n, d)
  BY DEF Map!Balanced, Map!Delta, Map!Ratio
<1>3. Map!Balanced(1 + a + c, 1 + d + n) /\ Map!Balanced(1 + n + d, 1 + c + a)
  <2>1. 1 + d + n <= 3 * (1 + a + c) /\ 1 + a + c <= 3 * (1 + d + n)
    BY DEF Map!Balanced, Map!Delta, Map!Ratio
  <2> QED BY <2>1 DEF Map!Balanced, Map!Delta
<1> QED BY <1>1, <1>2, <1>3

(* A balanced search tree results from _balanceL of a key and two trees    *)
(* that are too far apart on the left, by what one insertion or removal    *)
(* does or by what _link does: with all the entries, the size that is      *)
(* their number, and every node balanced. It is what Delta = 3 and Ratio = *)
(* 2 are for.                                                              *)
THEOREM BalanceLRestores ==
    ASSUME NEW K, NEW V, NEW X, NEW entries, Map!SearchTrees(K, V, X, entries),
           NEW k \in K, NEW x \in X, NEW l, NEW r, NEW m, NEW n, NEW A, NEW B,
           Map!Holds(V, entries, l, m, A), Map!Holds(V, entries, r, n, B),
           Map!Below(A, k), Map!Above(B, k),
           n <= Map!Delta * m \/ m + n <= 1,
           m <= Map!Delta * n + 3 \/ 3 * m <= 13 * n + 3
    PROVE  Map!Holds(V, entries, Map!BalanceL(k, x, l, r), 1 + m + n, A \cup {<<k, x>>} \cup B)
<1> DEFINE T(t, i, S) == Map!Holds(V, entries, t, i, S)
           C == A \cup {<<k, x>>} \cup B
           ll == l.lhs
           lr == l.rhs
           a == ll.size
           b == lr.size
           heavy == ~ ((m <= 1 /\ n = 0) \/ m <= Map!Delta * n)
<1>1. l \in V /\ r \in V /\ m = l.size /\ n = r.size /\ A = entries[l] /\ B = entries[r]
  BY DEF Map!Holds
<1>2. m \in Nat /\ n \in Nat
  BY <1>1, Parts
<1>3. CASE ~ heavy
  <2>1. Map!Balanced(m, n)
    BY <1>2, <1>3 DEF Map!Balanced, Map!Delta
  <2>2. T(Map!MkBin(k, x, l, r), 1 + m + n, C)
    BY <2>1, Joined
  <2>3. Map!BalanceL(k, x, l, r) = Map!MkBin(k, x, l, r)
    BY <1>1, <1>3 DEF Map!BalanceL
  <2> QED BY <2>2, <2>3
<1>4. ASSUME heavy
      PROVE  /\ l.key \in K /\ l.value \in X
             /\ a \in Nat /\ b \in Nat /\ m = 1 + a + b
             /\ T(ll, a, entries[ll]) /\ T(lr, b, entries[lr]) /\ ll \in V /\ lr \in V
             /\ Map!Balanced(a, b)
             /\ Map!Below(entries[ll], l.key) /\ Map!Above(entries[lr], l.key)
             /\ A = entries[ll] \cup {<<l.key, l.value>>} \cup entries[lr]
             /\ l.key < k
             /\ Map!Below(entries[ll], k) /\ Map!Below(entries[lr], k)
             /\ Map!Above(B, l.key)
  <2>1. l # Map!Empty
    BY <1>1, <1>2, <1>4, EmptyFields DEF Map!Delta
  <2>2. /\ l.key \in K /\ l.value \in X /\ ll \in V /\ lr \in V
        /\ a \in Nat /\ b \in Nat /\ m = 1 + a + b
        /\ Map!Balanced(a, b)
        /\ Map!Below(entries[ll], l.key) /\ Map!Above(entries[lr], l.key)
        /\ A = entries[ll] \cup {<<l.key, l.value>>} \cup entries[lr]
    BY <1>1, <2>1, Parts
  <2>3. /\ l.key < k
        /\ Map!Below(entries[ll], k) /\ Map!Below(entries[lr], k)
    BY <1>1, <2>1, BelowParts
  <2>4. Map!Above(B, l.key)
    BY <1>1, <2>2, <2>3, FurtherOut
  <2> QED BY <2>2, <2>3, <2>4 DEF Map!Holds
<1>5. CASE heavy /\ b < Map!Ratio * a
  <2> DEFINE u == Map!MkBin(k, x, lr, r)
             U == entries[lr] \cup {<<k, x>>} \cup B
  <2>1. Map!Balanced(b, n) /\ Map!Balanced(a, 1 + b + n)
    BY <1>2, <1>4, <1>5 DEF Map!Balanced, Map!Delta, Map!Ratio
  <2>2. T(u, 1 + b + n, U)
    BY <1>4, <1>5, <2>1, Joined
  <2>3. Map!Above(U, l.key)
    BY <1>4, <1>5, AboveNode
  <2> HIDE DEF u, U
  <2>4. T(Map!MkBin(l.key, l.value, ll, u), 1 + a + (1 + b + n),
          entries[ll] \cup {<<l.key, l.value>>} \cup U)
    BY <1>4, <1>5, <2>1, <2>2, <2>3, Joined
  <2>5. 1 + a + (1 + b + n) = 1 + m + n
    BY <1>2, <1>4, <1>5
  <2>6. entries[ll] \cup {<<l.key, l.value>>} \cup U = C
    BY <1>4, <1>5 DEF U
  <2>7. Map!BalanceL(k, x, l, r) = Map!MkBin(l.key, l.value, ll, u)
    <3>1. ~ (n = 0 /\ a = 0)
      BY <1>2, <1>4, <1>5 DEF Map!Ratio
    <3> QED BY <1>1, <1>5, <3>1 DEF Map!BalanceL, u
  <2> QED BY <2>4, <2>5, <2>6, <2>7
<1>6. CASE heavy /\ ~ (b < Map!Ratio * a)
  <2> DEFINE lrl == lr.lhs
             lrr == lr.rhs
             c == lrl.size
             d == lrr.size
             u == Map!MkBin(l.key, l.value, ll, lrl)
             U == entries[ll] \cup {<<l.key, l.value>>} \cup entries[lrl]
             w == Map!MkBin(k, x, lrr, r)
             W == entries[lrr] \cup {<<k, x>>} \cup B
  <2>1. lr # Map!Empty
    BY <1>2, <1>4, <1>6, EmptyFields DEF Map!Balanced, Map!Delta, Map!Ratio
  <2>2. /\ lr.key \in K /\ lr.value \in X /\ lrl \in V /\ lrr \in V
        /\ c \in Nat /\ d \in Nat /\ b = 1 + c + d
        /\ Map!Balanced(c, d)
        /\ Map!Below(entries[lrl], lr.key) /\ Map!Above(entries[lrr], lr.key)
        /\ entries[lr] = entries[lrl] \cup {<<lr.key, lr.value>>} \cup entries[lrr]
    <3>1. lr \in V
      BY <1>4, <1>6
    <3> QED BY <2>1, <3>1, Parts
  <2>3. T(lrl, c, entries[lrl]) /\ T(lrr, d, entries[lrr])
    BY <2>2 DEF Map!Holds
  <2>4. lr.key < k /\ Map!Below(entries[lrr], k)
    BY <1>4, <1>6, <2>1, BelowParts
  <2>5. l.key < lr.key /\ Map!Above(entries[lrl], l.key)
    BY <1>4, <1>6, <2>1, AboveParts
  <2>6. Map!Below(entries[ll], lr.key) /\ Map!Above(B, lr.key)
    <3>1. Map!Below(entries[ll], lr.key)
      <4>1. ll \in V /\ l.key \in K /\ Map!Below(entries[ll], l.key)
        BY <1>4, <1>6
      <4> QED BY <2>2, <2>5, <4>1, FurtherOut
    <3>2. Map!Above(B, lr.key)
      BY <1>1, <2>2, <2>4, FurtherOut
    <3> QED BY <3>1, <3>2
  <2>7. Map!Balanced(a, c) /\ Map!Balanced(d, n) /\ Map!Balanced(1 + a + c, 1 + d + n)
    <3>1. IsHeavyInside(a, b, c, d, m, n)
      BY <1>2, <1>4, <1>6, <2>2 DEF IsHeavyInside
    <3> QED BY <3>1, DoubleRotation
  <2>8. T(u, 1 + a + c, U)
    BY <1>4, <1>6, <2>3, <2>5, <2>7, Joined
  <2>9. T(w, 1 + d + n, W)
    BY <2>3, <2>4, <2>7, Joined
  <2>10. Map!Below(U, lr.key)
    BY <1>4, <1>6, <2>2, <2>5, <2>6, BelowNode
  <2>11. Map!Above(W, lr.key)
    BY <2>2, <2>4, <2>6, AboveNode
  <2> HIDE DEF u, w, U, W
  <2>12. T(Map!MkBin(lr.key, lr.value, u, w), 1 + (1 + a + c) + (1 + d + n),
           U \cup {<<lr.key, lr.value>>} \cup W)
    <3> DEFINE p == 1 + a + c
               q == 1 + d + n
               z == lr.key
    <3>1. T(u, p, U) /\ T(w, q, W) /\ Map!Balanced(p, q)
      BY <2>7, <2>8, <2>9
    <3>2. z \in K /\ lr.value \in X /\ Map!Below(U, z) /\ Map!Above(W, z)
      BY <2>2, <2>10, <2>11
    <3> HIDE DEF p, q, z
    <3>3. T(Map!MkBin(z, lr.value, u, w), 1 + p + q, U \cup {<<z, lr.value>>} \cup W)
      BY <3>1, <3>2, Joined
    <3> QED BY <3>3 DEF p, q, z
  <2>13. 1 + (1 + a + c) + (1 + d + n) = 1 + m + n
    <3>1. /\ a \in Nat /\ b \in Nat /\ c \in Nat /\ d \in Nat
          /\ m = 1 + a + b /\ b = 1 + c + d
      BY <1>4, <1>6, <2>2
    <3> HIDE DEF a, b, c, d
    <3> QED BY <1>2, <3>1
  <2>14. U \cup {<<lr.key, lr.value>>} \cup W = C
    BY <1>4, <1>6, <2>2 DEF U, W
  <2>15. Map!BalanceL(k, x, l, r) = Map!MkBin(lr.key, lr.value, u, w)
    <3>1. CASE ~ (n = 0 /\ a = 0)
      BY <1>1, <1>6, <3>1 DEF Map!BalanceL, u, w
    <3>2. CASE n = 0 /\ a = 0
      <4>1. c = 0 /\ d = 0
        <5>1. a = 0 /\ b = 1 + c + d /\ c \in Nat /\ d \in Nat /\ Map!Balanced(a, b)
          BY <1>4, <1>6, <2>2, <3>2
        <5> HIDE DEF a, b, c, d
        <5> QED BY <5>1 DEF Map!Balanced, Map!Delta
      <4>2. /\ ll \in V /\ lrl \in V /\ lrr \in V /\ r \in V
            /\ ll.size = 0 /\ lrl.size = 0 /\ lrr.size = 0 /\ r.size = 0
        BY <1>1, <1>4, <1>6, <2>2, <3>2, <4>1
      <4>3. ll = Map!Empty /\ lrl = Map!Empty /\ lrr = Map!Empty /\ r = Map!Empty
        BY <4>2, EmptyOnly
      <4>4. u = Map!Leaf(l.key, l.value) /\ w = Map!Leaf(k, x)
        BY <4>3, EmptyFields DEF u, w, Map!Leaf, Map!MkBin
      <4>5. u.size = 1 /\ w.size = 1
        BY <4>4, NodeFields DEF Map!Leaf
      <4>6. Map!MkBin(lr.key, lr.value, u, w) = Map!Bin(3, lr.key, lr.value, u, w)
        BY <4>5 DEF Map!MkBin
      <4> QED BY <1>1, <1>6, <3>2, <4>4, <4>6 DEF Map!BalanceL
    <3> QED BY <3>1, <3>2
  <2> QED BY <2>12, <2>13, <2>14, <2>15
<1> QED BY <1>3, <1>5, <1>6

(* The same of _balanceR, with the right tree too large for the left one.  *)
THEOREM BalanceRRestores ==
    ASSUME NEW K, NEW V, NEW X, NEW entries, Map!SearchTrees(K, V, X, entries),
           NEW k \in K, NEW x \in X, NEW l, NEW r, NEW m, NEW n, NEW A, NEW B,
           Map!Holds(V, entries, l, m, A), Map!Holds(V, entries, r, n, B),
           Map!Below(A, k), Map!Above(B, k),
           m <= Map!Delta * n \/ m + n <= 1,
           n <= Map!Delta * m + 3 \/ 3 * n <= 13 * m + 3
    PROVE  Map!Holds(V, entries, Map!BalanceR(k, x, l, r), 1 + m + n, A \cup {<<k, x>>} \cup B)
<1> DEFINE T(t, i, S) == Map!Holds(V, entries, t, i, S)
           C == A \cup {<<k, x>>} \cup B
           rr == r.rhs
           rl == r.lhs
           a == rr.size
           b == rl.size
           heavy == ~ ((n <= 1 /\ m = 0) \/ n <= Map!Delta * m)
<1>1. l \in V /\ r \in V /\ m = l.size /\ n = r.size /\ A = entries[l] /\ B = entries[r]
  BY DEF Map!Holds
<1>2. m \in Nat /\ n \in Nat
  BY <1>1, Parts
<1>3. CASE ~ heavy
  <2>1. Map!Balanced(m, n)
    BY <1>2, <1>3 DEF Map!Balanced, Map!Delta
  <2>2. T(Map!MkBin(k, x, l, r), 1 + m + n, C)
    BY <2>1, Joined
  <2>3. Map!BalanceR(k, x, l, r) = Map!MkBin(k, x, l, r)
    BY <1>1, <1>3 DEF Map!BalanceR
  <2> QED BY <2>2, <2>3
<1>4. ASSUME heavy
      PROVE  /\ r.key \in K /\ r.value \in X
             /\ a \in Nat /\ b \in Nat /\ n = 1 + b + a
             /\ T(rr, a, entries[rr]) /\ T(rl, b, entries[rl]) /\ rr \in V /\ rl \in V
             /\ Map!Balanced(b, a)
             /\ Map!Below(entries[rl], r.key) /\ Map!Above(entries[rr], r.key)
             /\ B = entries[rl] \cup {<<r.key, r.value>>} \cup entries[rr]
             /\ k < r.key
             /\ Map!Above(entries[rr], k) /\ Map!Above(entries[rl], k)
             /\ Map!Below(A, r.key)
  <2>1. r # Map!Empty
    BY <1>1, <1>2, <1>4, EmptyFields DEF Map!Delta
  <2>2. /\ r.key \in K /\ r.value \in X /\ rr \in V /\ rl \in V
        /\ a \in Nat /\ b \in Nat /\ n = 1 + b + a
        /\ Map!Balanced(b, a)
        /\ Map!Below(entries[rl], r.key) /\ Map!Above(entries[rr], r.key)
        /\ B = entries[rl] \cup {<<r.key, r.value>>} \cup entries[rr]
    BY <1>1, <2>1, Parts
  <2>3. /\ k < r.key
        /\ Map!Above(entries[rr], k) /\ Map!Above(entries[rl], k)
    BY <1>1, <2>1, AboveParts
  <2>4. Map!Below(A, r.key)
    BY <1>1, <2>2, <2>3, FurtherOut
  <2> QED BY <2>2, <2>3, <2>4 DEF Map!Holds
<1>5. CASE heavy /\ b < Map!Ratio * a
  <2> DEFINE u == Map!MkBin(k, x, l, rl)
             U == A \cup {<<k, x>>} \cup entries[rl]
  <2>1. Map!Balanced(m, b) /\ Map!Balanced(1 + m + b, a)
    BY <1>2, <1>4, <1>5 DEF Map!Balanced, Map!Delta, Map!Ratio
  <2>2. T(u, 1 + m + b, U)
    BY <1>4, <1>5, <2>1, Joined
  <2>3. Map!Below(U, r.key)
    BY <1>4, <1>5, BelowNode
  <2> HIDE DEF u, U
  <2>4. T(Map!MkBin(r.key, r.value, u, rr), 1 + (1 + m + b) + a,
          U \cup {<<r.key, r.value>>} \cup entries[rr])
    BY <1>4, <1>5, <2>1, <2>2, <2>3, Joined
  <2>5. 1 + (1 + m + b) + a = 1 + m + n
    BY <1>2, <1>4, <1>5
  <2>6. U \cup {<<r.key, r.value>>} \cup entries[rr] = C
    BY <1>4, <1>5 DEF U
  <2>7. Map!BalanceR(k, x, l, r) = Map!MkBin(r.key, r.value, u, rr)
    <3>1. ~ (m = 0 /\ a = 0)
      BY <1>2, <1>4, <1>5 DEF Map!Ratio
    <3> QED BY <1>1, <1>5, <3>1 DEF Map!BalanceR, u
  <2> QED BY <2>4, <2>5, <2>6, <2>7
<1>6. CASE heavy /\ ~ (b < Map!Ratio * a)
  <2> DEFINE rlr == rl.rhs
             rll == rl.lhs
             c == rlr.size
             d == rll.size
             u == Map!MkBin(r.key, r.value, rlr, rr)
             U == entries[rlr] \cup {<<r.key, r.value>>} \cup entries[rr]
             w == Map!MkBin(k, x, l, rll)
             W == A \cup {<<k, x>>} \cup entries[rll]
  <2>1. rl # Map!Empty
    BY <1>2, <1>4, <1>6, EmptyFields DEF Map!Balanced, Map!Delta, Map!Ratio
  <2>2. /\ rl.key \in K /\ rl.value \in X /\ rll \in V /\ rlr \in V
        /\ c \in Nat /\ d \in Nat /\ b = 1 + d + c
        /\ Map!Balanced(d, c)
        /\ Map!Below(entries[rll], rl.key) /\ Map!Above(entries[rlr], rl.key)
        /\ entries[rl] = entries[rll] \cup {<<rl.key, rl.value>>} \cup entries[rlr]
    <3>1. rl \in V
      BY <1>4, <1>6
    <3> QED BY <2>1, <3>1, Parts
  <2>3. T(rll, d, entries[rll]) /\ T(rlr, c, entries[rlr])
    BY <2>2 DEF Map!Holds
  <2>4. k < rl.key /\ Map!Above(entries[rll], k)
    BY <1>4, <1>6, <2>1, AboveParts
  <2>5. rl.key < r.key /\ Map!Below(entries[rlr], r.key)
    BY <1>4, <1>6, <2>1, BelowParts
  <2>6. Map!Above(entries[rr], rl.key) /\ Map!Below(A, rl.key)
    <3>1. Map!Above(entries[rr], rl.key)
      <4>1. rr \in V /\ r.key \in K /\ Map!Above(entries[rr], r.key)
        BY <1>4, <1>6
      <4> QED BY <2>2, <2>5, <4>1, FurtherOut
    <3>2. Map!Below(A, rl.key)
      BY <1>1, <2>2, <2>4, FurtherOut
    <3> QED BY <3>1, <3>2
  <2>7. Map!Balanced(c, a) /\ Map!Balanced(m, d) /\ Map!Balanced(1 + m + d, 1 + c + a)
    <3>1. Map!Balanced(a, b)
      BY <1>4, <1>6, BothWays
    <3>2. Map!Balanced(c, d)
      BY <2>2, BothWays
    <3>3. n = 1 + a + b /\ b = 1 + c + d
      <4>1. /\ a \in Nat /\ b \in Nat /\ c \in Nat /\ d \in Nat
            /\ n = 1 + b + a /\ b = 1 + d + c
        BY <1>4, <1>6, <2>2
      <4> HIDE DEF a, b, c, d
      <4> QED BY <4>1
    <3>4. IsHeavyInside(a, b, c, d, n, m)
      BY <1>2, <1>4, <1>6, <2>2, <3>1, <3>2, <3>3 DEF IsHeavyInside
    <3> QED BY <3>4, DoubleRotation
  <2>8. T(u, 1 + c + a, U)
    BY <1>4, <1>6, <2>3, <2>5, <2>7, Joined
  <2>9. T(w, 1 + m + d, W)
    BY <2>3, <2>4, <2>7, Joined
  <2>10. Map!Above(U, rl.key)
    BY <1>4, <1>6, <2>2, <2>5, <2>6, AboveNode
  <2>11. Map!Below(W, rl.key)
    BY <2>2, <2>4, <2>6, BelowNode
  <2> HIDE DEF u, w, U, W
  <2>12. T(Map!MkBin(rl.key, rl.value, w, u), 1 + (1 + m + d) + (1 + c + a),
           W \cup {<<rl.key, rl.value>>} \cup U)
    <3> DEFINE p == 1 + m + d
               q == 1 + c + a
               z == rl.key
    <3>1. T(w, p, W) /\ T(u, q, U) /\ Map!Balanced(p, q)
      BY <2>7, <2>8, <2>9
    <3>2. z \in K /\ rl.value \in X /\ Map!Below(W, z) /\ Map!Above(U, z)
      BY <2>2, <2>10, <2>11
    <3> HIDE DEF p, q, z
    <3>3. T(Map!MkBin(z, rl.value, w, u), 1 + p + q, W \cup {<<z, rl.value>>} \cup U)
      BY <3>1, <3>2, Joined
    <3> QED BY <3>3 DEF p, q, z
  <2>13. 1 + (1 + m + d) + (1 + c + a) = 1 + m + n
    <3>1. /\ a \in Nat /\ b \in Nat /\ c \in Nat /\ d \in Nat
          /\ n = 1 + b + a /\ b = 1 + d + c
      BY <1>4, <1>6, <2>2
    <3> HIDE DEF a, b, c, d
    <3> QED BY <1>2, <3>1
  <2>14. W \cup {<<rl.key, rl.value>>} \cup U = C
    BY <1>4, <1>6, <2>2 DEF U, W
  <2>15. Map!BalanceR(k, x, l, r) = Map!MkBin(rl.key, rl.value, w, u)
    <3>1. CASE ~ (m = 0 /\ a = 0)
      BY <1>1, <1>6, <3>1 DEF Map!BalanceR, u, w
    <3>2. CASE m = 0 /\ a = 0
      <4>1. c = 0 /\ d = 0
        <5>1. a = 0 /\ b = 1 + d + c /\ c \in Nat /\ d \in Nat /\ Map!Balanced(b, a)
          BY <1>4, <1>6, <2>2, <3>2
        <5> HIDE DEF a, b, c, d
        <5> QED BY <5>1 DEF Map!Balanced, Map!Delta
      <4>2. /\ rr \in V /\ rll \in V /\ rlr \in V /\ l \in V
            /\ rr.size = 0 /\ rll.size = 0 /\ rlr.size = 0 /\ l.size = 0
        BY <1>1, <1>4, <1>6, <2>2, <3>2, <4>1
      <4>3. rr = Map!Empty /\ rll = Map!Empty /\ rlr = Map!Empty /\ l = Map!Empty
        BY <4>2, EmptyOnly
      <4>4. u = Map!Leaf(r.key, r.value) /\ w = Map!Leaf(k, x)
        BY <4>3, EmptyFields DEF u, w, Map!Leaf, Map!MkBin
      <4>5. u.size = 1 /\ w.size = 1
        BY <4>4, NodeFields DEF Map!Leaf
      <4>6. Map!MkBin(rl.key, rl.value, w, u) = Map!Bin(3, rl.key, rl.value, w, u)
        BY <4>5 DEF Map!MkBin
      <4> QED BY <1>1, <1>6, <3>2, <4>4, <4>6 DEF Map!BalanceR
    <3> QED BY <3>1, <3>2
  <2> QED BY <2>12, <2>13, <2>14, <2>15
<1> QED BY <1>3, <1>5, <1>6

(* Induction over the natural numbers, as a statement about a set of them. *)
LEMMA SetInduction ==
    ASSUME NEW S,
           ASSUME NEW n \in Nat, \A m \in Nat : m < n => m \in S
           PROVE  n \in S
    PROVE  Nat \subseteq S
<1> SUFFICES ASSUME Nat \ S # {} PROVE FALSE
  OBVIOUS
<1> DEFINE R == {ss \in Nat \X Nat : ss[1] < ss[2]}
<1>1. IsWellFoundedOn(R, Nat)
  BY NatLessThanWellFounded DEF OpToRel
<1>2. PICK x \in Nat \ S : \A y \in Nat \ S : ~ (<<y, x>> \in R)
  <2> HIDE DEF R
  <2>2. \E x \in Nat \ S : \A y \in Nat \ S : ~ (<<y, x>> \in R)
    BY <1>1, WFMin, Zenon
  <2> QED BY <2>2
<1>3. \A m \in Nat : m < x => m \in S
  BY <1>2
<1> QED BY <1>2, <1>3

(* A leaf.                                                                 *)
LEMMA LeafFacts ==
    ASSUME NEW K, NEW V, NEW X, NEW entries, Map!SearchTrees(K, V, X, entries),
           NEW k \in K, NEW x \in X
    PROVE  Map!Holds(V, entries, Map!Leaf(k, x), 1, {<<k, x>>})
<1>1. Map!Holds(V, entries, Map!Empty, 0, {})
  BY EmptyFields DEF Map!SearchTrees, Map!Holds
<1>2. Map!Below({}, k) /\ Map!Above({}, k) /\ Map!Balanced(0, 0)
  BY DEF Map!Below, Map!Above, Map!Balanced
<1>3. Map!Holds(V, entries, Map!MkBin(k, x, Map!Empty, Map!Empty), 1 + 0 + 0, {} \cup {<<k, x>>} \cup {})
  BY <1>1, <1>2, Joined
<1>4. Map!MkBin(k, x, Map!Empty, Map!Empty) = Map!Leaf(k, x)
  BY EmptyFields DEF Map!MkBin, Map!Leaf
<1> QED BY <1>3, <1>4

(* A node after one of its subtrees has grown or shrunk by one.            *)
LEMMA GrownLFacts ==
    ASSUME NEW K, NEW V, NEW X, NEW entries, Map!SearchTrees(K, V, X, entries),
           NEW t \in V, t # Map!Empty,
           NEW l, NEW n, NEW A, Map!Holds(V, entries, l, n, A), Map!Below(A, t.key),
           n = t.lhs.size \/ n = t.lhs.size + 1
    PROVE  LET B == A \cup {<<t.key, t.value>>} \cup entries[t.rhs] IN
           /\ Map!Holds(V, entries, Map!BalanceL(t.key, t.value, l, t.rhs), 1 + n + t.rhs.size, B)
           /\ Map!Holds(V, entries, Map!GrownL(t, l), 1 + n + t.rhs.size, B)
<1> DEFINE B == A \cup {<<t.key, t.value>>} \cup entries[t.rhs]
           m == t.rhs.size
<1>1. /\ t.key \in K /\ t.value \in X /\ t.lhs \in V /\ t.rhs \in V
      /\ t.lhs.size \in Nat /\ m \in Nat
      /\ t.size = 1 + t.lhs.size + m
      /\ Map!Balanced(t.lhs.size, m)
      /\ Map!Above(entries[t.rhs], t.key)
      /\ entries[t] = entries[t.lhs] \cup {<<t.key, t.value>>} \cup entries[t.rhs]
  BY Parts
<1>2. Map!Holds(V, entries, t.rhs, m, entries[t.rhs])
  BY <1>1 DEF Map!Holds
<1>3. /\ m <= Map!Delta * n \/ n + m <= 1
      /\ n <= Map!Delta * m + 3 \/ 3 * n <= 13 * m + 3
  BY <1>1 DEF Map!Balanced, Map!Delta
<1>4. Map!Holds(V, entries, Map!BalanceL(t.key, t.value, l, t.rhs), 1 + n + m, B)
  BY <1>1, <1>2, <1>3, BalanceLRestores
<1>5. Map!Holds(V, entries, Map!GrownL(t, l), 1 + n + m, B)
  <2>1. CASE l = t.lhs
    BY <1>1, <2>1 DEF Map!GrownL, Map!Holds
  <2>2. CASE l # t.lhs
    BY <1>4, <2>2 DEF Map!GrownL
  <2> QED BY <2>1, <2>2
<1> QED BY <1>4, <1>5

(* The same of the right subtree, grown...                                 *)
LEMMA GrownRFacts ==
    ASSUME NEW K, NEW V, NEW X, NEW entries, Map!SearchTrees(K, V, X, entries),
           NEW t \in V, t # Map!Empty,
           NEW r, NEW n, NEW A, Map!Holds(V, entries, r, n, A), Map!Above(A, t.key),
           n = t.rhs.size \/ n = t.rhs.size + 1
    PROVE  LET B == entries[t.lhs] \cup {<<t.key, t.value>>} \cup A IN
           /\ Map!Holds(V, entries, Map!BalanceR(t.key, t.value, t.lhs, r), 1 + t.lhs.size + n, B)
           /\ Map!Holds(V, entries, Map!GrownR(t, r), 1 + t.lhs.size + n, B)
<1> DEFINE B == entries[t.lhs] \cup {<<t.key, t.value>>} \cup A
           m == t.lhs.size
<1>1. /\ t.key \in K /\ t.value \in X /\ t.lhs \in V /\ t.rhs \in V
      /\ t.rhs.size \in Nat /\ m \in Nat
      /\ t.size = 1 + m + t.rhs.size
      /\ Map!Balanced(m, t.rhs.size)
      /\ Map!Below(entries[t.lhs], t.key)
      /\ entries[t] = entries[t.lhs] \cup {<<t.key, t.value>>} \cup entries[t.rhs]
  BY Parts
<1>2. Map!Holds(V, entries, t.lhs, m, entries[t.lhs])
  BY <1>1 DEF Map!Holds
<1>3. /\ m <= Map!Delta * n \/ m + n <= 1
      /\ n <= Map!Delta * m + 3 \/ 3 * n <= 13 * m + 3
  BY <1>1 DEF Map!Balanced, Map!Delta
<1>4. Map!Holds(V, entries, Map!BalanceR(t.key, t.value, t.lhs, r), 1 + m + n, B)
  BY <1>1, <1>2, <1>3, BalanceRRestores
<1>5. Map!Holds(V, entries, Map!GrownR(t, r), 1 + m + n, B)
  <2>1. CASE r = t.rhs
    BY <1>1, <2>1 DEF Map!GrownR, Map!Holds
  <2>2. CASE r # t.rhs
    BY <1>4, <2>2 DEF Map!GrownR
  <2> QED BY <2>1, <2>2
<1> QED BY <1>4, <1>5

(* ... or, on the left, shrunk...                                          *)
LEMMA ShrunkLFacts ==
    ASSUME NEW K, NEW V, NEW X, NEW entries, Map!SearchTrees(K, V, X, entries),
           NEW t \in V, t # Map!Empty,
           NEW l, NEW n, NEW A, Map!Holds(V, entries, l, n, A), Map!Below(A, t.key),
           n = t.lhs.size \/ n + 1 = t.lhs.size
    PROVE  LET B == A \cup {<<t.key, t.value>>} \cup entries[t.rhs] IN
           /\ Map!Holds(V, entries, Map!BalanceR(t.key, t.value, l, t.rhs), 1 + n + t.rhs.size, B)
           /\ Map!Holds(V, entries, Map!ShrunkL(t, l), 1 + n + t.rhs.size, B)
<1> DEFINE B == A \cup {<<t.key, t.value>>} \cup entries[t.rhs]
           m == t.rhs.size
<1>1. /\ t.key \in K /\ t.value \in X /\ t.lhs \in V /\ t.rhs \in V
      /\ t.lhs.size \in Nat /\ m \in Nat
      /\ t.size = 1 + t.lhs.size + m
      /\ Map!Balanced(t.lhs.size, m)
      /\ Map!Above(entries[t.rhs], t.key)
      /\ entries[t] = entries[t.lhs] \cup {<<t.key, t.value>>} \cup entries[t.rhs]
  BY Parts
<1>2. Map!Holds(V, entries, t.rhs, m, entries[t.rhs])
  BY <1>1 DEF Map!Holds
<1>3. n \in Nat
  BY Parts DEF Map!Holds
<1>4. /\ n <= Map!Delta * m \/ n + m <= 1
      /\ m <= Map!Delta * n + 3 \/ 3 * m <= 13 * n + 3
  BY <1>1, <1>3 DEF Map!Balanced, Map!Delta
<1>5. Map!Holds(V, entries, Map!BalanceR(t.key, t.value, l, t.rhs), 1 + n + m, B)
  BY <1>1, <1>2, <1>4, BalanceRRestores
<1>6. Map!Holds(V, entries, Map!ShrunkL(t, l), 1 + n + m, B)
  <2>1. CASE l = t.lhs
    BY <1>1, <2>1 DEF Map!ShrunkL, Map!Holds
  <2>2. CASE l # t.lhs
    BY <1>5, <2>2 DEF Map!ShrunkL
  <2> QED BY <2>1, <2>2
<1> QED BY <1>5, <1>6

(* ... or, on the right, shrunk.                                           *)
LEMMA ShrunkRFacts ==
    ASSUME NEW K, NEW V, NEW X, NEW entries, Map!SearchTrees(K, V, X, entries),
           NEW t \in V, t # Map!Empty,
           NEW r, NEW n, NEW A, Map!Holds(V, entries, r, n, A), Map!Above(A, t.key),
           n = t.rhs.size \/ n + 1 = t.rhs.size
    PROVE  LET B == entries[t.lhs] \cup {<<t.key, t.value>>} \cup A IN
           /\ Map!Holds(V, entries, Map!BalanceL(t.key, t.value, t.lhs, r), 1 + t.lhs.size + n, B)
           /\ Map!Holds(V, entries, Map!ShrunkR(t, r), 1 + t.lhs.size + n, B)
<1> DEFINE B == entries[t.lhs] \cup {<<t.key, t.value>>} \cup A
           m == t.lhs.size
<1>1. /\ t.key \in K /\ t.value \in X /\ t.lhs \in V /\ t.rhs \in V
      /\ t.rhs.size \in Nat /\ m \in Nat
      /\ t.size = 1 + m + t.rhs.size
      /\ Map!Balanced(m, t.rhs.size)
      /\ Map!Below(entries[t.lhs], t.key)
      /\ entries[t] = entries[t.lhs] \cup {<<t.key, t.value>>} \cup entries[t.rhs]
  BY Parts
<1>2. Map!Holds(V, entries, t.lhs, m, entries[t.lhs])
  BY <1>1 DEF Map!Holds
<1>3. n \in Nat
  BY Parts DEF Map!Holds
<1>4. /\ n <= Map!Delta * m \/ m + n <= 1
      /\ m <= Map!Delta * n + 3 \/ 3 * m <= 13 * n + 3
  BY <1>1, <1>3 DEF Map!Balanced, Map!Delta
<1>5. Map!Holds(V, entries, Map!BalanceL(t.key, t.value, t.lhs, r), 1 + m + n, B)
  BY <1>1, <1>2, <1>4, BalanceLRestores
<1>6. Map!Holds(V, entries, Map!ShrunkR(t, r), 1 + m + n, B)
  <2>1. CASE r = t.rhs
    BY <1>1, <2>1 DEF Map!ShrunkR, Map!Holds
  <2>2. CASE r # t.rhs
    BY <1>5, <2>2 DEF Map!ShrunkR
  <2> QED BY <2>1, <2>2
<1> QED BY <1>5, <1>6

(* The same by the size of a tree.                                         *)
LEMMA TreeInduction ==
    ASSUME NEW K, NEW V, NEW X, NEW entries, Map!SearchTrees(K, V, X, entries),
           NEW S,
           ASSUME NEW t \in V, \A u \in V : u.size < t.size => u \in S
           PROVE  t \in S
    PROVE  V \subseteq S
<1> DEFINE N == {n \in Nat : \A t \in V : t.size = n => t \in S}
<1>1. ASSUME NEW n \in Nat, \A m \in Nat : m < n => m \in N
      PROVE  n \in N
  <2> SUFFICES ASSUME NEW t \in V, t.size = n
               PROVE  t \in S
    OBVIOUS
  <2>1. \A u \in V : u.size < t.size => u \in S
    <3> SUFFICES ASSUME NEW u \in V, u.size < t.size
                 PROVE  u \in S
      OBVIOUS
    <3>1. u.size \in Nat /\ u.size < n
      BY Parts
    <3> QED BY <1>1, <3>1
  <2> QED BY <2>1
<1>2. Nat \subseteq N
  <2> HIDE DEF N
  <2> QED BY <1>1, SetInduction
<1> QED BY <1>2, Parts

(* A key after all others: _insertMax.                                     *)
LEMMA InsertMaxFacts ==
    ASSUME NEW K, NEW V, NEW X, NEW entries, NEW op, Map!SearchTrees(K, V, X, entries),
           Map!Balancing(K, V, X, op),
           NEW k \in K, NEW x \in X, NEW t \in V, Map!Below(entries[t], k)
    PROVE  Map!Holds(V, entries, op.insertMax[<<k, x, t>>], t.size + 1, entries[t] \cup {<<k, x>>})
<1> DEFINE P(u) == Map!Holds(V, entries, op.insertMax[<<k, x, u>>], u.size + 1, entries[u] \cup {<<k, x>>})
           S == {u \in V : Map!Below(entries[u], k) => P(u)}
<1>1. ASSUME NEW u \in V, \A y \in V : y.size < u.size => y \in S
      PROVE  u \in S
  <2> SUFFICES ASSUME Map!Below(entries[u], k)
               PROVE  P(u)
    OBVIOUS
  <2>1. op.insertMax[<<k, x, u>>] =
           IF Map!IsEmpty(u) THEN Map!Leaf(k, x)
           ELSE Map!BalanceR(u.key, u.value, u.lhs, op.insertMax[<<k, x, u.rhs>>])
    BY DEF Map!Balancing, Map!InsertMaxStep
  <2>2. CASE u = Map!Empty
    <3>1. u.size = 0 /\ Map!IsEmpty(u) /\ entries[u] = {}
      BY <2>2, EmptyFields DEF Map!IsEmpty, Map!SearchTrees
    <3> QED BY <2>1, <3>1, LeafFacts
  <2>3. CASE u # Map!Empty
    <3>1. /\ ~ Map!IsEmpty(u) /\ u.rhs \in V /\ u.rhs.size \in Nat /\ u.lhs.size \in Nat /\ u.key \in K
          /\ u.size = 1 + u.lhs.size + u.rhs.size
          /\ Map!Above(entries[u.rhs], u.key)
          /\ entries[u] = entries[u.lhs] \cup {<<u.key, u.value>>} \cup entries[u.rhs]
      BY <2>3, Parts
    <3>2. u.key < k /\ Map!Below(entries[u.rhs], k)
      BY <2>3, BelowParts
    <3>3. P(u.rhs)
      <4>1. u.rhs \in S
        <5> HIDE DEF S
        <5> QED BY <1>1, <3>1
      <4> QED BY <3>2, <4>1
    <3>4. Map!Above(entries[u.rhs] \cup {<<k, x>>}, u.key)
      BY <3>1, <3>2, AboveNode DEF Map!Above
    <3>5. Map!Holds(V, entries, Map!BalanceR(u.key, u.value, u.lhs, op.insertMax[<<k, x, u.rhs>>]),
                     1 + u.lhs.size + (u.rhs.size + 1),
                     entries[u.lhs] \cup {<<u.key, u.value>>} \cup (entries[u.rhs] \cup {<<k, x>>}))
      BY <2>3, <3>3, <3>4, GrownRFacts
    <3>6. 1 + u.lhs.size + (u.rhs.size + 1) = u.size + 1
      BY <3>1
    <3>7. entries[u.lhs] \cup {<<u.key, u.value>>} \cup (entries[u.rhs] \cup {<<k, x>>})
            = entries[u] \cup {<<k, x>>}
      BY <3>1
    <3> QED BY <2>1, <3>1, <3>5, <3>6, <3>7
  <2> QED BY <2>2, <2>3
<1>2. V \subseteq S
  <2> HIDE DEF S
  <2> QED BY <1>1, TreeInduction
<1> QED BY <1>2

(* A key before all others: _insertMin.                                    *)
LEMMA InsertMinFacts ==
    ASSUME NEW K, NEW V, NEW X, NEW entries, NEW op, Map!SearchTrees(K, V, X, entries),
           Map!Balancing(K, V, X, op),
           NEW k \in K, NEW x \in X, NEW t \in V, Map!Above(entries[t], k)
    PROVE  Map!Holds(V, entries, op.insertMin[<<k, x, t>>], t.size + 1, entries[t] \cup {<<k, x>>})
<1> DEFINE P(u) == Map!Holds(V, entries, op.insertMin[<<k, x, u>>], u.size + 1, entries[u] \cup {<<k, x>>})
           S == {u \in V : Map!Above(entries[u], k) => P(u)}
<1>1. ASSUME NEW u \in V, \A y \in V : y.size < u.size => y \in S
      PROVE  u \in S
  <2> SUFFICES ASSUME Map!Above(entries[u], k)
               PROVE  P(u)
    OBVIOUS
  <2>1. op.insertMin[<<k, x, u>>] =
           IF Map!IsEmpty(u) THEN Map!Leaf(k, x)
           ELSE Map!BalanceL(u.key, u.value, op.insertMin[<<k, x, u.lhs>>], u.rhs)
    BY DEF Map!Balancing, Map!InsertMinStep
  <2>2. CASE u = Map!Empty
    <3>1. u.size = 0 /\ Map!IsEmpty(u) /\ entries[u] = {}
      BY <2>2, EmptyFields DEF Map!IsEmpty, Map!SearchTrees
    <3> QED BY <2>1, <3>1, LeafFacts
  <2>3. CASE u # Map!Empty
    <3>1. /\ ~ Map!IsEmpty(u) /\ u.lhs \in V /\ u.rhs.size \in Nat /\ u.lhs.size \in Nat /\ u.key \in K
          /\ u.size = 1 + u.lhs.size + u.rhs.size
          /\ Map!Below(entries[u.lhs], u.key)
          /\ entries[u] = entries[u.lhs] \cup {<<u.key, u.value>>} \cup entries[u.rhs]
      BY <2>3, Parts
    <3>2. k < u.key /\ Map!Above(entries[u.lhs], k)
      BY <2>3, AboveParts
    <3>3. P(u.lhs)
      <4>1. u.lhs \in S
        <5> HIDE DEF S
        <5> QED BY <1>1, <3>1
      <4> QED BY <3>2, <4>1
    <3>4. Map!Below(entries[u.lhs] \cup {<<k, x>>}, u.key)
      BY <3>1, <3>2, BelowNode DEF Map!Below
    <3>5. Map!Holds(V, entries, Map!BalanceL(u.key, u.value, op.insertMin[<<k, x, u.lhs>>], u.rhs),
                     1 + (u.lhs.size + 1) + u.rhs.size,
                     (entries[u.lhs] \cup {<<k, x>>}) \cup {<<u.key, u.value>>} \cup entries[u.rhs])
      BY <2>3, <3>3, <3>4, GrownLFacts
    <3>6. 1 + (u.lhs.size + 1) + u.rhs.size = u.size + 1
      BY <3>1
    <3>7. (entries[u.lhs] \cup {<<k, x>>}) \cup {<<u.key, u.value>>} \cup entries[u.rhs]
            = entries[u] \cup {<<k, x>>}
      BY <3>1
    <3> QED BY <2>1, <3>1, <3>5, <3>6, <3>7
  <2> QED BY <2>2, <2>3
<1>2. V \subseteq S
  <2> HIDE DEF S
  <2> QED BY <1>1, TreeInduction
<1> QED BY <1>2

(* The first key and the rest: _getMinView.                                *)
LEMMA MinViewFacts ==
    ASSUME NEW K, NEW V, NEW X, NEW entries, NEW op, Map!SearchTrees(K, V, X, entries),
           Map!Balancing(K, V, X, op),
           NEW t \in V, t # Map!Empty
    PROVE  LET w == op.minView[t] IN
           /\ w \in [k : K, v : X, m : V]
           /\ w.m.size + 1 = t.size
           /\ entries[t] = {<<w.k, w.v>>} \cup entries[w.m]
           /\ Map!Above(entries[w.m], w.k)
<1> DEFINE P(u) == LET w == op.minView[u] IN
                   /\ w \in [k : K, v : X, m : V]
                   /\ w.m.size + 1 = u.size
                   /\ entries[u] = {<<w.k, w.v>>} \cup entries[w.m]
                   /\ Map!Above(entries[w.m], w.k)
           S == {u \in V : u # Map!Empty => P(u)}
<1>1. ASSUME NEW u \in V, \A y \in V : y.size < u.size => y \in S
      PROVE  u \in S
  <2> SUFFICES ASSUME u # Map!Empty
               PROVE  P(u)
    OBVIOUS
  <2>1. op.minView[u] =
           IF Map!IsEmpty(u.lhs) THEN [k |-> u.key, v |-> u.value, m |-> u.rhs]
           ELSE [op.minView[u.lhs] EXCEPT !.m = Map!BalanceR(u.key, u.value, @, u.rhs)]
    BY DEF Map!Balancing, Map!MinViewStep
  <2>2. /\ u.lhs \in V /\ u.rhs \in V /\ u.rhs.size \in Nat /\ u.lhs.size \in Nat
        /\ u.key \in K /\ u.value \in X
        /\ u.size = 1 + u.lhs.size + u.rhs.size
        /\ Map!Below(entries[u.lhs], u.key) /\ Map!Above(entries[u.rhs], u.key)
        /\ entries[u] = entries[u.lhs] \cup {<<u.key, u.value>>} \cup entries[u.rhs]
    BY Parts
  <2>3. CASE u.lhs = Map!Empty
    <3>1. u.lhs.size = 0 /\ Map!IsEmpty(u.lhs) /\ entries[u.lhs] = {}
      BY <2>3, EmptyFields DEF Map!IsEmpty, Map!SearchTrees
    <3>2. op.minView[u] = [k |-> u.key, v |-> u.value, m |-> u.rhs]
      BY <2>1, <3>1
    <3> QED BY <2>2, <3>1, <3>2
  <2>4. CASE u.lhs # Map!Empty
    <3> DEFINE w == op.minView[u.lhs]
               m == Map!BalanceR(u.key, u.value, w.m, u.rhs)
    <3>1. ~ Map!IsEmpty(u.lhs)
      BY <2>2, <2>4, Parts
    <3>2. P(u.lhs)
      <4>1. u.lhs \in S
        <5> HIDE DEF S
        <5> QED BY <1>1, <2>2
      <4> QED BY <2>4, <4>1
    <3>3. op.minView[u] = [w EXCEPT !.m = Map!BalanceR(u.key, u.value, @, u.rhs)]
      BY <2>1, <3>1
    <3> HIDE DEF w
    <3>4. /\ w.k \in K /\ w.v \in X /\ w.m \in V
          /\ op.minView[u] = [k |-> w.k, v |-> w.v, m |-> m]
      BY <3>2, <3>3 DEF w
    <3>5. /\ w.m.size + 1 = u.lhs.size
          /\ entries[u.lhs] = {<<w.k, w.v>>} \cup entries[w.m]
          /\ Map!Above(entries[w.m], w.k)
      BY <3>2 DEF w
    <3>6. Map!Below(entries[w.m], u.key) /\ w.k < u.key
      <4>1. <<w.k, w.v>>[1] = w.k
        OBVIOUS
      <4> QED BY <2>2, <3>5, <4>1 DEF Map!Below
    <3>7. Map!Holds(V, entries, w.m, w.m.size, entries[w.m])
      BY <3>4 DEF Map!Holds
    <3>8. Map!Holds(V, entries, m, 1 + w.m.size + u.rhs.size,
                     entries[w.m] \cup {<<u.key, u.value>>} \cup entries[u.rhs])
      BY <3>5, <3>6, <3>7, ShrunkLFacts
    <3>9. w.m.size \in Nat
      BY <3>4, Parts
    <3> HIDE DEF m
    <3>10. m \in V /\ m.size + 1 = u.size /\ entries[u] = {<<w.k, w.v>>} \cup entries[m]
      BY <2>2, <3>5, <3>8, <3>9 DEF Map!Holds
    <3>11. Map!Above(entries[m], w.k)
      <4>1. Map!Above(entries[u.rhs], w.k)
        BY <2>2, <3>4, <3>6, FurtherOut
      <4>2. entries[m] = entries[w.m] \cup {<<u.key, u.value>>} \cup entries[u.rhs]
        BY <3>8 DEF Map!Holds
      <4>3. Map!Above(entries[w.m] \cup {<<u.key, u.value>>} \cup entries[u.rhs], w.k)
        BY <3>5, <3>6, <4>1, AboveNode
      <4> QED BY <4>2, <4>3
    <3> QED BY <3>4, <3>10, <3>11
  <2> QED BY <2>3, <2>4
<1>2. V \subseteq S
  <2> HIDE DEF S
  <2> QED BY <1>1, TreeInduction
<1> QED BY <1>2

(* The last key and the rest: _getMaxView.                                 *)
LEMMA MaxViewFacts ==
    ASSUME NEW K, NEW V, NEW X, NEW entries, NEW op, Map!SearchTrees(K, V, X, entries),
           Map!Balancing(K, V, X, op),
           NEW t \in V, t # Map!Empty
    PROVE  LET w == op.maxView[t] IN
           /\ w \in [k : K, v : X, m : V]
           /\ w.m.size + 1 = t.size
           /\ entries[t] = entries[w.m] \cup {<<w.k, w.v>>}
           /\ Map!Below(entries[w.m], w.k)
<1> DEFINE P(u) == LET w == op.maxView[u] IN
                   /\ w \in [k : K, v : X, m : V]
                   /\ w.m.size + 1 = u.size
                   /\ entries[u] = entries[w.m] \cup {<<w.k, w.v>>}
                   /\ Map!Below(entries[w.m], w.k)
           S == {u \in V : u # Map!Empty => P(u)}
<1>1. ASSUME NEW u \in V, \A y \in V : y.size < u.size => y \in S
      PROVE  u \in S
  <2> SUFFICES ASSUME u # Map!Empty
               PROVE  P(u)
    OBVIOUS
  <2>1. op.maxView[u] =
           IF Map!IsEmpty(u.rhs) THEN [k |-> u.key, v |-> u.value, m |-> u.lhs]
           ELSE [op.maxView[u.rhs] EXCEPT !.m = Map!BalanceL(u.key, u.value, u.lhs, @)]
    BY DEF Map!Balancing, Map!MaxViewStep
  <2>2. /\ u.lhs \in V /\ u.rhs \in V /\ u.rhs.size \in Nat /\ u.lhs.size \in Nat
        /\ u.key \in K /\ u.value \in X
        /\ u.size = 1 + u.lhs.size + u.rhs.size
        /\ Map!Below(entries[u.lhs], u.key) /\ Map!Above(entries[u.rhs], u.key)
        /\ entries[u] = entries[u.lhs] \cup {<<u.key, u.value>>} \cup entries[u.rhs]
    BY Parts
  <2>3. CASE u.rhs = Map!Empty
    <3>1. u.rhs.size = 0 /\ Map!IsEmpty(u.rhs) /\ entries[u.rhs] = {}
      BY <2>3, EmptyFields DEF Map!IsEmpty, Map!SearchTrees
    <3>2. op.maxView[u] = [k |-> u.key, v |-> u.value, m |-> u.lhs]
      BY <2>1, <3>1
    <3> QED BY <2>2, <3>1, <3>2
  <2>4. CASE u.rhs # Map!Empty
    <3> DEFINE w == op.maxView[u.rhs]
               m == Map!BalanceL(u.key, u.value, u.lhs, w.m)
    <3>1. ~ Map!IsEmpty(u.rhs)
      BY <2>2, <2>4, Parts
    <3>2. P(u.rhs)
      <4>1. u.rhs \in S
        <5> HIDE DEF S
        <5> QED BY <1>1, <2>2
      <4> QED BY <2>4, <4>1
    <3>3. op.maxView[u] = [w EXCEPT !.m = Map!BalanceL(u.key, u.value, u.lhs, @)]
      BY <2>1, <3>1
    <3> HIDE DEF w
    <3>4. /\ w.k \in K /\ w.v \in X /\ w.m \in V
          /\ op.maxView[u] = [k |-> w.k, v |-> w.v, m |-> m]
      BY <3>2, <3>3 DEF w
    <3>5. /\ w.m.size + 1 = u.rhs.size
          /\ entries[u.rhs] = entries[w.m] \cup {<<w.k, w.v>>}
          /\ Map!Below(entries[w.m], w.k)
      BY <3>2 DEF w
    <3>6. Map!Above(entries[w.m], u.key) /\ u.key < w.k
      <4>1. <<w.k, w.v>>[1] = w.k
        OBVIOUS
      <4> QED BY <2>2, <3>5, <4>1 DEF Map!Above
    <3>7. Map!Holds(V, entries, w.m, w.m.size, entries[w.m])
      BY <3>4 DEF Map!Holds
    <3>8. Map!Holds(V, entries, m, 1 + u.lhs.size + w.m.size,
                     entries[u.lhs] \cup {<<u.key, u.value>>} \cup entries[w.m])
      BY <3>5, <3>6, <3>7, ShrunkRFacts
    <3>9. w.m.size \in Nat
      BY <3>4, Parts
    <3> HIDE DEF m
    <3>10. m \in V /\ m.size + 1 = u.size /\ entries[u] = entries[m] \cup {<<w.k, w.v>>}
      BY <2>2, <3>5, <3>8, <3>9 DEF Map!Holds
    <3>11. Map!Below(entries[m], w.k)
      <4>1. Map!Below(entries[u.lhs], w.k)
        BY <2>2, <3>4, <3>6, FurtherOut
      <4>2. entries[m] = entries[u.lhs] \cup {<<u.key, u.value>>} \cup entries[w.m]
        BY <3>8 DEF Map!Holds
      <4>3. Map!Below(entries[u.lhs] \cup {<<u.key, u.value>>} \cup entries[w.m], w.k)
        BY <3>5, <3>6, <4>1, BelowNode
      <4> QED BY <4>2, <4>3
    <3> QED BY <3>4, <3>10, <3>11
  <2> QED BY <2>3, <2>4
<1>2. V \subseteq S
  <2> HIDE DEF S
  <2> QED BY <1>1, TreeInduction
<1> QED BY <1>2

(* Two trees that are balanced with each other, one before the other.      *)
LEMMA GlueFacts ==
    ASSUME NEW K, NEW V, NEW X, NEW entries, NEW op, Map!SearchTrees(K, V, X, entries),
           Map!Balancing(K, V, X, op),
           NEW l \in V, NEW r \in V, Map!Balanced(l.size, r.size),
           Map!Precede(entries[l], entries[r])
    PROVE  Map!Holds(V, entries, op.glue[<<l, r>>], l.size + r.size, entries[l] \cup entries[r])
<1> DEFINE P(t) == Map!Holds(V, entries, t, l.size + r.size, entries[l] \cup entries[r])
<1>1. op.glue[<<l, r>>] =
         IF Map!IsEmpty(l) THEN r
         ELSE IF Map!IsEmpty(r) THEN l
         ELSE IF l.size > r.size
           THEN Map!BalanceR(op.maxView[l].k, op.maxView[l].v, op.maxView[l].m, r)
           ELSE Map!BalanceL(op.minView[r].k, op.minView[r].v, l, op.minView[r].m)
  BY DEF Map!Balancing, Map!GlueStep
<1>2. l.size \in Nat /\ r.size \in Nat
  BY Parts
<1>3. CASE l = Map!Empty
  <2>1. Map!IsEmpty(l) /\ l.size = 0 /\ entries[l] = {}
    BY <1>3, EmptyFields DEF Map!IsEmpty, Map!SearchTrees
  <2> QED BY <1>1, <1>2, <2>1 DEF Map!Holds
<1>4. CASE r = Map!Empty
  <2>1. Map!IsEmpty(r) /\ r.size = 0 /\ entries[r] = {}
    BY <1>4, EmptyFields DEF Map!IsEmpty, Map!SearchTrees
  <2>2. Map!IsEmpty(l) => l.size = 0
    BY DEF Map!IsEmpty
  <2> QED BY <1>1, <1>2, <1>3, <2>1, <2>2, EmptyOnly DEF Map!Holds
<1>5. CASE l # Map!Empty /\ r # Map!Empty /\ l.size > r.size
  <2> DEFINE w == op.maxView[l]
             M == entries[w.m]
             t == Map!BalanceR(w.k, w.v, w.m, r)
  <2>1. ~ Map!IsEmpty(l) /\ ~ Map!IsEmpty(r)
    BY <1>5, Parts
  <2>2. op.glue[<<l, r>>] = t
    BY <1>1, <1>5, <2>1
  <2>3. /\ w.k \in K /\ w.v \in X /\ w.m \in V
        /\ w.m.size + 1 = l.size /\ entries[l] = M \cup {<<w.k, w.v>>}
        /\ Map!Below(M, w.k)
    BY <1>5, MaxViewFacts
  <2> HIDE DEF w
  <2>4. Map!Above(entries[r], w.k)
    <3>1. <<w.k, w.v>>[1] = w.k
      OBVIOUS
    <3> QED BY <2>3, <3>1 DEF Map!Above, Map!Precede
  <2>5. /\ Map!Holds(V, entries, w.m, w.m.size, M)
        /\ Map!Holds(V, entries, r, r.size, entries[r])
    BY <2>3 DEF Map!Holds
  <2>6. w.m.size \in Nat
    BY <2>3, Parts
  <2>7. /\ w.m.size <= Map!Delta * r.size \/ w.m.size + r.size <= 1
        /\ r.size <= Map!Delta * w.m.size + 3
    BY <1>2, <1>5, <2>3, <2>6 DEF Map!Balanced, Map!Delta
  <2>8. Map!Holds(V, entries, t, 1 + w.m.size + r.size, M \cup {<<w.k, w.v>>} \cup entries[r])
    BY <2>3, <2>4, <2>5, <2>7, BalanceRRestores
  <2>9. 1 + w.m.size + r.size = l.size + r.size
    BY <1>2, <2>3, <2>6
  <2> QED BY <2>2, <2>3, <2>8, <2>9
<1>6. CASE l # Map!Empty /\ r # Map!Empty /\ ~ (l.size > r.size)
  <2> DEFINE w == op.minView[r]
             M == entries[w.m]
             t == Map!BalanceL(w.k, w.v, l, w.m)
  <2>1. ~ Map!IsEmpty(l) /\ ~ Map!IsEmpty(r)
    BY <1>6, Parts
  <2>2. op.glue[<<l, r>>] = t
    BY <1>1, <1>6, <2>1
  <2>3. /\ w.k \in K /\ w.v \in X /\ w.m \in V
        /\ w.m.size + 1 = r.size /\ entries[r] = {<<w.k, w.v>>} \cup M
        /\ Map!Above(M, w.k)
    BY <1>6, MinViewFacts
  <2> HIDE DEF w
  <2>4. Map!Below(entries[l], w.k)
    <3>1. <<w.k, w.v>>[1] = w.k
      OBVIOUS
    <3> QED BY <2>3, <3>1 DEF Map!Below, Map!Precede
  <2>5. /\ Map!Holds(V, entries, w.m, w.m.size, M)
        /\ Map!Holds(V, entries, l, l.size, entries[l])
    BY <2>3 DEF Map!Holds
  <2>6. w.m.size \in Nat
    BY <2>3, Parts
  <2>7. /\ w.m.size <= Map!Delta * l.size \/ l.size + w.m.size <= 1
        /\ l.size <= Map!Delta * w.m.size + 3
    BY <1>2, <1>6, <2>3, <2>6 DEF Map!Balanced, Map!Delta
  <2>8. Map!Holds(V, entries, t, 1 + l.size + w.m.size, entries[l] \cup {<<w.k, w.v>>} \cup M)
    BY <2>3, <2>4, <2>5, <2>7, BalanceLRestores
  <2>9. 1 + l.size + w.m.size = l.size + r.size
    BY <1>2, <2>3, <2>6
  <2>10. entries[l] \cup {<<w.k, w.v>>} \cup M = entries[l] \cup entries[r]
    BY <2>3
  <2> QED BY <2>2, <2>8, <2>9, <2>10
<1> QED BY <1>3, <1>4, <1>5, <1>6

(* What a link does to the balance of a node: the part of size c, of c and *)
(* d that were balanced, takes in a tree of size m, small for the whole.   *)
LEMMA LinkedPart ==
    ASSUME NEW m \in Nat, NEW c \in Nat, NEW d \in Nat, Map!Balanced(c, d),
           m # 0, Map!Delta * m < 1 + c + d
    PROVE  d <= Map!Delta * (m + c) /\ 3 * (1 + m + c) <= 13 * d + 3
<1>1. d <= Map!Delta * (m + c)
  BY DEF Map!Balanced, Map!Delta
<1>2. 3 * (1 + m + c) <= 13 * d + 3
  BY DEF Map!Balanced, Map!Delta
<1> QED BY <1>1, <1>2

(* Two trees of any sizes, and a key between all of theirs, give a         *)
(* balanced search tree of all the entries: _link, on which alter, union,  *)
(* intersect and filter rest.                                              *)
THEOREM LinkJoins ==
    ASSUME NEW K, NEW V, NEW X, NEW entries, NEW op, Map!SearchTrees(K, V, X, entries),
           Map!Balancing(K, V, X, op),
           NEW k \in K, NEW x \in X, NEW l \in V, NEW r \in V,
           Map!Below(entries[l], k), Map!Above(entries[r], k)
    PROVE  Map!Holds(V, entries, op.link[<<k, x, l, r>>], 1 + l.size + r.size,
                      entries[l] \cup {<<k, x>>} \cup entries[r])
<1> DEFINE P(a, b) == Map!Holds(V, entries, op.link[<<k, x, a, b>>], 1 + a.size + b.size,
                                 entries[a] \cup {<<k, x>>} \cup entries[b])
           S == {n \in Nat : \A a \in V, b \in V :
                   a.size + b.size = n /\ Map!Below(entries[a], k) /\ Map!Above(entries[b], k)
                      => P(a, b)}
<1>1. ASSUME NEW n \in Nat, \A m \in Nat : m < n => m \in S
      PROVE  n \in S
  <2> SUFFICES ASSUME NEW a \in V, NEW b \in V, a.size + b.size = n,
                      Map!Below(entries[a], k), Map!Above(entries[b], k)
               PROVE  P(a, b)
    OBVIOUS
  <2>1. op.link[<<k, x, a, b>>] =
          IF Map!IsEmpty(a) THEN op.insertMin[<<k, x, b>>]
          ELSE IF Map!IsEmpty(b) THEN op.insertMax[<<k, x, a>>]
          ELSE IF Map!Delta * a.size < b.size
            THEN Map!BalanceL(b.key, b.value, op.link[<<k, x, a, b.lhs>>], b.rhs)
          ELSE IF Map!Delta * b.size < a.size
            THEN Map!BalanceR(a.key, a.value, a.lhs, op.link[<<k, x, a.rhs, b>>])
          ELSE Map!MkBin(k, x, a, b)
    BY DEF Map!Balancing, Map!LinkStep
  <2>2. a.size \in Nat /\ b.size \in Nat
    BY Parts
  <2>3. /\ Map!Holds(V, entries, a, a.size, entries[a])
        /\ Map!Holds(V, entries, b, b.size, entries[b])
    BY DEF Map!Holds
  <2>4. CASE a = Map!Empty
    <3>1. Map!IsEmpty(a) /\ a.size = 0 /\ entries[a] = {}
      BY <2>4, EmptyFields DEF Map!IsEmpty, Map!SearchTrees
    <3>2. op.link[<<k, x, a, b>>] = op.insertMin[<<k, x, b>>]
      BY <2>1, <3>1
    <3>3. Map!Holds(V, entries, op.insertMin[<<k, x, b>>], b.size + 1, entries[b] \cup {<<k, x>>})
      BY InsertMinFacts
    <3>4. b.size + 1 = 1 + a.size + b.size
      BY <2>2, <3>1
    <3>5. entries[b] \cup {<<k, x>>} = entries[a] \cup {<<k, x>>} \cup entries[b]
      BY <3>1
    <3> QED BY <3>2, <3>3, <3>4, <3>5
  <2>5. CASE a # Map!Empty /\ b = Map!Empty
    <3>1. Map!IsEmpty(b) /\ ~ Map!IsEmpty(a) /\ b.size = 0 /\ entries[b] = {}
      <4>1. ~ Map!IsEmpty(a)
        BY <2>5, Parts
      <4>2. Map!IsEmpty(b) /\ b.size = 0 /\ entries[b] = {}
        BY <2>5, EmptyFields DEF Map!IsEmpty, Map!SearchTrees
      <4> QED BY <4>1, <4>2
    <3>2. op.link[<<k, x, a, b>>] = op.insertMax[<<k, x, a>>]
      BY <2>1, <3>1
    <3>3. Map!Holds(V, entries, op.insertMax[<<k, x, a>>], a.size + 1, entries[a] \cup {<<k, x>>})
      BY InsertMaxFacts
    <3>4. a.size + 1 = 1 + a.size + b.size
      BY <2>2, <3>1
    <3>5. entries[a] \cup {<<k, x>>} = entries[a] \cup {<<k, x>>} \cup entries[b]
      BY <3>1
    <3> QED BY <3>2, <3>3, <3>4, <3>5
  <2>6. CASE a # Map!Empty /\ b # Map!Empty /\ Map!Delta * a.size < b.size
    <3> DEFINE t == op.link[<<k, x, a, b.lhs>>]
               m == 1 + a.size + b.lhs.size
               A == entries[a] \cup {<<k, x>>} \cup entries[b.lhs]
    <3>1. ~ Map!IsEmpty(a) /\ ~ Map!IsEmpty(b) /\ a.size # 0
      BY <2>6, Parts
    <3>2. op.link[<<k, x, a, b>>] = Map!BalanceL(b.key, b.value, t, b.rhs)
      BY <2>1, <2>6, <3>1
    <3>3. /\ b.key \in K /\ b.value \in X /\ b.lhs \in V /\ b.rhs \in V
          /\ b.lhs.size \in Nat /\ b.rhs.size \in Nat /\ b.size = 1 + b.lhs.size + b.rhs.size
          /\ Map!Balanced(b.lhs.size, b.rhs.size)
          /\ Map!Below(entries[b.lhs], b.key) /\ Map!Above(entries[b.rhs], b.key)
          /\ entries[b] = entries[b.lhs] \cup {<<b.key, b.value>>} \cup entries[b.rhs]
      BY <2>6, Parts
    <3>4. k < b.key /\ Map!Above(entries[b.lhs], k)
      BY <2>6, AboveParts
    <3>5. P(a, b.lhs)
      <4>1. a.size + b.lhs.size \in S
        <5> HIDE DEF S
        <5> QED BY <1>1, <2>2, <3>3
      <4> QED BY <3>3, <3>4, <4>1
    <3>6. Map!Below(A, b.key)
      <4>1. Map!Below(entries[a], b.key)
        BY <3>3, <3>4, FurtherOut
      <4> QED BY <3>3, <3>4, <4>1, BelowNode
    <3>7. Map!Holds(V, entries, b.rhs, b.rhs.size, entries[b.rhs])
      BY <3>3 DEF Map!Holds
    <3>8. /\ b.rhs.size <= Map!Delta * m
          /\ 3 * m <= 13 * b.rhs.size + 3
      <4>1. /\ b.rhs.size <= Map!Delta * (a.size + b.lhs.size)
            /\ 3 * (1 + a.size + b.lhs.size) <= 13 * b.rhs.size + 3
        BY <2>2, <2>6, <3>1, <3>3, LinkedPart
      <4> QED BY <2>2, <3>3, <4>1 DEF Map!Delta
    <3> HIDE DEF t, m, A
    <3>9. Map!Holds(V, entries, t, m, A)
      BY <3>5 DEF t, m, A
    <3>10. Map!Holds(V, entries, Map!BalanceL(b.key, b.value, t, b.rhs), 1 + m + b.rhs.size,
                      A \cup {<<b.key, b.value>>} \cup entries[b.rhs])
      BY <3>3, <3>6, <3>7, <3>8, <3>9, BalanceLRestores
    <3>11. 1 + m + b.rhs.size = 1 + a.size + b.size
      BY <2>2, <3>3 DEF m
    <3>12. A \cup {<<b.key, b.value>>} \cup entries[b.rhs] = entries[a] \cup {<<k, x>>} \cup entries[b]
      BY <3>3 DEF A
    <3> QED BY <3>2, <3>10, <3>11, <3>12
  <2>7. CASE /\ a # Map!Empty /\ b # Map!Empty
             /\ ~ (Map!Delta * a.size < b.size) /\ Map!Delta * b.size < a.size
    <3> DEFINE t == op.link[<<k, x, a.rhs, b>>]
               m == 1 + a.rhs.size + b.size
               A == entries[a.rhs] \cup {<<k, x>>} \cup entries[b]
    <3>1. ~ Map!IsEmpty(a) /\ ~ Map!IsEmpty(b) /\ b.size # 0
      BY <2>7, Parts
    <3>2. op.link[<<k, x, a, b>>] = Map!BalanceR(a.key, a.value, a.lhs, t)
      BY <2>1, <2>7, <3>1
    <3>3. /\ a.key \in K /\ a.value \in X /\ a.lhs \in V /\ a.rhs \in V
          /\ a.lhs.size \in Nat /\ a.rhs.size \in Nat /\ a.size = 1 + a.lhs.size + a.rhs.size
          /\ Map!Balanced(a.lhs.size, a.rhs.size)
          /\ Map!Below(entries[a.lhs], a.key) /\ Map!Above(entries[a.rhs], a.key)
          /\ entries[a] = entries[a.lhs] \cup {<<a.key, a.value>>} \cup entries[a.rhs]
      BY <2>7, Parts
    <3>4. a.key < k /\ Map!Below(entries[a.rhs], k)
      BY <2>7, BelowParts
    <3>5. P(a.rhs, b)
      <4>1. a.rhs.size + b.size \in S
        <5> HIDE DEF S
        <5> QED BY <1>1, <2>2, <3>3
      <4> QED BY <3>3, <3>4, <4>1
    <3>6. Map!Above(A, a.key)
      <4>1. Map!Above(entries[b], a.key)
        BY <3>3, <3>4, FurtherOut
      <4> QED BY <3>3, <3>4, <4>1, AboveNode
    <3>7. Map!Holds(V, entries, a.lhs, a.lhs.size, entries[a.lhs])
      BY <3>3 DEF Map!Holds
    <3>8. /\ a.lhs.size <= Map!Delta * m
          /\ 3 * m <= 13 * a.lhs.size + 3
      BY <2>2, <2>7, <3>1, <3>3 DEF Map!Balanced, Map!Delta
    <3> HIDE DEF t, m, A
    <3>9. Map!Holds(V, entries, t, m, A)
      BY <3>5 DEF t, m, A
    <3>10. Map!Holds(V, entries, Map!BalanceR(a.key, a.value, a.lhs, t), 1 + a.lhs.size + m,
                      entries[a.lhs] \cup {<<a.key, a.value>>} \cup A)
      BY <3>3, <3>6, <3>7, <3>8, <3>9, BalanceRRestores
    <3>11. 1 + a.lhs.size + m = 1 + a.size + b.size
      BY <2>2, <3>3 DEF m
    <3>12. entries[a.lhs] \cup {<<a.key, a.value>>} \cup A = entries[a] \cup {<<k, x>>} \cup entries[b]
      BY <3>3 DEF A
    <3> QED BY <3>2, <3>10, <3>11, <3>12
  <2>8. CASE /\ a # Map!Empty /\ b # Map!Empty
             /\ ~ (Map!Delta * a.size < b.size) /\ ~ (Map!Delta * b.size < a.size)
    <3>1. ~ Map!IsEmpty(a) /\ ~ Map!IsEmpty(b)
      BY <2>8, Parts
    <3>2. op.link[<<k, x, a, b>>] = Map!MkBin(k, x, a, b)
      BY <2>1, <2>8, <3>1
    <3>3. Map!Balanced(a.size, b.size)
      BY <2>2, <2>8 DEF Map!Balanced, Map!Delta
    <3> QED BY <2>3, <3>2, <3>3, Joined
  <2> QED BY <2>4, <2>5, <2>6, <2>7, <2>8
<1>2. Nat \subseteq S
  <2> HIDE DEF S
  <2> QED BY <1>1, SetInduction
<1>3. l.size + r.size \in Nat
  BY Parts
<1> QED BY <1>2, <1>3

(* The same without a key in between: _link2.                              *)
THEOREM Link2Joins ==
    ASSUME NEW K, NEW V, NEW X, NEW entries, NEW op, Map!SearchTrees(K, V, X, entries),
           Map!Balancing(K, V, X, op),
           NEW l \in V, NEW r \in V, Map!Precede(entries[l], entries[r])
    PROVE  Map!Holds(V, entries, op.link2[<<l, r>>], l.size + r.size, entries[l] \cup entries[r])
<1> DEFINE P(a, b) == Map!Holds(V, entries, op.link2[<<a, b>>], a.size + b.size,
                                 entries[a] \cup entries[b])
           S == {n \in Nat : \A a \in V, b \in V :
                   a.size + b.size = n /\ Map!Precede(entries[a], entries[b]) => P(a, b)}
<1>1. ASSUME NEW n \in Nat, \A m \in Nat : m < n => m \in S
      PROVE  n \in S
  <2> SUFFICES ASSUME NEW a \in V, NEW b \in V, a.size + b.size = n,
                      Map!Precede(entries[a], entries[b])
               PROVE  P(a, b)
    OBVIOUS
  <2>1. op.link2[<<a, b>>] =
          IF Map!IsEmpty(a) THEN b
          ELSE IF Map!IsEmpty(b) THEN a
          ELSE IF Map!Delta * a.size < b.size
            THEN Map!BalanceL(b.key, b.value, op.link2[<<a, b.lhs>>], b.rhs)
          ELSE IF Map!Delta * b.size < a.size
            THEN Map!BalanceR(a.key, a.value, a.lhs, op.link2[<<a.rhs, b>>])
          ELSE op.glue[<<a, b>>]
    BY DEF Map!Balancing, Map!Link2Step
  <2>2. a.size \in Nat /\ b.size \in Nat
    BY Parts
  <2>4. CASE a = Map!Empty
    <3>1. Map!IsEmpty(a) /\ a.size = 0 /\ entries[a] = {}
      BY <2>4, EmptyFields DEF Map!IsEmpty, Map!SearchTrees
    <3> QED BY <2>1, <2>2, <3>1 DEF Map!Holds
  <2>5. CASE a # Map!Empty /\ b = Map!Empty
    <3>1. Map!IsEmpty(b) /\ ~ Map!IsEmpty(a) /\ b.size = 0 /\ entries[b] = {}
      <4>1. ~ Map!IsEmpty(a)
        BY <2>5, Parts
      <4>2. Map!IsEmpty(b) /\ b.size = 0 /\ entries[b] = {}
        BY <2>5, EmptyFields DEF Map!IsEmpty, Map!SearchTrees
      <4> QED BY <4>1, <4>2
    <3> QED BY <2>1, <2>2, <3>1 DEF Map!Holds
  <2>6. CASE a # Map!Empty /\ b # Map!Empty /\ Map!Delta * a.size < b.size
    <3> DEFINE t == op.link2[<<a, b.lhs>>]
               m == a.size + b.lhs.size
               A == entries[a] \cup entries[b.lhs]
    <3>1. ~ Map!IsEmpty(a) /\ ~ Map!IsEmpty(b) /\ a.size # 0
      BY <2>6, Parts
    <3>2. op.link2[<<a, b>>] = Map!BalanceL(b.key, b.value, t, b.rhs)
      BY <2>1, <2>6, <3>1
    <3>3. /\ b.key \in K /\ b.value \in X /\ b.lhs \in V /\ b.rhs \in V
          /\ b.lhs.size \in Nat /\ b.rhs.size \in Nat /\ b.size = 1 + b.lhs.size + b.rhs.size
          /\ Map!Balanced(b.lhs.size, b.rhs.size)
          /\ Map!Below(entries[b.lhs], b.key) /\ Map!Above(entries[b.rhs], b.key)
          /\ entries[b] = entries[b.lhs] \cup {<<b.key, b.value>>} \cup entries[b.rhs]
      BY <2>6, Parts
    <3>4. Map!Precede(entries[a], entries[b.lhs])
      BY <3>3 DEF Map!Precede
    <3>5. P(a, b.lhs)
      <4>1. a.size + b.lhs.size \in S
        <5> HIDE DEF S
        <5> QED BY <1>1, <2>2, <3>3
      <4> QED BY <3>3, <3>4, <4>1
    <3>6. Map!Below(A, b.key)
      <4>1. <<b.key, b.value>>[1] = b.key
        OBVIOUS
      <4>2. Map!Below(entries[a], b.key)
        BY <3>3, <4>1 DEF Map!Precede, Map!Below
      <4> QED BY <3>3, <4>2 DEF Map!Below
    <3>7. Map!Holds(V, entries, b.rhs, b.rhs.size, entries[b.rhs])
      BY <3>3 DEF Map!Holds
    <3>8. /\ b.rhs.size <= Map!Delta * m
          /\ 3 * m <= 13 * b.rhs.size + 3
      BY <2>2, <2>6, <3>1, <3>3 DEF Map!Balanced, Map!Delta
    <3> HIDE DEF t, m, A
    <3>9. Map!Holds(V, entries, t, m, A)
      BY <3>5 DEF t, m, A
    <3>10. Map!Holds(V, entries, Map!BalanceL(b.key, b.value, t, b.rhs), 1 + m + b.rhs.size,
                      A \cup {<<b.key, b.value>>} \cup entries[b.rhs])
      BY <3>3, <3>6, <3>7, <3>8, <3>9, BalanceLRestores
    <3>11. 1 + m + b.rhs.size = a.size + b.size
      BY <2>2, <3>3 DEF m
    <3>12. A \cup {<<b.key, b.value>>} \cup entries[b.rhs] = entries[a] \cup entries[b]
      BY <3>3 DEF A
    <3> QED BY <3>2, <3>10, <3>11, <3>12
  <2>7. CASE /\ a # Map!Empty /\ b # Map!Empty
             /\ ~ (Map!Delta * a.size < b.size) /\ Map!Delta * b.size < a.size
    <3> DEFINE t == op.link2[<<a.rhs, b>>]
               m == a.rhs.size + b.size
               A == entries[a.rhs] \cup entries[b]
    <3>1. ~ Map!IsEmpty(a) /\ ~ Map!IsEmpty(b) /\ b.size # 0
      BY <2>7, Parts
    <3>2. op.link2[<<a, b>>] = Map!BalanceR(a.key, a.value, a.lhs, t)
      BY <2>1, <2>7, <3>1
    <3>3. /\ a.key \in K /\ a.value \in X /\ a.lhs \in V /\ a.rhs \in V
          /\ a.lhs.size \in Nat /\ a.rhs.size \in Nat /\ a.size = 1 + a.lhs.size + a.rhs.size
          /\ Map!Balanced(a.lhs.size, a.rhs.size)
          /\ Map!Below(entries[a.lhs], a.key) /\ Map!Above(entries[a.rhs], a.key)
          /\ entries[a] = entries[a.lhs] \cup {<<a.key, a.value>>} \cup entries[a.rhs]
      BY <2>7, Parts
    <3>4. Map!Precede(entries[a.rhs], entries[b])
      BY <3>3 DEF Map!Precede
    <3>5. P(a.rhs, b)
      <4>1. a.rhs.size + b.size \in S
        <5> HIDE DEF S
        <5> QED BY <1>1, <2>2, <3>3
      <4> QED BY <3>3, <3>4, <4>1
    <3>6. Map!Above(A, a.key)
      <4>1. <<a.key, a.value>>[1] = a.key
        OBVIOUS
      <4>2. Map!Above(entries[b], a.key)
        BY <3>3, <4>1 DEF Map!Precede, Map!Above
      <4> QED BY <3>3, <4>2 DEF Map!Above
    <3>7. Map!Holds(V, entries, a.lhs, a.lhs.size, entries[a.lhs])
      BY <3>3 DEF Map!Holds
    <3>8. /\ a.lhs.size <= Map!Delta * m
          /\ 3 * m <= 13 * a.lhs.size + 3
      BY <2>2, <2>7, <3>1, <3>3 DEF Map!Balanced, Map!Delta
    <3> HIDE DEF t, m, A
    <3>9. Map!Holds(V, entries, t, m, A)
      BY <3>5 DEF t, m, A
    <3>10. Map!Holds(V, entries, Map!BalanceR(a.key, a.value, a.lhs, t), 1 + a.lhs.size + m,
                      entries[a.lhs] \cup {<<a.key, a.value>>} \cup A)
      BY <3>3, <3>6, <3>7, <3>8, <3>9, BalanceRRestores
    <3>11. 1 + a.lhs.size + m = a.size + b.size
      BY <2>2, <3>3 DEF m
    <3>12. entries[a.lhs] \cup {<<a.key, a.value>>} \cup A = entries[a] \cup entries[b]
      BY <3>3 DEF A
    <3> QED BY <3>2, <3>10, <3>11, <3>12
  <2>8. CASE /\ a # Map!Empty /\ b # Map!Empty
             /\ ~ (Map!Delta * a.size < b.size) /\ ~ (Map!Delta * b.size < a.size)
    <3>1. ~ Map!IsEmpty(a) /\ ~ Map!IsEmpty(b)
      BY <2>8, Parts
    <3>2. op.link2[<<a, b>>] = op.glue[<<a, b>>]
      BY <2>1, <2>8, <3>1
    <3>3. Map!Balanced(a.size, b.size)
      BY <2>2, <2>8 DEF Map!Balanced, Map!Delta
    <3> QED BY <3>2, <3>3, GlueFacts
  <2> QED BY <2>4, <2>5, <2>6, <2>7, <2>8
<1>2. Nat \subseteq S
  <2> HIDE DEF S
  <2> QED BY <1>1, SetInduction
<1>3. l.size + r.size \in Nat
  BY Parts
<1> QED BY <1>2, <1>3

(* The entries beside the one of a node: where a key is not.               *)
LEMMA Sides ==
    ASSUME NEW K, NEW V, NEW X, NEW entries, Map!SearchTrees(K, V, X, entries),
           NEW t \in V, t # Map!Empty, NEW k \in K
    PROVE  /\ k \in Nat /\ t.key \in Nat
           /\ k < t.key => \A e \in {<<t.key, t.value>>} \cup entries[t.rhs] : k < e[1] /\ e[1] # k
           /\ t.key < k => \A e \in entries[t.lhs] \cup {<<t.key, t.value>>} : e[1] < k /\ e[1] # k
           /\ \A e \in entries[t.lhs] : e[1] < t.key /\ e[1] # t.key
           /\ \A e \in entries[t.rhs] : t.key < e[1] /\ e[1] # t.key
<1>1. /\ t.key \in K /\ t.lhs \in V /\ t.rhs \in V
      /\ Map!Below(entries[t.lhs], t.key) /\ Map!Above(entries[t.rhs], t.key)
  BY Parts
<1>2. /\ K \subseteq Nat
      /\ entries[t.lhs] \subseteq K \X X /\ entries[t.rhs] \subseteq K \X X
  BY <1>1 DEF Map!SearchTrees
<1>3. /\ \A e \in entries[t.lhs] : e[1] \in Nat
      /\ \A e \in entries[t.rhs] : e[1] \in Nat
  BY <1>2
<1>4. <<t.key, t.value>>[1] = t.key
  OBVIOUS
<1> QED BY <1>1, <1>2, <1>3, <1>4 DEF Map!Below, Map!Above

(* Where a key is: in one of the subtrees, or here.                        *)
LEMMA WithoutParts ==
    ASSUME NEW K, NEW V, NEW X, NEW entries, Map!SearchTrees(K, V, X, entries),
           NEW t \in V, t # Map!Empty, NEW k \in K
    PROVE  /\ k < t.key =>
                /\ Map!Has(entries[t], k) <=> Map!Has(entries[t.lhs], k)
                /\ Map!Without(entries[t], k) =
                      Map!Without(entries[t.lhs], k) \cup {<<t.key, t.value>>} \cup entries[t.rhs]
           /\ t.key < k =>
                /\ Map!Has(entries[t], k) <=> Map!Has(entries[t.rhs], k)
                /\ Map!Without(entries[t], k) =
                      entries[t.lhs] \cup {<<t.key, t.value>>} \cup Map!Without(entries[t.rhs], k)
           /\ k = t.key =>
                /\ Map!Has(entries[t], k)
                /\ Map!Without(entries[t], k) = entries[t.lhs] \cup entries[t.rhs]
           /\ k < t.key \/ t.key < k \/ k = t.key
           /\ k > t.key <=> t.key < k
           /\ ~ (k < t.key /\ t.key < k) /\ ~ (k < t.key /\ k = t.key) /\ ~ (t.key < k /\ k = t.key)
<1>1. entries[t] = entries[t.lhs] \cup {<<t.key, t.value>>} \cup entries[t.rhs]
  BY Parts
<1>2. <<t.key, t.value>>[1] = t.key
  OBVIOUS
<1>3. ASSUME k < t.key
      PROVE  /\ Map!Has(entries[t], k) <=> Map!Has(entries[t.lhs], k)
             /\ Map!Without(entries[t], k) =
                  Map!Without(entries[t.lhs], k) \cup {<<t.key, t.value>>} \cup entries[t.rhs]
  BY <1>1, <1>3, Sides DEF Map!Without, Map!Has
<1>4. ASSUME t.key < k
      PROVE  /\ Map!Has(entries[t], k) <=> Map!Has(entries[t.rhs], k)
             /\ Map!Without(entries[t], k) =
                  entries[t.lhs] \cup {<<t.key, t.value>>} \cup Map!Without(entries[t.rhs], k)
  BY <1>1, <1>4, Sides DEF Map!Without, Map!Has
<1>5. ASSUME k = t.key
      PROVE  /\ Map!Has(entries[t], k)
             /\ Map!Without(entries[t], k) = entries[t.lhs] \cup entries[t.rhs]
  BY <1>1, <1>2, <1>5, Sides DEF Map!Without, Map!Has
<1>6. /\ k < t.key \/ t.key < k \/ k = t.key
      /\ k > t.key <=> t.key < k
      /\ ~ (k < t.key /\ t.key < k) /\ ~ (k < t.key /\ k = t.key) /\ ~ (t.key < k /\ k = t.key)
  BY Sides
<1> QED BY <1>3, <1>4, <1>5, <1>6

(* A new value for a key, in the subtree that it belongs to, or here.      *)
LEMMA PutParts ==
    ASSUME NEW K, NEW V, NEW X, NEW entries, Map!SearchTrees(K, V, X, entries),
           NEW t \in V, t # Map!Empty, NEW k \in K, NEW v \in X
    PROVE  /\ k < t.key =>
                /\ Map!Put(entries[t], k, v) =
                      Map!Put(entries[t.lhs], k, v) \cup {<<t.key, t.value>>} \cup entries[t.rhs]
                /\ Map!PutNew(entries[t], k, v) =
                      Map!PutNew(entries[t.lhs], k, v) \cup {<<t.key, t.value>>} \cup entries[t.rhs]
           /\ t.key < k =>
                /\ Map!Put(entries[t], k, v) =
                      entries[t.lhs] \cup {<<t.key, t.value>>} \cup Map!Put(entries[t.rhs], k, v)
                /\ Map!PutNew(entries[t], k, v) =
                      entries[t.lhs] \cup {<<t.key, t.value>>} \cup Map!PutNew(entries[t.rhs], k, v)
           /\ k = t.key =>
                Map!Put(entries[t], k, v) = entries[t.lhs] \cup {<<k, v>>} \cup entries[t.rhs]
<1>1. entries[t] = entries[t.lhs] \cup {<<t.key, t.value>>} \cup entries[t.rhs]
  BY Parts
<1>2. ASSUME k < t.key
      PROVE  /\ Map!Put(entries[t], k, v) =
                  Map!Put(entries[t.lhs], k, v) \cup {<<t.key, t.value>>} \cup entries[t.rhs]
             /\ Map!PutNew(entries[t], k, v) =
                  Map!PutNew(entries[t.lhs], k, v) \cup {<<t.key, t.value>>} \cup entries[t.rhs]
  <2>1. /\ Map!Has(entries[t], k) <=> Map!Has(entries[t.lhs], k)
        /\ Map!Without(entries[t], k) =
              Map!Without(entries[t.lhs], k) \cup {<<t.key, t.value>>} \cup entries[t.rhs]
    BY <1>2, WithoutParts
  <2> QED BY <1>1, <2>1 DEF Map!Put, Map!PutNew
<1>3. ASSUME t.key < k
      PROVE  /\ Map!Put(entries[t], k, v) =
                  entries[t.lhs] \cup {<<t.key, t.value>>} \cup Map!Put(entries[t.rhs], k, v)
             /\ Map!PutNew(entries[t], k, v) =
                  entries[t.lhs] \cup {<<t.key, t.value>>} \cup Map!PutNew(entries[t.rhs], k, v)
  <2>1. /\ Map!Has(entries[t], k) <=> Map!Has(entries[t.rhs], k)
        /\ Map!Without(entries[t], k) =
              entries[t.lhs] \cup {<<t.key, t.value>>} \cup Map!Without(entries[t.rhs], k)
    BY <1>3, WithoutParts
  <2> QED BY <1>1, <2>1 DEF Map!Put, Map!PutNew
<1>4. ASSUME k = t.key
      PROVE  Map!Put(entries[t], k, v) = entries[t.lhs] \cup {<<k, v>>} \cup entries[t.rhs]
  <2>1. Map!Without(entries[t], k) = entries[t.lhs] \cup entries[t.rhs]
    BY <1>4, WithoutParts
  <2> QED BY <2>1 DEF Map!Put
<1> QED BY <1>2, <1>3, <1>4

(* The keys of a tree after one is put into it, or taken from it.          *)
LEMMA PutBounds ==
    ASSUME NEW es, NEW k, NEW v, NEW j
    PROVE  /\ Map!Below(es, j) /\ k < j =>
                Map!Below(Map!Put(es, k, v), j) /\ Map!Below(Map!PutNew(es, k, v), j)
           /\ Map!Above(es, j) /\ j < k =>
                Map!Above(Map!Put(es, k, v), j) /\ Map!Above(Map!PutNew(es, k, v), j)
           /\ Map!Below(es, j) => Map!Below(Map!Without(es, k), j)
           /\ Map!Above(es, j) => Map!Above(Map!Without(es, k), j)
<1>1. <<k, v>>[1] = k
  OBVIOUS
<1> QED BY <1>1 DEF Map!Below, Map!Above, Map!Put, Map!PutNew, Map!Without

(* A node with another value.                                              *)
LEMMA RevaluedFacts ==
    ASSUME NEW K, NEW V, NEW X, NEW entries, Map!SearchTrees(K, V, X, entries),
           NEW t \in V, t # Map!Empty, NEW v \in X
    PROVE  Map!Holds(V, entries, Map!Bin(t.size, t.key, v, t.lhs, t.rhs), t.size,
                      entries[t.lhs] \cup {<<t.key, v>>} \cup entries[t.rhs])
<1>1. /\ t.key \in K /\ t.lhs \in V /\ t.rhs \in V
      /\ t.size = 1 + t.lhs.size + t.rhs.size
      /\ Map!Balanced(t.lhs.size, t.rhs.size)
      /\ Map!Below(entries[t.lhs], t.key) /\ Map!Above(entries[t.rhs], t.key)
  BY Parts
<1>2. /\ Map!Holds(V, entries, t.lhs, t.lhs.size, entries[t.lhs])
      /\ Map!Holds(V, entries, t.rhs, t.rhs.size, entries[t.rhs])
  BY <1>1 DEF Map!Holds
<1>3. Map!Holds(V, entries, Map!MkBin(t.key, v, t.lhs, t.rhs), 1 + t.lhs.size + t.rhs.size,
                 entries[t.lhs] \cup {<<t.key, v>>} \cup entries[t.rhs])
  BY <1>1, <1>2, Joined
<1>4. Map!MkBin(t.key, v, t.lhs, t.rhs) = Map!Bin(t.size, t.key, v, t.lhs, t.rhs)
  BY <1>1 DEF Map!MkBin
<1> QED BY <1>1, <1>3, <1>4


(* After insert the tree is a valid one, and what it holds is what it held *)
(* with the value of the key replaced, or the key added.                   *)
THEOREM InsertPuts ==
    ASSUME NEW K, NEW V, NEW X, NEW entries, NEW op, Map!SearchTrees(K, V, X, entries),
           Map!OnKeys(K, V, X, op), NEW t \in V, NEW k \in K, NEW v \in X
    PROVE  LET u == op.insert[<<t, k, v>>] IN
           /\ u \in V
           /\ u.size = t.size \/ u.size = t.size + 1
           /\ entries[u] = Map!Put(entries[t], k, v)
<1> DEFINE P(s, u) == u \in V /\ (u.size = s.size \/ u.size = s.size + 1)
                        /\ entries[u] = Map!Put(entries[s], k, v)
           S == {s \in V : P(s, op.insert[<<s, k, v>>])}
<1>1. ASSUME NEW s \in V, \A y \in V : y.size < s.size => y \in S
      PROVE  s \in S
  <2> DEFINE u == op.insert[<<s, k, v>>]
             lu == op.insert[<<s.lhs, k, v>>]
             ru == op.insert[<<s.rhs, k, v>>]
  <2>1. u = IF Map!IsEmpty(s) THEN Map!Leaf(k, v)
            ELSE IF k < s.key THEN Map!GrownL(s, lu)
            ELSE IF k > s.key THEN Map!GrownR(s, ru)
            ELSE Map!Bin(s.size, k, v, s.lhs, s.rhs)
    BY DEF Map!OnKeys, Map!InsertStep
  <2>2. CASE s = Map!Empty
    <3>1. s.size = 0 /\ Map!IsEmpty(s) /\ entries[s] = {}
      BY <2>2, EmptyFields DEF Map!IsEmpty, Map!SearchTrees
    <3>2. Map!Put(entries[s], k, v) = {<<k, v>>}
      BY <3>1 DEF Map!Put, Map!PutNew, Map!Without, Map!Has
    <3>3. Map!Holds(V, entries, Map!Leaf(k, v), 1, {<<k, v>>})
      BY LeafFacts
    <3> HIDE DEF u, lu, ru
    <3>4. P(s, u)
      BY <2>1, <3>1, <3>2, <3>3 DEF Map!Holds
    <3> QED BY <3>4 DEF u
  <2>3. CASE s # Map!Empty
    <3>1. /\ ~ Map!IsEmpty(s) /\ s.lhs \in V /\ s.rhs \in V
          /\ s.lhs.size \in Nat /\ s.rhs.size \in Nat
          /\ s.size = 1 + s.lhs.size + s.rhs.size
          /\ Map!Below(entries[s.lhs], s.key) /\ Map!Above(entries[s.rhs], s.key)
      BY <2>3, Parts
    <3>2. P(s.lhs, lu) /\ P(s.rhs, ru)
      <4>1. s.lhs \in S /\ s.rhs \in S
        <5> HIDE DEF S
        <5> QED BY <1>1, <3>1
      <4> QED BY <4>1
    <3> HIDE DEF u, lu, ru
    <3>3. CASE k < s.key
      <4>1. u = Map!GrownL(s, lu)
        BY <2>1, <3>1, <3>3
      <4>2. Map!Holds(V, entries, lu, lu.size, Map!Put(entries[s.lhs], k, v))
        BY <3>2 DEF Map!Holds
      <4>3. Map!Below(Map!Put(entries[s.lhs], k, v), s.key)
        BY <3>1, <3>3, PutBounds
      <4>4. Map!Holds(V, entries, u, 1 + lu.size + s.rhs.size,
               Map!Put(entries[s.lhs], k, v) \cup {<<s.key, s.value>>} \cup entries[s.rhs])
        BY <2>3, <3>2, <4>1, <4>2, <4>3, GrownLFacts
      <4>5. Map!Put(entries[s], k, v) =
              Map!Put(entries[s.lhs], k, v) \cup {<<s.key, s.value>>} \cup entries[s.rhs]
        BY <2>3, <3>3, PutParts
      <4>6. P(s, u)
        BY <3>1, <3>2, <4>4, <4>5 DEF Map!Holds
      <4> QED BY <4>6 DEF u
    <3>4. CASE s.key < k
      <4>1. u = Map!GrownR(s, ru)
        BY <2>1, <2>3, <3>1, <3>4, WithoutParts
      <4>2. Map!Holds(V, entries, ru, ru.size, Map!Put(entries[s.rhs], k, v))
        BY <3>2 DEF Map!Holds
      <4>3. Map!Above(Map!Put(entries[s.rhs], k, v), s.key)
        BY <3>1, <3>4, PutBounds
      <4>4. Map!Holds(V, entries, u, 1 + s.lhs.size + ru.size,
               entries[s.lhs] \cup {<<s.key, s.value>>} \cup Map!Put(entries[s.rhs], k, v))
        BY <2>3, <3>2, <4>1, <4>2, <4>3, GrownRFacts
      <4>5. Map!Put(entries[s], k, v) =
              entries[s.lhs] \cup {<<s.key, s.value>>} \cup Map!Put(entries[s.rhs], k, v)
        BY <2>3, <3>4, PutParts
      <4>6. P(s, u)
        BY <3>1, <3>2, <4>4, <4>5 DEF Map!Holds
      <4> QED BY <4>6 DEF u
    <3>5. CASE k = s.key
      <4>1. u = Map!Bin(s.size, k, v, s.lhs, s.rhs)
        BY <2>1, <2>3, <3>1, <3>5, WithoutParts
      <4>2. Map!Holds(V, entries, u, s.size, entries[s.lhs] \cup {<<k, v>>} \cup entries[s.rhs])
        BY <2>3, <3>5, <4>1, RevaluedFacts
      <4>3. Map!Put(entries[s], k, v) = entries[s.lhs] \cup {<<k, v>>} \cup entries[s.rhs]
        BY <2>3, <3>5, PutParts
      <4>4. P(s, u)
        BY <4>2, <4>3 DEF Map!Holds
      <4> QED BY <4>4 DEF u
    <3> QED BY <2>3, <3>3, <3>4, <3>5, WithoutParts
  <2> QED BY <2>2, <2>3
<1>2. V \subseteq S
  <2> HIDE DEF S
  <2> QED BY <1>1, TreeInduction
<1> QED BY <1>2

(* After _insertR, the insertion of union, the tree is a valid one, and a  *)
(* value that the key had has stayed.                                      *)
THEOREM InsertRKeeps ==
    ASSUME NEW K, NEW V, NEW X, NEW entries, NEW op, Map!SearchTrees(K, V, X, entries),
           Map!OnKeys(K, V, X, op), NEW t \in V, NEW k \in K, NEW v \in X
    PROVE  LET u == op.insertR[<<t, k, v>>] IN
           /\ u \in V
           /\ u.size = t.size \/ u.size = t.size + 1
           /\ entries[u] = Map!PutNew(entries[t], k, v)
<1> DEFINE P(s, u) == u \in V /\ (u.size = s.size \/ u.size = s.size + 1)
                        /\ entries[u] = Map!PutNew(entries[s], k, v)
           S == {s \in V : P(s, op.insertR[<<s, k, v>>])}
<1>1. ASSUME NEW s \in V, \A y \in V : y.size < s.size => y \in S
      PROVE  s \in S
  <2> DEFINE u == op.insertR[<<s, k, v>>]
             lu == op.insertR[<<s.lhs, k, v>>]
             ru == op.insertR[<<s.rhs, k, v>>]
  <2>1. u = IF Map!IsEmpty(s) THEN Map!Leaf(k, v)
            ELSE IF k < s.key THEN Map!GrownL(s, lu)
            ELSE IF k > s.key THEN Map!GrownR(s, ru)
            ELSE s
    BY DEF Map!OnKeys, Map!InsertRStep
  <2>2. CASE s = Map!Empty
    <3>1. s.size = 0 /\ Map!IsEmpty(s) /\ entries[s] = {}
      BY <2>2, EmptyFields DEF Map!IsEmpty, Map!SearchTrees
    <3>2. Map!PutNew(entries[s], k, v) = {<<k, v>>}
      BY <3>1 DEF Map!Put, Map!PutNew, Map!Without, Map!Has
    <3>3. Map!Holds(V, entries, Map!Leaf(k, v), 1, {<<k, v>>})
      BY LeafFacts
    <3> HIDE DEF u, lu, ru
    <3>4. P(s, u)
      BY <2>1, <3>1, <3>2, <3>3 DEF Map!Holds
    <3> QED BY <3>4 DEF u
  <2>3. CASE s # Map!Empty
    <3>1. /\ ~ Map!IsEmpty(s) /\ s.lhs \in V /\ s.rhs \in V
          /\ s.lhs.size \in Nat /\ s.rhs.size \in Nat
          /\ s.size = 1 + s.lhs.size + s.rhs.size
          /\ Map!Below(entries[s.lhs], s.key) /\ Map!Above(entries[s.rhs], s.key)
      BY <2>3, Parts
    <3>2. P(s.lhs, lu) /\ P(s.rhs, ru)
      <4>1. s.lhs \in S /\ s.rhs \in S
        <5> HIDE DEF S
        <5> QED BY <1>1, <3>1
      <4> QED BY <4>1
    <3> HIDE DEF u, lu, ru
    <3>3. CASE k < s.key
      <4>1. u = Map!GrownL(s, lu)
        BY <2>1, <3>1, <3>3
      <4>2. Map!Holds(V, entries, lu, lu.size, Map!PutNew(entries[s.lhs], k, v))
        BY <3>2 DEF Map!Holds
      <4>3. Map!Below(Map!PutNew(entries[s.lhs], k, v), s.key)
        BY <3>1, <3>3, PutBounds
      <4>4. Map!Holds(V, entries, u, 1 + lu.size + s.rhs.size,
               Map!PutNew(entries[s.lhs], k, v) \cup {<<s.key, s.value>>} \cup entries[s.rhs])
        BY <2>3, <3>2, <4>1, <4>2, <4>3, GrownLFacts
      <4>5. Map!PutNew(entries[s], k, v) =
              Map!PutNew(entries[s.lhs], k, v) \cup {<<s.key, s.value>>} \cup entries[s.rhs]
        BY <2>3, <3>3, PutParts
      <4>6. P(s, u)
        BY <3>1, <3>2, <4>4, <4>5 DEF Map!Holds
      <4> QED BY <4>6 DEF u
    <3>4. CASE s.key < k
      <4>1. u = Map!GrownR(s, ru)
        BY <2>1, <2>3, <3>1, <3>4, WithoutParts
      <4>2. Map!Holds(V, entries, ru, ru.size, Map!PutNew(entries[s.rhs], k, v))
        BY <3>2 DEF Map!Holds
      <4>3. Map!Above(Map!PutNew(entries[s.rhs], k, v), s.key)
        BY <3>1, <3>4, PutBounds
      <4>4. Map!Holds(V, entries, u, 1 + s.lhs.size + ru.size,
               entries[s.lhs] \cup {<<s.key, s.value>>} \cup Map!PutNew(entries[s.rhs], k, v))
        BY <2>3, <3>2, <4>1, <4>2, <4>3, GrownRFacts
      <4>5. Map!PutNew(entries[s], k, v) =
              entries[s.lhs] \cup {<<s.key, s.value>>} \cup Map!PutNew(entries[s.rhs], k, v)
        BY <2>3, <3>4, PutParts
      <4>6. P(s, u)
        BY <3>1, <3>2, <4>4, <4>5 DEF Map!Holds
      <4> QED BY <4>6 DEF u
    <3>5. CASE k = s.key
      <4>1. u = s
        BY <2>1, <2>3, <3>1, <3>5, WithoutParts
      <4>2. Map!Has(entries[s], k)
        BY <2>3, <3>5, WithoutParts
      <4>3. P(s, u)
        BY <4>1, <4>2 DEF Map!PutNew
      <4> QED BY <4>3 DEF u
    <3> QED BY <2>3, <3>3, <3>4, <3>5, WithoutParts
  <2> QED BY <2>2, <2>3
<1>2. V \subseteq S
  <2> HIDE DEF S
  <2> QED BY <1>1, TreeInduction
<1> QED BY <1>2

(* The entries of a node are those below its key, its own, and those above.*)
LEMMA NodePrecedes ==
    ASSUME NEW K, NEW V, NEW X, NEW entries, Map!SearchTrees(K, V, X, entries),
           NEW t \in V, t # Map!Empty, NEW A, NEW B,
           A \subseteq entries[t.lhs], B \subseteq entries[t.rhs]
    PROVE  /\ Map!Below(A, t.key) /\ Map!Above(B, t.key)
           /\ Map!Precede(A, B)
<1>1. /\ t.key \in K /\ t.lhs \in V /\ t.rhs \in V
      /\ Map!Below(entries[t.lhs], t.key) /\ Map!Above(entries[t.rhs], t.key)
  BY Parts
<1>2. /\ K \subseteq Nat
      /\ entries[t.lhs] \subseteq K \X X /\ entries[t.rhs] \subseteq K \X X
  BY <1>1 DEF Map!SearchTrees
<1>3. /\ t.key \in Nat
      /\ \A e \in entries[t.lhs] : e[1] \in Nat
      /\ \A e \in entries[t.rhs] : e[1] \in Nat
  BY <1>1, <1>2
<1> QED BY <1>1, <1>3 DEF Map!Below, Map!Above, Map!Precede

(* After remove the tree is a valid one, and holds all that it held but    *)
(* the key.                                                                *)
THEOREM RemoveTakesAway ==
    ASSUME NEW K, NEW V, NEW X, NEW entries, NEW op, Map!SearchTrees(K, V, X, entries),
           Map!Balancing(K, V, X, op), Map!OnKeys(K, V, X, op), NEW t \in V, NEW k \in K
    PROVE  LET u == op.remove[<<t, k>>] IN
           /\ u \in V
           /\ u.size = t.size \/ u.size + 1 = t.size
           /\ entries[u] = Map!Without(entries[t], k)
<1> DEFINE P(s, u) == u \in V /\ (u.size = s.size \/ u.size + 1 = s.size)
                        /\ entries[u] = Map!Without(entries[s], k)
           S == {s \in V : P(s, op.remove[<<s, k>>])}
<1>1. ASSUME NEW s \in V, \A y \in V : y.size < s.size => y \in S
      PROVE  s \in S
  <2> DEFINE u == op.remove[<<s, k>>]
             lu == op.remove[<<s.lhs, k>>]
             ru == op.remove[<<s.rhs, k>>]
  <2>1. u = IF Map!IsEmpty(s) THEN Map!Empty
            ELSE IF k < s.key THEN Map!ShrunkL(s, lu)
            ELSE IF k > s.key THEN Map!ShrunkR(s, ru)
            ELSE op.glue[<<s.lhs, s.rhs>>]
    BY DEF Map!OnKeys, Map!RemoveStep
  <2>2. CASE s = Map!Empty
    <3>1. Map!IsEmpty(s) /\ entries[s] = {}
      BY <2>2, EmptyFields DEF Map!IsEmpty, Map!SearchTrees
    <3>2. Map!Without(entries[s], k) = entries[s]
      BY <3>1 DEF Map!Without
    <3> HIDE DEF u, lu, ru
    <3>3. P(s, u)
      BY <2>1, <2>2, <3>1, <3>2
    <3> QED BY <3>3 DEF u
  <2>3. CASE s # Map!Empty
    <3>1. /\ ~ Map!IsEmpty(s) /\ s.lhs \in V /\ s.rhs \in V
          /\ s.lhs.size \in Nat /\ s.rhs.size \in Nat
          /\ s.size = 1 + s.lhs.size + s.rhs.size
          /\ Map!Balanced(s.lhs.size, s.rhs.size)
          /\ Map!Below(entries[s.lhs], s.key) /\ Map!Above(entries[s.rhs], s.key)
      BY <2>3, Parts
    <3>2. P(s.lhs, lu) /\ P(s.rhs, ru)
      <4>1. s.lhs \in S /\ s.rhs \in S
        <5> HIDE DEF S
        <5> QED BY <1>1, <3>1
      <4> QED BY <4>1
    <3> HIDE DEF u, lu, ru
    <3>3. CASE k < s.key
      <4>1. u = Map!ShrunkL(s, lu)
        BY <2>1, <3>1, <3>3
      <4>2. Map!Holds(V, entries, lu, lu.size, Map!Without(entries[s.lhs], k))
        BY <3>2 DEF Map!Holds
      <4>3. Map!Below(Map!Without(entries[s.lhs], k), s.key)
        BY <3>1 DEF Map!Below, Map!Without
      <4>4. Map!Holds(V, entries, u, 1 + lu.size + s.rhs.size,
               Map!Without(entries[s.lhs], k) \cup {<<s.key, s.value>>} \cup entries[s.rhs])
        BY <2>3, <3>2, <4>1, <4>2, <4>3, ShrunkLFacts
      <4>5. Map!Without(entries[s], k) =
              Map!Without(entries[s.lhs], k) \cup {<<s.key, s.value>>} \cup entries[s.rhs]
        BY <2>3, <3>3, WithoutParts
      <4>6. lu.size \in Nat
        BY <3>2, Parts
      <4>7. P(s, u)
        BY <3>1, <3>2, <4>4, <4>5, <4>6 DEF Map!Holds
      <4> QED BY <4>7 DEF u
    <3>4. CASE s.key < k
      <4>1. u = Map!ShrunkR(s, ru)
        BY <2>1, <2>3, <3>1, <3>4, WithoutParts
      <4>2. Map!Holds(V, entries, ru, ru.size, Map!Without(entries[s.rhs], k))
        BY <3>2 DEF Map!Holds
      <4>3. Map!Above(Map!Without(entries[s.rhs], k), s.key)
        BY <3>1 DEF Map!Above, Map!Without
      <4>4. Map!Holds(V, entries, u, 1 + s.lhs.size + ru.size,
               entries[s.lhs] \cup {<<s.key, s.value>>} \cup Map!Without(entries[s.rhs], k))
        BY <2>3, <3>2, <4>1, <4>2, <4>3, ShrunkRFacts
      <4>5. Map!Without(entries[s], k) =
              entries[s.lhs] \cup {<<s.key, s.value>>} \cup Map!Without(entries[s.rhs], k)
        BY <2>3, <3>4, WithoutParts
      <4>6. ru.size \in Nat
        BY <3>2, Parts
      <4>7. P(s, u)
        BY <3>1, <3>2, <4>4, <4>5, <4>6 DEF Map!Holds
      <4> QED BY <4>7 DEF u
    <3>5. CASE k = s.key
      <4>1. u = op.glue[<<s.lhs, s.rhs>>]
        BY <2>1, <2>3, <3>1, <3>5, WithoutParts
      <4>2. Map!Precede(entries[s.lhs], entries[s.rhs])
        BY <2>3, NodePrecedes
      <4>3. Map!Holds(V, entries, u, s.lhs.size + s.rhs.size, entries[s.lhs] \cup entries[s.rhs])
        BY <3>1, <4>1, <4>2, GlueFacts
      <4>4. Map!Without(entries[s], k) = entries[s.lhs] \cup entries[s.rhs]
        BY <2>3, <3>5, WithoutParts
      <4>5. P(s, u)
        BY <3>1, <4>3, <4>4 DEF Map!Holds
      <4> QED BY <4>5 DEF u
    <3> QED BY <2>3, <3>3, <3>4, <3>5, WithoutParts
  <2> QED BY <2>2, <2>3
<1>2. V \subseteq S
  <2> HIDE DEF S
  <2> QED BY <1>1, TreeInduction
<1> QED BY <1>2

(* A value that lookup finds is in the tree for that key, and it finds one *)
(* if there is one.                                                        *)
THEOREM LookupFinds ==
    ASSUME NEW K, NEW V, NEW X, NEW entries, NEW op, Map!SearchTrees(K, V, X, entries),
           Map!OnKeys(K, V, X, op), NEW t \in V, NEW k \in K
    PROVE  \/ op.lookup[<<t, k>>] = Map!None /\ ~ Map!Has(entries[t], k)
           \/ \E x \in X : op.lookup[<<t, k>>] = Map!Some(x) /\ <<k, x>> \in entries[t]
<1> DEFINE P(s, o) == \/ o = Map!None /\ ~ Map!Has(entries[s], k)
                      \/ \E x \in X : o = Map!Some(x) /\ <<k, x>> \in entries[s]
           S == {s \in V : P(s, op.lookup[<<s, k>>])}
<1>1. ASSUME NEW s \in V, \A y \in V : y.size < s.size => y \in S
      PROVE  s \in S
  <2> DEFINE o == op.lookup[<<s, k>>]
             lo == op.lookup[<<s.lhs, k>>]
             ro == op.lookup[<<s.rhs, k>>]
  <2>1. o = IF Map!IsEmpty(s) THEN Map!None
            ELSE IF k < s.key THEN lo
            ELSE IF k > s.key THEN ro
            ELSE Map!Some(s.value)
    BY DEF Map!OnKeys, Map!LookupStep
  <2>2. CASE s = Map!Empty
    <3>1. Map!IsEmpty(s) /\ ~ Map!Has(entries[s], k)
      BY <2>2, EmptyFields DEF Map!IsEmpty, Map!SearchTrees, Map!Has
    <3> HIDE DEF o, lo, ro
    <3>3. P(s, o)
      BY <2>1, <3>1
    <3> QED BY <3>3 DEF o
  <2>3. CASE s # Map!Empty
    <3>1. /\ ~ Map!IsEmpty(s) /\ s.lhs \in V /\ s.rhs \in V /\ s.value \in X
          /\ s.lhs.size \in Nat /\ s.rhs.size \in Nat
          /\ s.size = 1 + s.lhs.size + s.rhs.size
          /\ entries[s] = entries[s.lhs] \cup {<<s.key, s.value>>} \cup entries[s.rhs]
      BY <2>3, Parts
    <3>2. P(s.lhs, lo) /\ P(s.rhs, ro)
      <4>1. s.lhs \in S /\ s.rhs \in S
        <5> HIDE DEF S
        <5> QED BY <1>1, <3>1
      <4> QED BY <4>1
    <3> HIDE DEF o, lo, ro
    <3>3. CASE k < s.key
      <4>1. o = lo
        BY <2>1, <3>1, <3>3
      <4>2. Map!Has(entries[s], k) <=> Map!Has(entries[s.lhs], k)
        BY <2>3, <3>3, WithoutParts
      <4>3. P(s, o)
        BY <3>1, <3>2, <4>1, <4>2
      <4> QED BY <4>3 DEF o
    <3>4. CASE s.key < k
      <4>1. o = ro
        BY <2>1, <2>3, <3>1, <3>4, WithoutParts
      <4>2. Map!Has(entries[s], k) <=> Map!Has(entries[s.rhs], k)
        BY <2>3, <3>4, WithoutParts
      <4>3. P(s, o)
        BY <3>1, <3>2, <4>1, <4>2
      <4> QED BY <4>3 DEF o
    <3>5. CASE k = s.key
      <4>1. o = Map!Some(s.value)
        BY <2>1, <2>3, <3>1, <3>5, WithoutParts
      <4>2. <<k, s.value>> \in entries[s]
        BY <3>1, <3>5
      <4>3. P(s, o)
        BY <3>1, <4>1, <4>2
      <4> QED BY <4>3 DEF o
    <3>6. k < s.key \/ s.key < k \/ k = s.key
      BY <2>3, WithoutParts
    <3> QED BY <3>3, <3>4, <3>5, <3>6
  <2> QED BY <2>2, <2>3
<1>2. V \subseteq S
  <2> HIDE DEF S
  <2> QED BY <1>1, TreeInduction
<1> QED BY <1>2

(* A node over other subtrees of any sizes: _link, or the node itself.     *)
LEMMA LinkedFacts ==
    ASSUME NEW K, NEW V, NEW X, NEW entries, NEW op, Map!SearchTrees(K, V, X, entries),
           Map!Balancing(K, V, X, op), NEW t \in V, t # Map!Empty,
           NEW l \in V, NEW r \in V,
           Map!Below(entries[l], t.key), Map!Above(entries[r], t.key)
    PROVE  LET A == entries[l] \cup {<<t.key, t.value>>} \cup entries[r] IN
           /\ Map!Holds(V, entries, op.link[<<t.key, t.value, l, r>>], 1 + l.size + r.size, A)
           /\ Map!Holds(V, entries, IF l = t.lhs /\ r = t.rhs THEN t
                                     ELSE op.link[<<t.key, t.value, l, r>>],
                         1 + l.size + r.size, A)
<1>1. /\ t.key \in K /\ t.value \in X
      /\ t.size = 1 + t.lhs.size + t.rhs.size
      /\ entries[t] = entries[t.lhs] \cup {<<t.key, t.value>>} \cup entries[t.rhs]
  BY Parts
<1>2. Map!Holds(V, entries, op.link[<<t.key, t.value, l, r>>], 1 + l.size + r.size,
                 entries[l] \cup {<<t.key, t.value>>} \cup entries[r])
  BY <1>1, LinkJoins
<1>3. CASE l = t.lhs /\ r = t.rhs
  BY <1>1, <1>2, <1>3 DEF Map!Holds
<1>4. CASE ~ (l = t.lhs /\ r = t.rhs)
  BY <1>2, <1>4
<1> QED BY <1>3, <1>4

(* After alter the tree is a valid one that has the value which the        *)
(* function returned for the key, and no other one; or none if it returned *)
(* none.                                                                   *)
THEOREM AlterPutsOrTakes ==
    ASSUME NEW K, NEW V, NEW X, NEW entries, NEW op, Map!SearchTrees(K, V, X, entries),
           Map!Balancing(K, V, X, op), Map!OnKeys(K, V, X, op), NEW t \in V, NEW k \in K
    PROVE  /\ op.alter[<<t, k, Map!None>>] \in V
           /\ entries[op.alter[<<t, k, Map!None>>]] = Map!Without(entries[t], k)
           /\ \A v \in X : /\ op.alter[<<t, k, Map!Some(v)>>] \in V
                           /\ entries[op.alter[<<t, k, Map!Some(v)>>]] = Map!Put(entries[t], k, v)
<1> DEFINE S == {s \in V : /\ op.alter[<<s, k, Map!None>>] \in V
                           /\ entries[op.alter[<<s, k, Map!None>>]] = Map!Without(entries[s], k)}
<1>1. ASSUME NEW s \in V, \A y \in V : y.size < s.size => y \in S
      PROVE  s \in S
  <2> DEFINE u == op.alter[<<s, k, Map!None>>]
             lu == op.alter[<<s.lhs, k, Map!None>>]
             ru == op.alter[<<s.rhs, k, Map!None>>]
  <2>1. u = IF Map!IsEmpty(s) THEN Map!Empty
            ELSE IF k < s.key THEN
               (IF lu = s.lhs /\ s.rhs = s.rhs THEN s ELSE op.link[<<s.key, s.value, lu, s.rhs>>])
            ELSE IF k > s.key THEN
               (IF s.lhs = s.lhs /\ ru = s.rhs THEN s ELSE op.link[<<s.key, s.value, s.lhs, ru>>])
            ELSE op.link2[<<s.lhs, s.rhs>>]
    BY DEF Map!OnKeys, Map!AlterStep, Map!Linked
  <2>2. CASE s = Map!Empty
    <3>1. Map!IsEmpty(s) /\ entries[s] = {}
      BY <2>2, EmptyFields DEF Map!IsEmpty, Map!SearchTrees
    <3>2. Map!Without(entries[s], k) = entries[s]
      BY <3>1 DEF Map!Without
    <3> HIDE DEF u, lu, ru
    <3>3. u \in V /\ entries[u] = Map!Without(entries[s], k)
      BY <2>1, <2>2, <3>1, <3>2
    <3> QED BY <3>3 DEF u
  <2>3. CASE s # Map!Empty
    <3>1. /\ ~ Map!IsEmpty(s) /\ s.lhs \in V /\ s.rhs \in V /\ s.key \in K
          /\ s.lhs.size \in Nat /\ s.rhs.size \in Nat
          /\ s.size = 1 + s.lhs.size + s.rhs.size
          /\ Map!Below(entries[s.lhs], s.key) /\ Map!Above(entries[s.rhs], s.key)
      BY <2>3, Parts
    <3>2. /\ lu \in V /\ entries[lu] = Map!Without(entries[s.lhs], k)
          /\ ru \in V /\ entries[ru] = Map!Without(entries[s.rhs], k)
      <4>1. s.lhs \in S /\ s.rhs \in S
        <5> HIDE DEF S
        <5> QED BY <1>1, <3>1
      <4> QED BY <4>1
    <3> HIDE DEF u, lu, ru
    <3>3. CASE k < s.key
      <4>1. u = IF lu = s.lhs /\ s.rhs = s.rhs THEN s ELSE op.link[<<s.key, s.value, lu, s.rhs>>]
        BY <2>1, <3>1, <3>3
      <4>2. Map!Below(entries[lu], s.key)
        BY <3>1, <3>2, PutBounds
      <4>3. Map!Holds(V, entries, u, 1 + lu.size + s.rhs.size,
                       entries[lu] \cup {<<s.key, s.value>>} \cup entries[s.rhs])
        BY <2>3, <3>1, <3>2, <4>1, <4>2, LinkedFacts
      <4>4. u \in V /\ entries[u] = Map!Without(entries[s], k)
        BY <2>3, <3>2, <3>3, <4>3, WithoutParts DEF Map!Holds
      <4> QED BY <4>4 DEF u
    <3>4. CASE s.key < k
      <4>1. u = IF s.lhs = s.lhs /\ ru = s.rhs THEN s ELSE op.link[<<s.key, s.value, s.lhs, ru>>]
        BY <2>1, <2>3, <3>1, <3>4, WithoutParts
      <4>2. Map!Above(entries[ru], s.key)
        BY <3>1, <3>2, PutBounds
      <4>3. Map!Holds(V, entries, u, 1 + s.lhs.size + ru.size,
                       entries[s.lhs] \cup {<<s.key, s.value>>} \cup entries[ru])
        BY <2>3, <3>1, <3>2, <4>1, <4>2, LinkedFacts
      <4>4. u \in V /\ entries[u] = Map!Without(entries[s], k)
        BY <2>3, <3>2, <3>4, <4>3, WithoutParts DEF Map!Holds
      <4> QED BY <4>4 DEF u
    <3>5. CASE k = s.key
      <4>1. u = op.link2[<<s.lhs, s.rhs>>]
        BY <2>1, <2>3, <3>1, <3>5, WithoutParts
      <4>2. Map!Precede(entries[s.lhs], entries[s.rhs])
        BY <2>3, NodePrecedes
      <4>3. Map!Holds(V, entries, u, s.lhs.size + s.rhs.size, entries[s.lhs] \cup entries[s.rhs])
        BY <3>1, <4>1, <4>2, Link2Joins
      <4>4. u \in V /\ entries[u] = Map!Without(entries[s], k)
        BY <2>3, <3>5, <4>3, WithoutParts DEF Map!Holds
      <4> QED BY <4>4 DEF u
    <3> QED BY <2>3, <3>3, <3>4, <3>5, WithoutParts
  <2> QED BY <2>2, <2>3
<1>2. V \subseteq S
  <2> HIDE DEF S
  <2> QED BY <1>1, TreeInduction
<1>3. ASSUME NEW v \in X
      PROVE  /\ op.alter[<<t, k, Map!Some(v)>>] \in V
             /\ entries[op.alter[<<t, k, Map!Some(v)>>]] = Map!Put(entries[t], k, v)
  <2> DEFINE T == {s \in V : /\ op.alter[<<s, k, Map!Some(v)>>] \in V
                             /\ entries[op.alter[<<s, k, Map!Some(v)>>]] = Map!Put(entries[s], k, v)}
  <2>1. ASSUME NEW s \in V, \A y \in V : y.size < s.size => y \in T
        PROVE  s \in T
    <3> DEFINE u == op.alter[<<s, k, Map!Some(v)>>]
               lu == op.alter[<<s.lhs, k, Map!Some(v)>>]
               ru == op.alter[<<s.rhs, k, Map!Some(v)>>]
    <3>1. Map!Some(v) # Map!None /\ Map!Some(v)[1] = v
      BY DEF Map!Some, Map!None
    <3>2. u = IF Map!IsEmpty(s) THEN Map!Leaf(k, v)
              ELSE IF k < s.key THEN
                 (IF lu = s.lhs /\ s.rhs = s.rhs THEN s ELSE op.link[<<s.key, s.value, lu, s.rhs>>])
              ELSE IF k > s.key THEN
                 (IF s.lhs = s.lhs /\ ru = s.rhs THEN s ELSE op.link[<<s.key, s.value, s.lhs, ru>>])
              ELSE Map!Bin(s.size, s.key, v, s.lhs, s.rhs)
      <4> DEFINE ov == Map!Some(v)
      <4>1. ov \in {Map!None} \cup {Map!Some(x) : x \in X} /\ ov # Map!None /\ ov[1] = v
        BY <3>1
      <4> HIDE DEF ov
      <4>2. op.alter[<<s, k, ov>>] =
              IF Map!IsEmpty(s) THEN Map!Leaf(k, ov[1])
              ELSE IF k < s.key THEN
                 (IF op.alter[<<s.lhs, k, ov>>] = s.lhs /\ s.rhs = s.rhs THEN s
                  ELSE op.link[<<s.key, s.value, op.alter[<<s.lhs, k, ov>>], s.rhs>>])
              ELSE IF k > s.key THEN
                 (IF s.lhs = s.lhs /\ op.alter[<<s.rhs, k, ov>>] = s.rhs THEN s
                  ELSE op.link[<<s.key, s.value, s.lhs, op.alter[<<s.rhs, k, ov>>]>>])
              ELSE Map!Bin(s.size, s.key, ov[1], s.lhs, s.rhs)
        BY <4>1 DEF Map!OnKeys, Map!AlterStep, Map!Linked
      <4> QED BY <4>1, <4>2 DEF ov
    <3>3. CASE s = Map!Empty
      <4>1. Map!IsEmpty(s) /\ entries[s] = {}
        BY <3>3, EmptyFields DEF Map!IsEmpty, Map!SearchTrees
      <4>2. Map!Put(entries[s], k, v) = {<<k, v>>}
        BY <4>1 DEF Map!Put, Map!Without
      <4>3. Map!Holds(V, entries, Map!Leaf(k, v), 1, {<<k, v>>})
        BY LeafFacts
      <4> HIDE DEF u, lu, ru
      <4>4. u \in V /\ entries[u] = Map!Put(entries[s], k, v)
        BY <3>2, <4>1, <4>2, <4>3 DEF Map!Holds
      <4> QED BY <4>4 DEF u
    <3>4. CASE s # Map!Empty
      <4>1. /\ ~ Map!IsEmpty(s) /\ s.lhs \in V /\ s.rhs \in V /\ s.key \in K
            /\ s.lhs.size \in Nat /\ s.rhs.size \in Nat
            /\ s.size = 1 + s.lhs.size + s.rhs.size
            /\ Map!Below(entries[s.lhs], s.key) /\ Map!Above(entries[s.rhs], s.key)
        BY <3>4, Parts
      <4>2. /\ lu \in V /\ entries[lu] = Map!Put(entries[s.lhs], k, v)
            /\ ru \in V /\ entries[ru] = Map!Put(entries[s.rhs], k, v)
        <5>1. s.lhs \in T /\ s.rhs \in T
          <6> HIDE DEF T
          <6> QED BY <2>1, <4>1
        <5> QED BY <5>1
      <4> HIDE DEF u, lu, ru
      <4>3. CASE k < s.key
        <5>1. u = IF lu = s.lhs /\ s.rhs = s.rhs THEN s ELSE op.link[<<s.key, s.value, lu, s.rhs>>]
          BY <3>2, <4>1, <4>3
        <5>2. Map!Below(entries[lu], s.key)
          BY <4>1, <4>2, <4>3, PutBounds
        <5>3. Map!Holds(V, entries, u, 1 + lu.size + s.rhs.size,
                         entries[lu] \cup {<<s.key, s.value>>} \cup entries[s.rhs])
          BY <3>4, <4>1, <4>2, <5>1, <5>2, LinkedFacts
        <5>4. u \in V /\ entries[u] = Map!Put(entries[s], k, v)
          BY <3>4, <4>2, <4>3, <5>3, PutParts DEF Map!Holds
        <5> QED BY <5>4 DEF u
      <4>4. CASE s.key < k
        <5>1. u = IF s.lhs = s.lhs /\ ru = s.rhs THEN s ELSE op.link[<<s.key, s.value, s.lhs, ru>>]
          BY <3>2, <3>4, <4>1, <4>4, WithoutParts
        <5>2. Map!Above(entries[ru], s.key)
          BY <4>1, <4>2, <4>4, PutBounds
        <5>3. Map!Holds(V, entries, u, 1 + s.lhs.size + ru.size,
                         entries[s.lhs] \cup {<<s.key, s.value>>} \cup entries[ru])
          BY <3>4, <4>1, <4>2, <5>1, <5>2, LinkedFacts
        <5>4. u \in V /\ entries[u] = Map!Put(entries[s], k, v)
          BY <3>4, <4>2, <4>4, <5>3, PutParts DEF Map!Holds
        <5> QED BY <5>4 DEF u
      <4>5. CASE k = s.key
        <5>1. u = Map!Bin(s.size, s.key, v, s.lhs, s.rhs)
          BY <3>2, <3>4, <4>1, <4>5, WithoutParts
        <5>2. Map!Holds(V, entries, u, s.size, entries[s.lhs] \cup {<<s.key, v>>} \cup entries[s.rhs])
          BY <3>4, <5>1, RevaluedFacts
        <5>3. Map!Put(entries[s], k, v) = entries[s.lhs] \cup {<<k, v>>} \cup entries[s.rhs]
          BY <3>4, <4>5, PutParts
        <5>4. u \in V /\ entries[u] = Map!Put(entries[s], k, v)
          BY <4>5, <5>2, <5>3 DEF Map!Holds
        <5> QED BY <5>4 DEF u
      <4> QED BY <3>4, <4>3, <4>4, <4>5, WithoutParts
    <3> QED BY <3>3, <3>4
  <2>2. V \subseteq T
    <3> HIDE DEF T
    <3> QED BY <2>1, TreeInduction
  <2> QED BY <2>2
<1> QED BY <1>2, <1>3

(* The entries of a tree are pairs of a key and a value.                   *)
LEMMA EntriesType ==
    ASSUME NEW K, NEW V, NEW X, NEW entries, Map!SearchTrees(K, V, X, entries), NEW t \in V
    PROVE  /\ entries[t] \subseteq K \X X
           /\ \A e \in entries[t] : e[1] \in K /\ e[1] \in Nat
<1>1. K \subseteq Nat /\ entries[t] \subseteq K \X X
  BY DEF Map!SearchTrees
<1> QED BY <1>1

(* A tree of size 1 has one entry, its own.                                *)
LEMMA OneEntry ==
    ASSUME NEW K, NEW V, NEW X, NEW entries, Map!SearchTrees(K, V, X, entries),
           NEW t \in V, t.size = 1
    PROVE  t # Map!Empty /\ t.key \in K /\ t.value \in X /\ entries[t] = {<<t.key, t.value>>}
<1>1. t # Map!Empty
  BY EmptyFields
<1>2. /\ t.key \in K /\ t.value \in X /\ t.lhs \in V /\ t.rhs \in V
      /\ t.lhs.size = 0 /\ t.rhs.size = 0
      /\ entries[t] = entries[t.lhs] \cup {<<t.key, t.value>>} \cup entries[t.rhs]
  BY <1>1, Parts
<1>3. t.lhs = Map!Empty /\ t.rhs = Map!Empty
  BY <1>2, EmptyOnly
<1>4. entries[Map!Empty] = {}
  BY DEF Map!SearchTrees
<1> QED BY <1>1, <1>2, <1>3, <1>4

(* What is below a key in a tree, and above it.                            *)
LEMMA SplitParts ==
    ASSUME NEW K, NEW V, NEW X, NEW entries, Map!SearchTrees(K, V, X, entries),
           NEW t \in V, t # Map!Empty, NEW k \in K
    PROVE  /\ k < t.key =>
                /\ Map!Under(entries[t], k) = Map!Under(entries[t.lhs], k)
                /\ Map!Over(entries[t], k) =
                      Map!Over(entries[t.lhs], k) \cup {<<t.key, t.value>>} \cup entries[t.rhs]
           /\ t.key < k =>
                /\ Map!Under(entries[t], k) =
                      entries[t.lhs] \cup {<<t.key, t.value>>} \cup Map!Under(entries[t.rhs], k)
                /\ Map!Over(entries[t], k) = Map!Over(entries[t.rhs], k)
           /\ k = t.key =>
                /\ Map!Under(entries[t], k) = entries[t.lhs]
                /\ Map!Over(entries[t], k) = entries[t.rhs]
<1>1. /\ entries[t] = entries[t.lhs] \cup {<<t.key, t.value>>} \cup entries[t.rhs]
      /\ t.lhs \in V /\ t.rhs \in V
  BY Parts
<1>2. <<t.key, t.value>>[1] = t.key
  OBVIOUS
<1>3. /\ \A e \in entries[t.lhs] : e[1] \in Nat
      /\ \A e \in entries[t.rhs] : e[1] \in Nat
  BY <1>1, EntriesType
<1>4. /\ k \in Nat /\ t.key \in Nat
      /\ k < t.key => \A e \in {<<t.key, t.value>>} \cup entries[t.rhs] : k < e[1] /\ e[1] # k
      /\ t.key < k => \A e \in entries[t.lhs] \cup {<<t.key, t.value>>} : e[1] < k /\ e[1] # k
      /\ \A e \in entries[t.lhs] : e[1] < t.key /\ e[1] # t.key
      /\ \A e \in entries[t.rhs] : t.key < e[1] /\ e[1] # t.key
  BY Sides
<1>5. ASSUME k < t.key
      PROVE  /\ Map!Under(entries[t], k) = Map!Under(entries[t.lhs], k)
             /\ Map!Over(entries[t], k) =
                  Map!Over(entries[t.lhs], k) \cup {<<t.key, t.value>>} \cup entries[t.rhs]
  BY <1>1, <1>2, <1>3, <1>4, <1>5 DEF Map!Under, Map!Over
<1>6. ASSUME t.key < k
      PROVE  /\ Map!Under(entries[t], k) =
                  entries[t.lhs] \cup {<<t.key, t.value>>} \cup Map!Under(entries[t.rhs], k)
             /\ Map!Over(entries[t], k) = Map!Over(entries[t.rhs], k)
  BY <1>1, <1>2, <1>3, <1>4, <1>6 DEF Map!Under, Map!Over
<1>7. ASSUME k = t.key
      PROVE  /\ Map!Under(entries[t], k) = entries[t.lhs]
             /\ Map!Over(entries[t], k) = entries[t.rhs]
  BY <1>1, <1>2, <1>3, <1>4, <1>7 DEF Map!Under, Map!Over
<1> QED BY <1>5, <1>6, <1>7

(* The same answer of more entries, none of which is of the key.           *)
LEMMA MoreEntries ==
    ASSUME NEW X, NEW es, NEW fs, NEW k, NEW o, NEW m \in Nat, NEW n \in Nat,
           NEW i \in Nat, NEW j \in Nat,
           Map!Answers(X, es, k, o, m, n), es \subseteq fs,
           Map!Has(fs, k) <=> Map!Has(es, k), i + n = j + m
    PROVE  Map!Answers(X, fs, k, o, i, j)
<1>1. CASE o = Map!None /\ ~ Map!Has(es, k) /\ m = n
  BY <1>1 DEF Map!Answers
<1>2. CASE \E x \in X : o = Map!Some(x) /\ <<k, x>> \in es /\ m + 1 = n
  <2>1. PICK x \in X : o = Map!Some(x) /\ <<k, x>> \in es /\ m + 1 = n
    BY <1>2
  <2>2. <<k, x>> \in fs /\ i + 1 = j
    BY <2>1
  <2> QED BY <2>1, <2>2 DEF Map!Answers
<1> QED BY <1>1, <1>2 DEF Map!Answers

(* What the answer to a key says of the number of the other entries.       *)
LEMMA AnswerCounts ==
    ASSUME NEW X, NEW es, NEW k, NEW o, NEW m \in Nat, NEW n \in Nat,
           Map!Answers(X, es, k, o, m, n)
    PROVE  m <= n /\ (m = n => ~ Map!Has(es, k))
<1>1. CASE o = Map!None /\ ~ Map!Has(es, k) /\ m = n
  BY <1>1
<1>2. CASE \E x \in X : o = Map!Some(x) /\ <<k, x>> \in es /\ m + 1 = n
  BY <1>2
<1> QED BY <1>1, <1>2 DEF Map!Answers

(* Two valid trees, of the entries below a key and of those above it, and  *)
(* the value of the key: _splitLookup. The sizes say whether there was     *)
(* one, which difference relies on.                                        *)
THEOREM SplitLookupParts ==
    ASSUME NEW K, NEW V, NEW X, NEW entries, NEW op, Map!SearchTrees(K, V, X, entries),
           Map!Balancing(K, V, X, op), Map!OnKeys(K, V, X, op), NEW t \in V, NEW k \in K
    PROVE  LET w == op.splitLookup[<<t, k>>] IN
           /\ w.lt \in V /\ w.gt \in V
           /\ entries[w.lt] = Map!Under(entries[t], k)
           /\ entries[w.gt] = Map!Over(entries[t], k)
           /\ Map!Answers(X, entries[t], k, w.value, w.lt.size + w.gt.size, t.size)
<1> DEFINE R == [lt : V, value : {Map!None} \cup {Map!Some(x) : x \in X}, gt : V]
           P(s, w) ==
              /\ w \in R
              /\ entries[w.lt] = Map!Under(entries[s], k)
              /\ entries[w.gt] = Map!Over(entries[s], k)
              /\ Map!Answers(X, entries[s], k, w.value, w.lt.size + w.gt.size, s.size)
           S == {s \in V : P(s, op.splitLookup[<<s, k>>])}
<1>1. ASSUME NEW s \in V, \A y \in V : y.size < s.size => y \in S
      PROVE  s \in S
  <2> DEFINE w == op.splitLookup[<<s, k>>]
             lw == op.splitLookup[<<s.lhs, k>>]
             rw == op.splitLookup[<<s.rhs, k>>]
  <2>1. w = IF Map!IsEmpty(s) THEN [lt |-> Map!Empty, value |-> Map!None, gt |-> Map!Empty]
            ELSE IF k < s.key THEN [lw EXCEPT !.gt = op.link[<<s.key, s.value, @, s.rhs>>]]
            ELSE IF k > s.key THEN [rw EXCEPT !.lt = op.link[<<s.key, s.value, s.lhs, @>>]]
            ELSE [lt |-> s.lhs, value |-> Map!Some(s.value), gt |-> s.rhs]
    BY DEF Map!OnKeys, Map!SplitLookupStep
  <2>2. CASE s = Map!Empty
    <3>1. /\ Map!IsEmpty(s) /\ entries[s] = {} /\ s.size = 0
      BY <2>2, EmptyFields DEF Map!IsEmpty, Map!SearchTrees
    <3>2. /\ Map!Under(entries[s], k) = {} /\ Map!Over(entries[s], k) = {}
          /\ ~ Map!Has(entries[s], k)
      BY <3>1 DEF Map!Under, Map!Over, Map!Has
    <3> HIDE DEF w, lw, rw
    <3>3. w = [lt |-> s, value |-> Map!None, gt |-> s]
      BY <2>1, <2>2, <3>1
    <3>4. w \in R /\ w.lt = s /\ w.gt = s /\ w.value = Map!None
      BY <3>3
    <3> HIDE DEF R
    <3>5. Map!Answers(X, entries[s], k, w.value, w.lt.size + w.gt.size, s.size)
      BY <3>1, <3>2, <3>4 DEF Map!Answers
    <3>6. P(s, w)
      BY <3>1, <3>2, <3>4, <3>5
    <3> QED BY <3>6 DEF w
  <2>3. CASE s # Map!Empty
    <3>1. /\ ~ Map!IsEmpty(s) /\ s.lhs \in V /\ s.rhs \in V /\ s.key \in K /\ s.value \in X
          /\ s.lhs.size \in Nat /\ s.rhs.size \in Nat
          /\ s.size = 1 + s.lhs.size + s.rhs.size
          /\ Map!Below(entries[s.lhs], s.key) /\ Map!Above(entries[s.rhs], s.key)
          /\ entries[s] = entries[s.lhs] \cup {<<s.key, s.value>>} \cup entries[s.rhs]
      BY <2>3, Parts
    <3>2. P(s.lhs, lw) /\ P(s.rhs, rw)
      <4>1. s.lhs \in S /\ s.rhs \in S
        <5> HIDE DEF S
        <5> QED BY <1>1, <3>1
      <4> QED BY <4>1
    <3> HIDE DEF w, lw, rw
    <3>3. CASE k < s.key
      <4> DEFINE g == op.link[<<s.key, s.value, lw.gt, s.rhs>>]
      <4>1. w = [lw EXCEPT !.gt = g]
        BY <2>1, <3>1, <3>3
      <4>2. lw.lt \in V /\ lw.gt \in V
        BY <3>2
      <4>3. Map!Below(entries[lw.gt], s.key)
        BY <3>1, <3>2 DEF Map!Over, Map!Below
      <4>4. Map!Holds(V, entries, g, 1 + lw.gt.size + s.rhs.size,
                       entries[lw.gt] \cup {<<s.key, s.value>>} \cup entries[s.rhs])
        BY <2>3, <3>1, <4>2, <4>3, LinkedFacts
      <4> HIDE DEF g
      <4>5. g \in V
        BY <4>4 DEF Map!Holds
      <4>6. w \in R /\ w.lt = lw.lt /\ w.value = lw.value /\ w.gt = g
        BY <3>2, <4>1, <4>5
      <4>7. lw.lt.size \in Nat /\ lw.gt.size \in Nat
        BY <4>2, Parts
      <4>8. /\ entries[w.lt] = Map!Under(entries[s], k)
            /\ entries[w.gt] = Map!Over(entries[s], k)
        <5>1. entries[g] = entries[lw.gt] \cup {<<s.key, s.value>>} \cup entries[s.rhs]
          BY <4>4 DEF Map!Holds
        <5>2. /\ entries[lw.lt] = Map!Under(entries[s.lhs], k)
              /\ entries[lw.gt] = Map!Over(entries[s.lhs], k)
          BY <3>2
        <5> QED BY <2>3, <3>3, <4>6, <5>1, <5>2, SplitParts
      <4>9. Map!Has(entries[s], k) <=> Map!Has(entries[s.lhs], k)
        BY <2>3, <3>3, WithoutParts
      <4>10. w.gt.size = 1 + lw.gt.size + s.rhs.size
        BY <4>4, <4>6 DEF Map!Holds
      <4>11. Map!Answers(X, entries[s], k, w.value, w.lt.size + w.gt.size, s.size)
        <5>1. Map!Answers(X, entries[s.lhs], k, w.value, lw.lt.size + lw.gt.size, s.lhs.size)
          BY <3>2, <4>6
        <5>2. /\ lw.lt.size + lw.gt.size \in Nat /\ w.lt.size + w.gt.size \in Nat /\ s.size \in Nat
              /\ (w.lt.size + w.gt.size) + s.lhs.size = s.size + (lw.lt.size + lw.gt.size)
          BY <3>1, <4>6, <4>7, <4>10
        <5>3. entries[s.lhs] \subseteq entries[s]
          BY <3>1
        <5> QED BY <3>1, <4>9, <5>1, <5>2, <5>3, MoreEntries
      <4> HIDE DEF R
      <4>12. P(s, w)
        BY <4>6, <4>8, <4>11
      <4> QED BY <4>12 DEF w
    <3>4. CASE s.key < k
      <4> DEFINE g == op.link[<<s.key, s.value, s.lhs, rw.lt>>]
      <4>1. w = [rw EXCEPT !.lt = g]
        BY <2>1, <2>3, <3>1, <3>4, WithoutParts
      <4>2. rw.lt \in V /\ rw.gt \in V
        BY <3>2
      <4>3. Map!Above(entries[rw.lt], s.key)
        BY <3>1, <3>2 DEF Map!Under, Map!Above
      <4>4. Map!Holds(V, entries, g, 1 + s.lhs.size + rw.lt.size,
                       entries[s.lhs] \cup {<<s.key, s.value>>} \cup entries[rw.lt])
        BY <2>3, <3>1, <4>2, <4>3, LinkedFacts
      <4> HIDE DEF g
      <4>5. g \in V
        BY <4>4 DEF Map!Holds
      <4>6. w \in R /\ w.gt = rw.gt /\ w.value = rw.value /\ w.lt = g
        BY <3>2, <4>1, <4>5
      <4>7. rw.lt.size \in Nat /\ rw.gt.size \in Nat
        BY <4>2, Parts
      <4>8. /\ entries[w.lt] = Map!Under(entries[s], k)
            /\ entries[w.gt] = Map!Over(entries[s], k)
        <5>1. entries[g] = entries[s.lhs] \cup {<<s.key, s.value>>} \cup entries[rw.lt]
          BY <4>4 DEF Map!Holds
        <5>2. /\ entries[rw.lt] = Map!Under(entries[s.rhs], k)
              /\ entries[rw.gt] = Map!Over(entries[s.rhs], k)
          BY <3>2
        <5> QED BY <2>3, <3>4, <4>6, <5>1, <5>2, SplitParts
      <4>9. Map!Has(entries[s], k) <=> Map!Has(entries[s.rhs], k)
        BY <2>3, <3>4, WithoutParts
      <4>10. w.lt.size = 1 + s.lhs.size + rw.lt.size
        BY <4>4, <4>6 DEF Map!Holds
      <4>11. Map!Answers(X, entries[s], k, w.value, w.lt.size + w.gt.size, s.size)
        <5>1. Map!Answers(X, entries[s.rhs], k, w.value, rw.lt.size + rw.gt.size, s.rhs.size)
          BY <3>2, <4>6
        <5>2. /\ rw.lt.size + rw.gt.size \in Nat /\ w.lt.size + w.gt.size \in Nat /\ s.size \in Nat
              /\ (w.lt.size + w.gt.size) + s.rhs.size = s.size + (rw.lt.size + rw.gt.size)
          BY <3>1, <4>6, <4>7, <4>10
        <5>3. entries[s.rhs] \subseteq entries[s]
          BY <3>1
        <5> QED BY <3>1, <4>9, <5>1, <5>2, <5>3, MoreEntries
      <4> HIDE DEF R
      <4>12. P(s, w)
        BY <4>6, <4>8, <4>11
      <4> QED BY <4>12 DEF w
    <3>5. CASE k = s.key
      <4>1. w = [lt |-> s.lhs, value |-> Map!Some(s.value), gt |-> s.rhs]
        BY <2>1, <2>3, <3>1, <3>5, WithoutParts
      <4>2. w \in R /\ w.lt = s.lhs /\ w.gt = s.rhs /\ w.value = Map!Some(s.value)
        BY <3>1, <4>1
      <4>3. /\ entries[w.lt] = Map!Under(entries[s], k)
            /\ entries[w.gt] = Map!Over(entries[s], k)
        BY <2>3, <3>5, <4>2, SplitParts
      <4>4. <<k, s.value>> \in entries[s]
        BY <3>1, <3>5
      <4>5. Map!Answers(X, entries[s], k, w.value, w.lt.size + w.gt.size, s.size)
        BY <3>1, <4>2, <4>4 DEF Map!Answers
      <4> HIDE DEF R
      <4>6. P(s, w)
        BY <4>2, <4>3, <4>5
      <4> QED BY <4>6 DEF w
    <3> QED BY <2>3, <3>3, <3>4, <3>5, WithoutParts
  <2> QED BY <2>2, <2>3
<1>2. V \subseteq S
  <2> HIDE DEF S
  <2> QED BY <1>1, TreeInduction
<1>3. P(t, op.splitLookup[<<t, k>>])
  BY <1>2
<1> QED BY <1>3

(* The entries of a tree whose keys another one does not have...           *)
LEMMA OutsideParts ==
    ASSUME NEW K, NEW V, NEW X, NEW entries, Map!SearchTrees(K, V, X, entries),
           NEW t \in V, t # Map!Empty, NEW s \in V
    PROVE  Map!Outside(entries[s], entries[t]) =
              Map!Outside(Map!Under(entries[s], t.key), entries[t.lhs])
                 \cup Map!Outside(Map!Over(entries[s], t.key), entries[t.rhs])
<1>1. \A e \in entries[s] : e[1] \in K /\ e[1] \in Nat
  BY EntriesType
<1>2. t.key \in K /\ t.key \in Nat
  <2>1. t.key \in K
    BY Parts
  <2> QED BY <2>1 DEF Map!SearchTrees
<1>3. \A e \in entries[s] :
        /\ e[1] < t.key => (Map!Has(entries[t], e[1]) <=> Map!Has(entries[t.lhs], e[1]))
        /\ t.key < e[1] => (Map!Has(entries[t], e[1]) <=> Map!Has(entries[t.rhs], e[1]))
        /\ e[1] = t.key => Map!Has(entries[t], e[1])
  <2> TAKE e \in entries[s]
  <2>1. e[1] \in K
    BY <1>1
  <2> QED BY <2>1, WithoutParts
<1>4. \A e \in entries[s] : e[1] < t.key \/ t.key < e[1] \/ e[1] = t.key
  BY <1>1, <1>2
<1> QED BY <1>3, <1>4 DEF Map!Outside, Map!Under, Map!Over

(* ... or has: those of its parts.                                         *)
LEMMA InsideParts ==
    ASSUME NEW K, NEW V, NEW X, NEW entries, Map!SearchTrees(K, V, X, entries),
           NEW t \in V, t # Map!Empty, NEW s \in V
    PROVE  Map!Inside(entries[t], entries[s]) =
              Map!Inside(entries[t.lhs], Map!Under(entries[s], t.key))
                 \cup Map!Inside({<<t.key, t.value>>}, entries[s])
                 \cup Map!Inside(entries[t.rhs], Map!Over(entries[s], t.key))
<1>1. entries[t] = entries[t.lhs] \cup {<<t.key, t.value>>} \cup entries[t.rhs]
  BY Parts
<1>2. t.key \in K
  BY Parts
<1>3. /\ \A e \in entries[t.lhs] : e[1] < t.key
      /\ \A e \in entries[t.rhs] : t.key < e[1]
  BY <1>2, Sides
<1>4. /\ \A e \in entries[t.lhs] :
            Map!Has(entries[s], e[1]) <=> Map!Has(Map!Under(entries[s], t.key), e[1])
      /\ \A e \in entries[t.rhs] :
            Map!Has(entries[s], e[1]) <=> Map!Has(Map!Over(entries[s], t.key), e[1])
  BY <1>3 DEF Map!Has, Map!Under, Map!Over
<1> QED BY <1>1, <1>4 DEF Map!Inside

(* The union of two maps is a valid tree, of all entries of the first and  *)
(* of those of the second whose keys the first has not.                    *)
THEOREM UnionPrefersTheFirst ==
    ASSUME NEW K, NEW V, NEW X, NEW entries, NEW op, Map!SearchTrees(K, V, X, entries),
           Map!Balancing(K, V, X, op), Map!OnKeys(K, V, X, op), Map!OnMaps(K, V, op),
           NEW a \in V, NEW b \in V
    PROVE  /\ op.union[<<a, b>>] \in V
           /\ entries[op.union[<<a, b>>]] = entries[a] \cup Map!Outside(entries[b], entries[a])
<1> DEFINE P(s, c) ==
              /\ op.union[<<s, c>>] \in V
              /\ entries[op.union[<<s, c>>]] = entries[s] \cup Map!Outside(entries[c], entries[s])
           S == {s \in V : \A c \in V : P(s, c)}
<1>1. ASSUME NEW s \in V, \A y \in V : y.size < s.size => y \in S
      PROVE  s \in S
  <2> SUFFICES ASSUME NEW c \in V
               PROVE  P(s, c)
    OBVIOUS
  <2> DEFINE u == op.union[<<s, c>>]
             w == op.splitLookup[<<c, s.key>>]
             l == op.union[<<s.lhs, w.lt>>]
             r == op.union[<<s.rhs, w.gt>>]
  <2>1. u = IF Map!IsEmpty(s) THEN c
            ELSE IF Map!IsEmpty(c) THEN s
            ELSE IF c.size = 1 THEN op.insertR[<<s, c.key, c.value>>]
            ELSE IF s.size = 1 THEN op.insert[<<c, s.key, s.value>>]
            ELSE IF l = s.lhs /\ r = s.rhs THEN s ELSE op.link[<<s.key, s.value, l, r>>]
    BY DEF Map!OnMaps, Map!UnionStep, Map!Linked
  <2>2. entries[Map!Empty] = {} /\ Map!IsEmpty(Map!Empty)
    BY EmptyFields DEF Map!IsEmpty, Map!SearchTrees
  <2>3. CASE s = Map!Empty
    <3>1. u = c
      BY <2>1, <2>2, <2>3
    <3>2. entries[s] \cup Map!Outside(entries[c], entries[s]) = entries[c]
      BY <2>2, <2>3 DEF Map!Outside, Map!Has
    <3> QED BY <3>1, <3>2
  <2>4. CASE s # Map!Empty /\ c = Map!Empty
    <3>1. u = s
      BY <2>1, <2>2, <2>4, Parts
    <3>2. entries[s] \cup Map!Outside(entries[c], entries[s]) = entries[s]
      BY <2>2, <2>4 DEF Map!Outside
    <3> QED BY <3>1, <3>2
  <2>5. CASE s # Map!Empty /\ c # Map!Empty /\ c.size = 1
    <3>1. u = op.insertR[<<s, c.key, c.value>>]
      BY <2>1, <2>5, Parts
    <3>2. c.key \in K /\ c.value \in X /\ entries[c] = {<<c.key, c.value>>}
      BY <2>5, OneEntry
    <3> HIDE DEF u
    <3>3. u \in V /\ entries[u] = Map!PutNew(entries[s], c.key, c.value)
      BY <3>1, <3>2, InsertRKeeps
    <3>4. <<c.key, c.value>>[1] = c.key
      OBVIOUS
    <3>5. Map!PutNew(entries[s], c.key, c.value) = entries[s] \cup Map!Outside(entries[c], entries[s])
      BY <3>2, <3>4 DEF Map!PutNew, Map!Outside
    <3> QED BY <3>3, <3>5 DEF u
  <2>6. CASE s # Map!Empty /\ c # Map!Empty /\ c.size # 1 /\ s.size = 1
    <3>1. u = op.insert[<<c, s.key, s.value>>]
      BY <2>1, <2>6, Parts
    <3>2. s.key \in K /\ s.value \in X /\ entries[s] = {<<s.key, s.value>>}
      BY <2>6, OneEntry
    <3> HIDE DEF u
    <3>3. u \in V /\ entries[u] = Map!Put(entries[c], s.key, s.value)
      BY <3>1, <3>2, InsertPuts
    <3>4. <<s.key, s.value>>[1] = s.key
      OBVIOUS
    <3>5. Map!Put(entries[c], s.key, s.value) = entries[s] \cup Map!Outside(entries[c], entries[s])
      BY <3>2, <3>4 DEF Map!Put, Map!Without, Map!Outside, Map!Has
    <3> QED BY <3>3, <3>5 DEF u
  <2>7. CASE s # Map!Empty /\ c # Map!Empty /\ c.size # 1 /\ s.size # 1
    <3>1. u = IF l = s.lhs /\ r = s.rhs THEN s ELSE op.link[<<s.key, s.value, l, r>>]
      <4>1. ~ Map!IsEmpty(s) /\ ~ Map!IsEmpty(c)
        BY <2>7, Parts
      <4> HIDE DEF u, l, r
      <4> QED BY <2>1, <2>7, <4>1
    <3>2. /\ s.lhs \in V /\ s.rhs \in V /\ s.key \in K
          /\ s.lhs.size \in Nat /\ s.rhs.size \in Nat
          /\ s.size = 1 + s.lhs.size + s.rhs.size
          /\ entries[s] = entries[s.lhs] \cup {<<s.key, s.value>>} \cup entries[s.rhs]
          /\ Map!Below(entries[s.lhs], s.key) /\ Map!Above(entries[s.rhs], s.key)
      BY <2>7, Parts
    <3>3. /\ w.lt \in V /\ w.gt \in V
          /\ entries[w.lt] = Map!Under(entries[c], s.key)
          /\ entries[w.gt] = Map!Over(entries[c], s.key)
      BY <3>2, SplitLookupParts
    <3>4. P(s.lhs, w.lt) /\ P(s.rhs, w.gt)
      <4>1. s.lhs \in S /\ s.rhs \in S
        <5> HIDE DEF S
        <5> QED BY <1>1, <3>2
      <4> QED BY <3>3, <4>1
    <3>5. /\ l \in V /\ entries[l] = entries[s.lhs] \cup Map!Outside(Map!Under(entries[c], s.key), entries[s.lhs])
          /\ r \in V /\ entries[r] = entries[s.rhs] \cup Map!Outside(Map!Over(entries[c], s.key), entries[s.rhs])
      BY <3>3, <3>4
    <3> HIDE DEF u, w, l, r
    <3>6. Map!Below(entries[l], s.key) /\ Map!Above(entries[r], s.key)
      BY <3>2, <3>5 DEF Map!Below, Map!Above, Map!Outside, Map!Under, Map!Over
    <3>7. Map!Holds(V, entries, u, 1 + l.size + r.size, entries[l] \cup {<<s.key, s.value>>} \cup entries[r])
      BY <2>7, <3>1, <3>5, <3>6, LinkedFacts
    <3>8. u \in V /\ entries[u] = entries[l] \cup {<<s.key, s.value>>} \cup entries[r]
      BY <3>7 DEF Map!Holds
    <3>9. Map!Outside(entries[c], entries[s]) =
            Map!Outside(Map!Under(entries[c], s.key), entries[s.lhs])
               \cup Map!Outside(Map!Over(entries[c], s.key), entries[s.rhs])
      BY <2>7, OutsideParts
    <3>10. entries[u] = entries[s] \cup Map!Outside(entries[c], entries[s])
      BY <3>2, <3>5, <3>8, <3>9
    <3> QED BY <3>8, <3>10 DEF u
  <2> QED BY <2>3, <2>4, <2>5, <2>6, <2>7
<1>2. V \subseteq S
  <2> HIDE DEF S
  <2> QED BY <1>1, TreeInduction
<1> QED BY <1>2

(* The difference of two maps is a valid tree, of the entries of the first *)
(* whose keys the second has not. Where the sizes say that nothing was     *)
(* taken away the code returns the first map itself: then it has the same  *)
(* entries.                                                                *)
THEOREM DifferenceTakesAway ==
    ASSUME NEW K, NEW V, NEW X, NEW entries, NEW op, Map!SearchTrees(K, V, X, entries),
           Map!Balancing(K, V, X, op), Map!OnKeys(K, V, X, op), Map!OnMaps(K, V, op),
           NEW a \in V, NEW b \in V
    PROVE  LET u == op.difference[<<a, b>>] IN
           /\ u \in V
           /\ entries[u] = Map!Outside(entries[a], entries[b])
           /\ u.size <= a.size
           /\ u.size = a.size => entries[u] = entries[a]
<1> DEFINE P(c, s, u) ==
              /\ u \in V
              /\ entries[u] = Map!Outside(entries[c], entries[s])
              /\ u.size <= c.size
              /\ u.size = c.size => entries[u] = entries[c]
           S == {s \in V : \A c \in V : P(c, s, op.difference[<<c, s>>])}
<1>1. ASSUME NEW s \in V, \A y \in V : y.size < s.size => y \in S
      PROVE  s \in S
  <2> SUFFICES ASSUME NEW c \in V
               PROVE  P(c, s, op.difference[<<c, s>>])
    OBVIOUS
  <2> DEFINE u == op.difference[<<c, s>>]
             w == op.splitLookup[<<c, s.key>>]
             l == op.difference[<<w.lt, s.lhs>>]
             r == op.difference[<<w.gt, s.rhs>>]
  <2>1. u = IF Map!IsEmpty(c) THEN Map!Empty
            ELSE IF Map!IsEmpty(s) THEN c
            ELSE IF l.size + r.size = c.size THEN c ELSE op.link2[<<l, r>>]
    BY DEF Map!OnMaps, Map!DifferenceStep
  <2>2. /\ entries[Map!Empty] = {} /\ Map!IsEmpty(Map!Empty) /\ Map!Empty \in V
        /\ c.size \in Nat
    BY EmptyFields DEF Map!IsEmpty, Map!SearchTrees
  <2>3. CASE c = Map!Empty
    <3>1. u = c
      BY <2>1, <2>2, <2>3
    <3>2. Map!Outside(entries[c], entries[s]) = entries[c]
      BY <2>2, <2>3 DEF Map!Outside
    <3> HIDE DEF u
    <3>3. P(c, s, u)
      BY <2>2, <3>1, <3>2
    <3> QED BY <3>3 DEF u
  <2>4. CASE c # Map!Empty /\ s = Map!Empty
    <3>1. u = c
      <4>1. ~ Map!IsEmpty(c) /\ Map!IsEmpty(s)
        BY <2>4, Parts
      <4> HIDE DEF u, l, r
      <4> QED BY <2>1, <4>1
    <3>2. Map!Outside(entries[c], entries[s]) = entries[c]
      BY <2>2, <2>4 DEF Map!Outside, Map!Has
    <3> HIDE DEF u
    <3>3. P(c, s, u)
      BY <2>2, <3>1, <3>2
    <3> QED BY <3>3 DEF u
  <2>5. CASE c # Map!Empty /\ s # Map!Empty
    <3>1. u = IF l.size + r.size = c.size THEN c ELSE op.link2[<<l, r>>]
      <4>1. ~ Map!IsEmpty(c) /\ ~ Map!IsEmpty(s)
        BY <2>5, Parts
      <4> HIDE DEF u, l, r
      <4> QED BY <2>1, <4>1
    <3>2. /\ s.lhs \in V /\ s.rhs \in V /\ s.key \in K
          /\ s.lhs.size \in Nat /\ s.rhs.size \in Nat
          /\ s.size = 1 + s.lhs.size + s.rhs.size
      BY <2>5, Parts
    <3>3. /\ w.lt \in V /\ w.gt \in V
          /\ entries[w.lt] = Map!Under(entries[c], s.key)
          /\ entries[w.gt] = Map!Over(entries[c], s.key)
          /\ Map!Answers(X, entries[c], s.key, w.value, w.lt.size + w.gt.size, c.size)
      BY <3>2, SplitLookupParts
    <3>4. P(w.lt, s.lhs, l) /\ P(w.gt, s.rhs, r)
      <4>1. s.lhs \in S /\ s.rhs \in S
        <5> HIDE DEF S
        <5> QED BY <1>1, <3>2
      <4> QED BY <3>3, <4>1
    <3>5. Map!Outside(entries[c], entries[s]) =
            Map!Outside(entries[w.lt], entries[s.lhs]) \cup Map!Outside(entries[w.gt], entries[s.rhs])
      <4> HIDE DEF P, S
      <4>1. Map!Outside(entries[c], entries[s]) =
              Map!Outside(Map!Under(entries[c], s.key), entries[s.lhs])
                 \cup Map!Outside(Map!Over(entries[c], s.key), entries[s.rhs])
        BY <2>5, OutsideParts
      <4> QED BY <3>3, <4>1
    <3> HIDE DEF u, w, l, r
    <3>6. /\ w.lt.size \in Nat /\ w.gt.size \in Nat /\ l.size \in Nat /\ r.size \in Nat
      <4>1. l \in V /\ r \in V
        BY <3>4
      <4> QED BY <3>3, <4>1, Parts
    <3>7. /\ w.lt.size + w.gt.size <= c.size
          /\ w.lt.size + w.gt.size = c.size => ~ Map!Has(entries[c], s.key)
      <4>1. w.lt.size + w.gt.size \in Nat
        BY <3>6
      <4> QED BY <2>2, <3>3, <4>1, AnswerCounts
    <3>8. CASE l.size + r.size = c.size
      <4>1. u = c
        BY <3>1, <3>8
      <4>2. /\ l.size = w.lt.size /\ r.size = w.gt.size
            /\ ~ Map!Has(entries[c], s.key)
        BY <2>2, <3>4, <3>6, <3>7, <3>8
      <4>3. /\ Map!Outside(entries[w.lt], entries[s.lhs]) = Map!Under(entries[c], s.key)
            /\ Map!Outside(entries[w.gt], entries[s.rhs]) = Map!Over(entries[c], s.key)
        BY <3>3, <3>4, <4>2
      <4>4. entries[c] = Map!Under(entries[c], s.key) \cup Map!Over(entries[c], s.key)
        <5>1. \A e \in entries[c] : e[1] \in Nat
          BY EntriesType
        <5>2. s.key \in Nat
          BY <3>2 DEF Map!SearchTrees
        <5>3. \A e \in entries[c] : e[1] < s.key \/ s.key < e[1]
          BY <4>2, <5>1, <5>2 DEF Map!Has
        <5> QED BY <5>3 DEF Map!Under, Map!Over
      <4>5. P(c, s, u)
        BY <2>2, <3>5, <4>1, <4>3, <4>4
      <4> QED BY <4>5 DEF u
    <3>9. CASE l.size + r.size # c.size
      <4>1. u = op.link2[<<l, r>>]
        BY <3>1, <3>9
      <4>2. l \in V /\ r \in V
        BY <3>4
      <4>3. Map!Precede(entries[l], entries[r])
        <5>1. /\ \A e \in entries[l] : e \in entries[c] /\ e[1] < s.key
              /\ \A e \in entries[r] : e \in entries[c] /\ s.key < e[1]
          BY <3>3, <3>4 DEF Map!Outside, Map!Under, Map!Over
        <5>2. \A e \in entries[c] : e[1] \in Nat
          BY EntriesType
        <5>3. s.key \in Nat
          BY <3>2 DEF Map!SearchTrees
        <5> QED BY <5>1, <5>2, <5>3 DEF Map!Precede
      <4>4. Map!Holds(V, entries, u, l.size + r.size, entries[l] \cup entries[r])
        BY <4>1, <4>2, <4>3, Link2Joins
      <4>5. u \in V /\ u.size = l.size + r.size /\ entries[u] = entries[l] \cup entries[r]
        BY <4>4 DEF Map!Holds
      <4>6. u.size <= c.size /\ u.size # c.size
        BY <2>2, <3>4, <3>6, <3>7, <3>9, <4>5
      <4>7. entries[u] = Map!Outside(entries[c], entries[s])
        BY <3>4, <3>5, <4>5
      <4>8. P(c, s, u)
        BY <4>5, <4>6, <4>7
      <4> QED BY <4>8 DEF u
    <3> QED BY <3>8, <3>9
  <2> QED BY <2>3, <2>4, <2>5
<1>2. V \subseteq S
  <2> HIDE DEF S
  <2> QED BY <1>1, TreeInduction
<1>3. P(a, b, op.difference[<<a, b>>])
  BY <1>2
<1> QED BY <1>3

(* The intersection of two maps is a valid tree, of the entries of the     *)
(* first whose keys the second has.                                        *)
THEOREM IntersectKeepsTheFirst ==
    ASSUME NEW K, NEW V, NEW X, NEW entries, NEW op, Map!SearchTrees(K, V, X, entries),
           Map!Balancing(K, V, X, op), Map!OnKeys(K, V, X, op), Map!OnMaps(K, V, op),
           NEW a \in V, NEW b \in V
    PROVE  /\ op.intersect[<<a, b>>] \in V
           /\ entries[op.intersect[<<a, b>>]] = Map!Inside(entries[a], entries[b])
<1> DEFINE P(s, c) ==
              /\ op.intersect[<<s, c>>] \in V
              /\ entries[op.intersect[<<s, c>>]] = Map!Inside(entries[s], entries[c])
           S == {s \in V : \A c \in V : P(s, c)}
<1>1. ASSUME NEW s \in V, \A y \in V : y.size < s.size => y \in S
      PROVE  s \in S
  <2> SUFFICES ASSUME NEW c \in V
               PROVE  P(s, c)
    OBVIOUS
  <2> DEFINE u == op.intersect[<<s, c>>]
             w == op.splitLookup[<<c, s.key>>]
             l == op.intersect[<<s.lhs, w.lt>>]
             r == op.intersect[<<s.rhs, w.gt>>]
  <2>1. u = IF Map!IsEmpty(s) \/ Map!IsEmpty(c) THEN Map!Empty
            ELSE IF w.value = Map!None THEN op.link2[<<l, r>>]
            ELSE IF l = s.lhs /\ r = s.rhs THEN s ELSE op.link[<<s.key, s.value, l, r>>]
    BY DEF Map!OnMaps, Map!IntersectStep, Map!Linked
  <2>2. entries[Map!Empty] = {} /\ Map!IsEmpty(Map!Empty) /\ Map!Empty \in V
    BY EmptyFields DEF Map!IsEmpty, Map!SearchTrees
  <2>3. CASE s = Map!Empty \/ c = Map!Empty
    <3>1. u = Map!Empty
      BY <2>1, <2>2, <2>3
    <3>2. Map!Inside(entries[s], entries[c]) = {}
      BY <2>2, <2>3 DEF Map!Inside, Map!Has
    <3> QED BY <2>2, <3>1, <3>2
  <2>4. CASE s # Map!Empty /\ c # Map!Empty
    <3>1. u = IF w.value = Map!None THEN op.link2[<<l, r>>]
              ELSE IF l = s.lhs /\ r = s.rhs THEN s ELSE op.link[<<s.key, s.value, l, r>>]
      <4>1. ~ Map!IsEmpty(s) /\ ~ Map!IsEmpty(c)
        BY <2>4, Parts
      <4> QED BY <2>1, <4>1
    <3>2. /\ s.lhs \in V /\ s.rhs \in V /\ s.key \in K
          /\ s.lhs.size \in Nat /\ s.rhs.size \in Nat
          /\ s.size = 1 + s.lhs.size + s.rhs.size
          /\ Map!Below(entries[s.lhs], s.key) /\ Map!Above(entries[s.rhs], s.key)
      BY <2>4, Parts
    <3>3. /\ w.lt \in V /\ w.gt \in V
          /\ entries[w.lt] = Map!Under(entries[c], s.key)
          /\ entries[w.gt] = Map!Over(entries[c], s.key)
          /\ Map!Answers(X, entries[c], s.key, w.value, w.lt.size + w.gt.size, c.size)
      BY <3>2, SplitLookupParts
    <3>4. P(s.lhs, w.lt) /\ P(s.rhs, w.gt)
      <4>1. s.lhs \in S /\ s.rhs \in S
        <5> HIDE DEF S
        <5> QED BY <1>1, <3>2
      <4> QED BY <3>3, <4>1
    <3>5. /\ l \in V /\ entries[l] = Map!Inside(entries[s.lhs], Map!Under(entries[c], s.key))
          /\ r \in V /\ entries[r] = Map!Inside(entries[s.rhs], Map!Over(entries[c], s.key))
      BY <3>3, <3>4
    <3>6. w.value = Map!None <=> ~ Map!Has(entries[c], s.key)
      <4>1. \A x : Map!Some(x) # Map!None
        BY DEF Map!Some, Map!None
      <4>2. \A x : <<s.key, x>>[1] = s.key
        OBVIOUS
      <4> QED BY <3>3, <4>1, <4>2 DEF Map!Answers, Map!Has
    <3>7. Map!Inside(entries[s], entries[c]) =
            entries[l] \cup Map!Inside({<<s.key, s.value>>}, entries[c]) \cup entries[r]
      <4> HIDE DEF P, S, l, r
      <4>1. Map!Inside(entries[s], entries[c]) =
              Map!Inside(entries[s.lhs], Map!Under(entries[c], s.key))
                 \cup Map!Inside({<<s.key, s.value>>}, entries[c])
                 \cup Map!Inside(entries[s.rhs], Map!Over(entries[c], s.key))
        BY <2>4, InsideParts
      <4> QED BY <3>5, <4>1
    <3>8. entries[l] \subseteq entries[s.lhs] /\ entries[r] \subseteq entries[s.rhs]
      BY <3>5 DEF Map!Inside
    <3>9. <<s.key, s.value>>[1] = s.key
      OBVIOUS
    <3> HIDE DEF u, w, l, r
    <3>10. Map!Below(entries[l], s.key) /\ Map!Above(entries[r], s.key) /\ Map!Precede(entries[l], entries[r])
      BY <2>4, <3>8, NodePrecedes
    <3>11. CASE w.value = Map!None
      <4>1. u = op.link2[<<l, r>>]
        BY <3>1, <3>11
      <4>2. Map!Holds(V, entries, u, l.size + r.size, entries[l] \cup entries[r])
        BY <3>5, <3>10, <4>1, Link2Joins
      <4>3. Map!Inside({<<s.key, s.value>>}, entries[c]) = {}
        BY <3>6, <3>9, <3>11 DEF Map!Inside
      <4>4. u \in V /\ entries[u] = Map!Inside(entries[s], entries[c])
        BY <3>7, <4>2, <4>3 DEF Map!Holds
      <4> QED BY <4>4 DEF u
    <3>12. CASE w.value # Map!None
      <4>1. u = IF l = s.lhs /\ r = s.rhs THEN s ELSE op.link[<<s.key, s.value, l, r>>]
        BY <3>1, <3>12
      <4>2. Map!Holds(V, entries, u, 1 + l.size + r.size,
                       entries[l] \cup {<<s.key, s.value>>} \cup entries[r])
        BY <2>4, <3>5, <3>10, <4>1, LinkedFacts
      <4>3. Map!Inside({<<s.key, s.value>>}, entries[c]) = {<<s.key, s.value>>}
        BY <3>6, <3>9, <3>12 DEF Map!Inside
      <4>4. u \in V /\ entries[u] = Map!Inside(entries[s], entries[c])
        BY <3>7, <4>2, <4>3 DEF Map!Holds
      <4> QED BY <4>4 DEF u
    <3> QED BY <3>11, <3>12
  <2> QED BY <2>3, <2>4
<1>2. V \subseteq S
  <2> HIDE DEF S
  <2> QED BY <1>1, TreeInduction
<1> QED BY <1>2

(* After filter the tree is a valid one, of the entries whose keys the     *)
(* predicate accepts.                                                      *)
THEOREM FilterSelects ==
    ASSUME NEW K, NEW V, NEW X, NEW entries, NEW op, Map!SearchTrees(K, V, X, entries),
           Map!Balancing(K, V, X, op), Map!OnMaps(K, V, op),
           NEW t \in V, NEW p \in SUBSET K
    PROVE  /\ op.filter[<<t, p>>] \in V
           /\ entries[op.filter[<<t, p>>]] = Map!Among(entries[t], p)
<1> DEFINE P(s) == /\ op.filter[<<s, p>>] \in V
                   /\ entries[op.filter[<<s, p>>]] = Map!Among(entries[s], p)
           S == {s \in V : P(s)}
<1>1. ASSUME NEW s \in V, \A y \in V : y.size < s.size => y \in S
      PROVE  s \in S
  <2> DEFINE u == op.filter[<<s, p>>]
             l == op.filter[<<s.lhs, p>>]
             r == op.filter[<<s.rhs, p>>]
  <2>1. u = IF Map!IsEmpty(s) THEN Map!Empty
            ELSE IF s.size = 1 THEN (IF s.key \in p THEN s ELSE Map!Empty)
            ELSE IF s.key \in p
              THEN (IF l = s.lhs /\ r = s.rhs THEN s ELSE op.link[<<s.key, s.value, l, r>>])
              ELSE op.link2[<<l, r>>]
    BY DEF Map!OnMaps, Map!FilterStep, Map!Linked
  <2>2. entries[Map!Empty] = {} /\ Map!IsEmpty(Map!Empty) /\ Map!Empty \in V
    BY EmptyFields DEF Map!IsEmpty, Map!SearchTrees
  <2>3. <<s.key, s.value>>[1] = s.key
    OBVIOUS
  <2>4. CASE s = Map!Empty
    <3>1. u = Map!Empty
      BY <2>1, <2>2, <2>4
    <3>2. Map!Among(entries[s], p) = {}
      BY <2>2, <2>4 DEF Map!Among
    <3> QED BY <2>2, <3>1, <3>2
  <2>5. CASE s # Map!Empty /\ s.size = 1
    <3>1. u = IF s.key \in p THEN s ELSE Map!Empty
      BY <2>1, <2>5, Parts
    <3>2. entries[s] = {<<s.key, s.value>>}
      BY <2>5, OneEntry
    <3>3. Map!Among(entries[s], p) = IF s.key \in p THEN entries[s] ELSE {}
      BY <2>3, <3>2 DEF Map!Among
    <3> HIDE DEF u
    <3>4. u \in V /\ entries[u] = Map!Among(entries[s], p)
      BY <2>2, <3>1, <3>3
    <3> QED BY <3>4 DEF u
  <2>6. CASE s # Map!Empty /\ s.size # 1
    <3>1. u = IF s.key \in p
                THEN (IF l = s.lhs /\ r = s.rhs THEN s ELSE op.link[<<s.key, s.value, l, r>>])
                ELSE op.link2[<<l, r>>]
      BY <2>1, <2>6, Parts
    <3>2. /\ s.lhs \in V /\ s.rhs \in V /\ s.key \in K
          /\ s.lhs.size \in Nat /\ s.rhs.size \in Nat
          /\ s.size = 1 + s.lhs.size + s.rhs.size
          /\ entries[s] = entries[s.lhs] \cup {<<s.key, s.value>>} \cup entries[s.rhs]
      BY <2>6, Parts
    <3>3. P(s.lhs) /\ P(s.rhs)
      <4>1. s.lhs \in S /\ s.rhs \in S
        <5> HIDE DEF S
        <5> QED BY <1>1, <3>2
      <4> QED BY <4>1
    <3>4. /\ l \in V /\ entries[l] = Map!Among(entries[s.lhs], p)
          /\ r \in V /\ entries[r] = Map!Among(entries[s.rhs], p)
      BY <3>3
    <3> HIDE DEF u, l, r
    <3>5. entries[l] \subseteq entries[s.lhs] /\ entries[r] \subseteq entries[s.rhs]
      BY <3>4 DEF Map!Among
    <3>6. Map!Below(entries[l], s.key) /\ Map!Above(entries[r], s.key) /\ Map!Precede(entries[l], entries[r])
      BY <2>6, <3>5, NodePrecedes
    <3>7. CASE s.key \in p
      <4>1. u = IF l = s.lhs /\ r = s.rhs THEN s ELSE op.link[<<s.key, s.value, l, r>>]
        BY <3>1, <3>7
      <4>2. Map!Holds(V, entries, u, 1 + l.size + r.size,
                       entries[l] \cup {<<s.key, s.value>>} \cup entries[r])
        BY <2>6, <3>4, <3>6, <4>1, LinkedFacts
      <4>3. Map!Among(entries[s], p) = entries[l] \cup {<<s.key, s.value>>} \cup entries[r]
        BY <2>3, <3>2, <3>4, <3>7 DEF Map!Among
      <4>4. u \in V /\ entries[u] = Map!Among(entries[s], p)
        BY <4>2, <4>3 DEF Map!Holds
      <4> QED BY <4>4 DEF u
    <3>8. CASE s.key \notin p
      <4>1. u = op.link2[<<l, r>>]
        BY <3>1, <3>8
      <4>2. Map!Holds(V, entries, u, l.size + r.size, entries[l] \cup entries[r])
        BY <3>4, <3>6, <4>1, Link2Joins
      <4>3. Map!Among(entries[s], p) = entries[l] \cup entries[r]
        BY <2>3, <3>2, <3>4, <3>8 DEF Map!Among
      <4>4. u \in V /\ entries[u] = Map!Among(entries[s], p)
        BY <4>2, <4>3 DEF Map!Holds
      <4> QED BY <4>4 DEF u
    <3> QED BY <3>7, <3>8
  <2> QED BY <2>4, <2>5, <2>6
<1>2. V \subseteq S
  <2> HIDE DEF S
  <2> QED BY <1>1, TreeInduction
<1> QED BY <1>2

-----------------------------------------------------------------------------
(* Positions.                                                              *)

(* The entries of a node in their order.                                   *)
LEMMA NodeOrder ==
    ASSUME NEW K, NEW V, NEW X, NEW entries, Map!SearchTrees(K, V, X, entries),
           NEW t \in V, t # Map!Empty
    PROVE  LET L == entries[t.lhs]
               R == entries[t.rhs]
               n == <<t.key, t.value>>
           IN  /\ entries[t] = L \cup {n} \cup R
               /\ Map!Precede(L, {n} \cup R) /\ Map!Precede(L \cup {n}, R)
               /\ n \notin L /\ n \notin R /\ L \cap R = {}
<1> DEFINE L == entries[t.lhs]
           R == entries[t.rhs]
           n == <<t.key, t.value>>
<1>1. entries[t] = L \cup {n} \cup R /\ t.lhs \in V /\ t.rhs \in V /\ t.key \in K
  BY Parts
<1>2. n[1] = t.key /\ t.key \in Nat
  BY <1>1 DEF Map!SearchTrees
<1>3. (\A e \in L : e[1] \in Nat) /\ (\A e \in R : e[1] \in Nat)
  BY <1>1, EntriesType
<1>4. (\A e \in L : e[1] < t.key) /\ (\A e \in R : t.key < e[1])
  BY <1>1, Sides
<1> HIDE DEF L, R, n
<1>5. Map!Precede(L, {n} \cup R)
  BY <1>2, <1>3, <1>4 DEF Map!Precede
<1>6. Map!Precede(L \cup {n}, R)
  BY <1>2, <1>3, <1>4 DEF Map!Precede
<1>7. n \notin L /\ n \notin R /\ L \cap R = {}
  BY <1>2, <1>3, <1>4
<1> QED BY <1>1, <1>5, <1>6, <1>7 DEF L, R, n

(* The size of a tree is the number of its entries.                        *)
LEMMA SizeCounts ==
    ASSUME NEW K, NEW V, NEW X, NEW entries, Map!SearchTrees(K, V, X, entries), NEW t \in V
    PROVE  IsFiniteSet(entries[t]) /\ Cardinality(entries[t]) = t.size
<1> DEFINE S == {s \in V : IsFiniteSet(entries[s]) /\ Cardinality(entries[s]) = s.size}
<1>1. ASSUME NEW s \in V, \A y \in V : y.size < s.size => y \in S
      PROVE  s \in S
  <2>1. CASE s = Map!Empty
    <3>1. entries[s] = {} /\ s.size = 0
      BY <2>1, EmptyFields DEF Map!SearchTrees
    <3> QED BY <3>1, FS_EmptySet
  <2>2. CASE s # Map!Empty
    <3> DEFINE L == entries[s.lhs]
               R == entries[s.rhs]
               n == <<s.key, s.value>>
    <3>1. /\ s.lhs \in V /\ s.rhs \in V /\ s.lhs.size \in Nat /\ s.rhs.size \in Nat
          /\ s.size = 1 + s.lhs.size + s.rhs.size
      BY <2>2, Parts
    <3>2. s.lhs \in S /\ s.rhs \in S
      <4> HIDE DEF S
      <4> QED BY <1>1, <3>1
    <3>3. entries[s] = L \cup {n} \cup R /\ n \notin L /\ n \notin R /\ L \cap R = {}
      BY <2>2, NodeOrder
    <3>4. /\ IsFiniteSet(L) /\ Cardinality(L) = s.lhs.size
          /\ IsFiniteSet(R) /\ Cardinality(R) = s.rhs.size
      BY <3>2
    <3> HIDE DEF L, R, n
    <3>5. IsFiniteSet(L \cup {n}) /\ Cardinality(L \cup {n}) = s.lhs.size + 1
      BY <3>3, <3>4, FS_AddElement
    <3>6. /\ IsFiniteSet(entries[s])
          /\ Cardinality(entries[s]) = (s.lhs.size + 1) + s.rhs.size - Cardinality({})
      <4>1. (L \cup {n}) \cap R = {}
        BY <3>3
      <4> QED BY <3>3, <3>4, <3>5, <4>1, FS_Union
    <3>7. Cardinality(entries[s]) = s.size
      BY <3>1, <3>6, FS_EmptySet
    <3> QED BY <3>6, <3>7
  <2> QED BY <2>1, <2>2
<1>2. V \subseteq S
  <2> HIDE DEF S
  <2> QED BY <1>1, TreeInduction
<1> QED BY <1>2

(* The number of entries before a key, by where it is.                     *)
LEMMA UnderCounts ==
    ASSUME NEW K, NEW V, NEW X, NEW entries, Map!SearchTrees(K, V, X, entries),
           NEW t \in V, t # Map!Empty, NEW k \in K
    PROVE  LET Before(u) == Cardinality(Map!Under(entries[u], k)) IN
           /\ Before(t) \in Nat /\ Before(t.lhs) \in Nat /\ Before(t.rhs) \in Nat
           /\ k < t.key => Before(t) = Before(t.lhs)
           /\ t.key < k => Before(t) = t.lhs.size + 1 + Before(t.rhs)
           /\ k = t.key => Before(t) = t.lhs.size
<1> DEFINE L == entries[t.lhs]
           R == entries[t.rhs]
           n == <<t.key, t.value>>
           U(es) == Map!Under(es, k)
<1>1. t.lhs \in V /\ t.rhs \in V /\ t.lhs.size \in Nat /\ t.rhs.size \in Nat
  BY Parts
<1>2. /\ IsFiniteSet(entries[t])
      /\ IsFiniteSet(L) /\ Cardinality(L) = t.lhs.size
      /\ IsFiniteSet(R)
  BY <1>1, SizeCounts
<1>3. \A es : IsFiniteSet(es) => IsFiniteSet(U(es)) /\ Cardinality(U(es)) \in Nat
  <2> SUFFICES ASSUME NEW es, IsFiniteSet(es)
               PROVE  IsFiniteSet(U(es)) /\ Cardinality(U(es)) \in Nat
    OBVIOUS
  <2>1. U(es) \in SUBSET es
    BY DEF Map!Under
  <2> HIDE DEF U
  <2> QED BY <2>1, FS_Subset, FS_CardinalityType
<1>4. /\ k < t.key => U(entries[t]) = U(L)
      /\ t.key < k => U(entries[t]) = L \cup {n} \cup U(R)
      /\ k = t.key => U(entries[t]) = L
  BY SplitParts
<1>5. n \notin L /\ n \notin R /\ L \cap R = {}
  BY NodeOrder
<1>6. U(R) \subseteq R
  BY DEF Map!Under
<1> HIDE DEF L, R, n, U
<1>7. IsFiniteSet(U(R)) /\ Cardinality(U(R)) \in Nat
  BY <1>2, <1>3
<1>8. Cardinality(L \cup {n} \cup U(R)) = t.lhs.size + 1 + Cardinality(U(R))
  <2>1. IsFiniteSet(L \cup {n}) /\ Cardinality(L \cup {n}) = t.lhs.size + 1
    BY <1>2, <1>5, FS_AddElement
  <2>2. (L \cup {n}) \cap U(R) = {}
    BY <1>5, <1>6
  <2>3. Cardinality(L \cup {n} \cup U(R)) = (t.lhs.size + 1) + Cardinality(U(R)) - Cardinality({})
    BY <1>7, <2>1, <2>2, FS_Union
  <2> QED BY <1>1, <1>7, <2>3, FS_EmptySet
<1>9. /\ Cardinality(U(entries[t])) \in Nat
      /\ Cardinality(U(L)) \in Nat /\ Cardinality(U(R)) \in Nat
  BY <1>2, <1>3
<1>10. /\ k < t.key => Cardinality(U(entries[t])) = Cardinality(U(L))
       /\ t.key < k => Cardinality(U(entries[t])) = t.lhs.size + 1 + Cardinality(U(R))
       /\ k = t.key => Cardinality(U(entries[t])) = t.lhs.size
  BY <1>2, <1>4, <1>8
<1> QED BY <1>9, <1>10 DEF L, R, U

(* The position i is that of a key which the map has, and before which it  *)
(* has i others: elemAt.                                                   *)
THEOREM ElemAtCounts ==
    ASSUME NEW K, NEW V, NEW X, NEW entries, NEW op, Map!SearchTrees(K, V, X, entries),
           NEW N \in Nat, Map!OnPlaces(K, V, N, op), NEW t \in V, NEW i \in 0..N, i < t.size
    PROVE  LET k == op.elemAt[<<t, i>>] IN
           k \in K /\ Map!Has(entries[t], k) /\ Cardinality(Map!Under(entries[t], k)) = i
<1> DEFINE P(s, j, k) ==
              k \in K /\ Map!Has(entries[s], k) /\ Cardinality(Map!Under(entries[s], k)) = j
           S == {s \in V : \A j \in 0..N : j < s.size => P(s, j, op.elemAt[<<s, j>>])}
<1>1. ASSUME NEW s \in V, \A y \in V : y.size < s.size => y \in S
      PROVE  s \in S
  <2> SUFFICES ASSUME NEW j \in 0..N, j < s.size
               PROVE  P(s, j, op.elemAt[<<s, j>>])
    OBVIOUS
  <2> DEFINE k == op.elemAt[<<s, j>>]
             i2 == j - s.lhs.size - 1
  <2>1. s # Map!Empty
    BY EmptyFields
  <2>2. /\ s.lhs \in V /\ s.rhs \in V /\ s.key \in K
        /\ s.lhs.size \in Nat /\ s.rhs.size \in Nat
        /\ s.size = 1 + s.lhs.size + s.rhs.size
        /\ entries[s] = entries[s.lhs] \cup {<<s.key, s.value>>} \cup entries[s.rhs]
    BY <2>1, Parts
  <2>3. k = IF j = s.lhs.size THEN s.key
            ELSE IF j < s.lhs.size THEN op.elemAt[<<s.lhs, j>>]
            ELSE op.elemAt[<<s.rhs, i2>>]
    BY DEF Map!OnPlaces, Map!ElemAtStep
  <2>4. s.lhs \in S /\ s.rhs \in S
    <3> HIDE DEF S
    <3> QED BY <1>1, <2>2
  <2>5. /\ \A e \in entries[s.lhs] : e[1] < s.key
        /\ \A e \in entries[s.rhs] : s.key < e[1]
    BY <2>1, <2>2, Sides
  <2>6. CASE j = s.lhs.size
    <3>1. k = s.key
      BY <2>3, <2>6
    <3> HIDE DEF k
    <3>2. Map!Has(entries[s], k)
      BY <2>1, <2>2, <3>1, WithoutParts
    <3>3. Cardinality(Map!Under(entries[s], k)) = s.lhs.size
      <4>1. k \in K /\ k = s.key
        BY <2>2, <3>1
      <4> QED BY <2>1, <4>1, UnderCounts
    <3>4. P(s, j, k)
      BY <2>2, <2>6, <3>1, <3>2, <3>3
    <3> QED BY <3>4 DEF k
  <2>7. CASE j < s.lhs.size
    <3>1. k = op.elemAt[<<s.lhs, j>>]
      BY <2>2, <2>3, <2>7
    <3>2. P(s.lhs, j, op.elemAt[<<s.lhs, j>>])
      BY <2>4, <2>7
    <3> HIDE DEF k
    <3>3. P(s.lhs, j, k)
      BY <3>1, <3>2
    <3>4. k < s.key
      BY <2>5, <3>3 DEF Map!Has
    <3>5. Map!Has(entries[s], k)
      BY <2>1, <3>3, <3>4, WithoutParts
    <3>6. Cardinality(Map!Under(entries[s], k)) = j
      BY <2>1, <3>3, <3>4, UnderCounts
    <3>7. P(s, j, k)
      BY <3>3, <3>5, <3>6
    <3> QED BY <3>7 DEF k
  <2>8. CASE j > s.lhs.size
    <3>1. k = op.elemAt[<<s.rhs, i2>>]
      BY <2>2, <2>3, <2>8
    <3>2. i2 \in 0..N /\ i2 < s.rhs.size /\ s.lhs.size + 1 + i2 = j
      BY <2>2, <2>8
    <3> HIDE DEF i2
    <3>3. P(s.rhs, i2, op.elemAt[<<s.rhs, i2>>])
      BY <2>4, <3>2
    <3> HIDE DEF k
    <3>4. P(s.rhs, i2, k)
      BY <3>1, <3>3
    <3>5. s.key < k
      BY <2>5, <3>4 DEF Map!Has
    <3>6. Map!Has(entries[s], k)
      BY <2>1, <3>4, <3>5, WithoutParts
    <3>7. Cardinality(Map!Under(entries[s], k)) = j
      BY <2>1, <3>2, <3>4, <3>5, UnderCounts
    <3>8. P(s, j, k)
      BY <3>4, <3>6, <3>7
    <3> QED BY <3>8 DEF k
  <2> QED BY <2>2, <2>6, <2>7, <2>8
<1>2. V \subseteq S
  <2> HIDE DEF S
  <2> QED BY <1>1, TreeInduction
<1> QED BY <1>2

(* The position of a key is the number of those before it, counted on from *)
(* c, if the map has it: keyIndex.                                         *)
THEOREM KeyIndexCounts ==
    ASSUME NEW K, NEW V, NEW X, NEW entries, NEW op, Map!SearchTrees(K, V, X, entries),
           NEW N \in Nat, Map!OnPlaces(K, V, N, op),
           NEW t \in V, NEW c \in 0..N, c + t.size <= N, NEW k \in K
    PROVE  op.keyIndex[<<t, c, k>>] =
              IF Map!Has(entries[t], k) THEN Map!Some(c + Cardinality(Map!Under(entries[t], k)))
              ELSE Map!None
<1> DEFINE Before(s) == Cardinality(Map!Under(entries[s], k))
           P(s, d, o) == o = IF Map!Has(entries[s], k) THEN Map!Some(d + Before(s)) ELSE Map!None
           S == {s \in V : \A d \in 0..N : d + s.size <= N => P(s, d, op.keyIndex[<<s, d, k>>])}
<1>1. ASSUME NEW s \in V, \A y \in V : y.size < s.size => y \in S
      PROVE  s \in S
  <2> SUFFICES ASSUME NEW d \in 0..N, d + s.size <= N
               PROVE  P(s, d, op.keyIndex[<<s, d, k>>])
    OBVIOUS
  <2> DEFINE o == op.keyIndex[<<s, d, k>>]
             d2 == d + s.lhs.size + 1
  <2>1. o = IF Map!IsEmpty(s) THEN Map!None
            ELSE IF k < s.key THEN op.keyIndex[<<s.lhs, d, k>>]
            ELSE IF k > s.key THEN op.keyIndex[<<s.rhs, d2, k>>]
            ELSE Map!Some(d + s.lhs.size)
    BY DEF Map!OnPlaces, Map!KeyIndexStep
  <2>2. CASE s = Map!Empty
    <3>1. entries[s] = {} /\ Map!IsEmpty(s)
      BY <2>2, EmptyFields DEF Map!SearchTrees, Map!IsEmpty
    <3>2. ~ Map!Has(entries[s], k)
      BY <3>1 DEF Map!Has
    <3> QED BY <2>1, <3>1, <3>2
  <2>3. CASE s # Map!Empty
    <3>1. /\ ~ Map!IsEmpty(s) /\ s.lhs \in V /\ s.rhs \in V
          /\ s.lhs.size \in Nat /\ s.rhs.size \in Nat
          /\ s.size = 1 + s.lhs.size + s.rhs.size
      BY <2>3, Parts
    <3>2. d2 \in 0..N /\ d2 + s.rhs.size <= N /\ d + s.lhs.size <= N
      BY <3>1
    <3>3. P(s.lhs, d, op.keyIndex[<<s.lhs, d, k>>]) /\ P(s.rhs, d2, op.keyIndex[<<s.rhs, d2, k>>])
      <4>1. s.lhs \in S /\ s.rhs \in S
        <5> HIDE DEF S
        <5> QED BY <1>1, <3>1
      <4> HIDE DEF d2
      <4> QED BY <3>2, <4>1
    <3>4. /\ Before(s) \in Nat /\ Before(s.lhs) \in Nat /\ Before(s.rhs) \in Nat
          /\ k < s.key => Before(s) = Before(s.lhs)
          /\ s.key < k => Before(s) = s.lhs.size + 1 + Before(s.rhs)
          /\ k = s.key => Before(s) = s.lhs.size
      BY <2>3, UnderCounts
    <3>5. s.key < k => d + Before(s) = d2 + Before(s.rhs)
      BY <3>1, <3>4
    <3> HIDE DEF o, d2, Before
    <3>6. CASE k < s.key
      <4>1. o = op.keyIndex[<<s.lhs, d, k>>]
        BY <2>1, <3>1, <3>6
      <4>2. Map!Has(entries[s], k) <=> Map!Has(entries[s.lhs], k)
        BY <2>3, <3>6, WithoutParts
      <4>3. P(s, d, o)
        BY <3>3, <3>4, <3>6, <4>1, <4>2
      <4> QED BY <4>3 DEF o
    <3>7. CASE s.key < k
      <4>1. o = op.keyIndex[<<s.rhs, d2, k>>]
        BY <2>1, <2>3, <3>1, <3>7, WithoutParts
      <4>2. Map!Has(entries[s], k) <=> Map!Has(entries[s.rhs], k)
        BY <2>3, <3>7, WithoutParts
      <4>3. P(s, d, o)
        BY <3>3, <3>5, <3>7, <4>1, <4>2
      <4> QED BY <4>3 DEF o
    <3>8. CASE k = s.key
      <4>1. o = Map!Some(d + s.lhs.size)
        BY <2>1, <2>3, <3>1, <3>8, WithoutParts
      <4>2. Map!Has(entries[s], k)
        BY <2>3, <3>8, WithoutParts
      <4>3. P(s, d, o)
        BY <3>4, <3>8, <4>1, <4>2
      <4> QED BY <4>3 DEF o
    <3>9. k < s.key \/ s.key < k \/ k = s.key
      BY <2>3, WithoutParts
    <3> QED BY <3>6, <3>7, <3>8, <3>9
  <2> QED BY <2>2, <2>3
<1>2. V \subseteq S
  <2> HIDE DEF S
  <2> QED BY <1>1, TreeInduction
<1> QED BY <1>2

(* The position of the key at a position is that position.                 *)
THEOREM PlacesAgree ==
    ASSUME NEW K, NEW V, NEW X, NEW entries, NEW op, Map!SearchTrees(K, V, X, entries),
           NEW N \in Nat, Map!OnPlaces(K, V, N, op), NEW t \in V, t.size <= N, NEW i \in 0..t.size - 1
    PROVE  op.keyIndex[<<t, 0, op.elemAt[<<t, i>>]>>] = Map!Some(i)
<1> DEFINE k == op.elemAt[<<t, i>>]
<1>1. t.size \in Nat
  BY Parts
<1>2. i \in 0..N /\ i < t.size /\ 0 + t.size <= N /\ 0 \in 0..N
  BY <1>1
<1>3. k \in K /\ Map!Has(entries[t], k) /\ Cardinality(Map!Under(entries[t], k)) = i
  BY <1>2, ElemAtCounts
<1> HIDE DEF k
<1>4. op.keyIndex[<<t, 0, k>>] =
         IF Map!Has(entries[t], k) THEN Map!Some(0 + Cardinality(Map!Under(entries[t], k)))
         ELSE Map!None
  <2>1. k \in K
    BY <1>3
  <2> QED BY <1>2, <2>1, KeyIndexCounts
<1>5. 0 + i = i
  BY <1>2
<1> QED BY <1>3, <1>4, <1>5 DEF k

(* After removeAt the tree is a valid one that holds all that it held but  *)
(* the key that elemAt returns for the position.                           *)
THEOREM RemoveAtTakesAway ==
    ASSUME NEW K, NEW V, NEW X, NEW entries, NEW op, Map!SearchTrees(K, V, X, entries),
           Map!Balancing(K, V, X, op), NEW N \in Nat, Map!OnPlaces(K, V, N, op),
           NEW t \in V, NEW i \in 0..N, i < t.size
    PROVE  LET u == op.removeAt[<<t, i>>] IN
           /\ u \in V /\ u.size + 1 = t.size
           /\ entries[u] = Map!Without(entries[t], op.elemAt[<<t, i>>])
<1> DEFINE P(s, u, k) == u \in V /\ u.size + 1 = s.size /\ entries[u] = Map!Without(entries[s], k)
           S == {s \in V : \A j \in 0..N : j < s.size => P(s, op.removeAt[<<s, j>>], op.elemAt[<<s, j>>])}
<1>1. ASSUME NEW s \in V, \A y \in V : y.size < s.size => y \in S
      PROVE  s \in S
  <2> SUFFICES ASSUME NEW j \in 0..N, j < s.size
               PROVE  P(s, op.removeAt[<<s, j>>], op.elemAt[<<s, j>>])
    OBVIOUS
  <2> DEFINE j2 == j - s.lhs.size - 1
             u == op.removeAt[<<s, j>>]
             lu == op.removeAt[<<s.lhs, j>>]
             ru == op.removeAt[<<s.rhs, j2>>]
             k == op.elemAt[<<s, j>>]
             lk == op.elemAt[<<s.lhs, j>>]
             rk == op.elemAt[<<s.rhs, j2>>]
  <2>1. s # Map!Empty
    BY EmptyFields
  <2>2. /\ s.lhs \in V /\ s.rhs \in V /\ s.key \in K /\ s.value \in X
        /\ s.lhs.size \in Nat /\ s.rhs.size \in Nat
        /\ s.size = 1 + s.lhs.size + s.rhs.size
        /\ Map!Balanced(s.lhs.size, s.rhs.size)
        /\ Map!Below(entries[s.lhs], s.key) /\ Map!Above(entries[s.rhs], s.key)
    BY <2>1, Parts
  <2>3. /\ u = IF j = s.lhs.size THEN op.glue[<<s.lhs, s.rhs>>]
               ELSE IF j < s.lhs.size THEN Map!BalanceR(s.key, s.value, lu, s.rhs)
               ELSE Map!BalanceL(s.key, s.value, s.lhs, ru)
        /\ k = IF j = s.lhs.size THEN s.key ELSE IF j < s.lhs.size THEN lk ELSE rk
    BY DEF Map!OnPlaces, Map!ElemAtStep, Map!RemoveAtStep
  <2>4. s.lhs \in S /\ s.rhs \in S
    <3> HIDE DEF S
    <3> QED BY <1>1, <2>2
  <2>5. /\ Map!Holds(V, entries, s.lhs, s.lhs.size, entries[s.lhs])
        /\ Map!Holds(V, entries, s.rhs, s.rhs.size, entries[s.rhs])
    BY <2>2 DEF Map!Holds
  <2>6. CASE j = s.lhs.size
    <3>1. u = op.glue[<<s.lhs, s.rhs>>] /\ k = s.key
      BY <2>3, <2>6
    <3> HIDE DEF u, k
    <3>2. Map!Precede(entries[s.lhs], entries[s.rhs])
      BY <2>1, NodePrecedes
    <3>3. Map!Holds(V, entries, u, s.lhs.size + s.rhs.size, entries[s.lhs] \cup entries[s.rhs])
      BY <2>2, <3>1, <3>2, GlueFacts
    <3>4. Map!Without(entries[s], k) = entries[s.lhs] \cup entries[s.rhs]
      BY <2>1, <2>2, <3>1, WithoutParts
    <3>5. P(s, u, k)
      BY <2>2, <3>3, <3>4 DEF Map!Holds
    <3> QED BY <3>5 DEF u, k
  <2>7. CASE j < s.lhs.size
    <3>1. u = Map!BalanceR(s.key, s.value, lu, s.rhs) /\ k = lk
      BY <2>2, <2>3, <2>7
    <3>2. P(s.lhs, lu, lk)
      BY <2>4, <2>7
    <3>3. lk \in K /\ lk < s.key
      <4>1. lk \in K /\ Map!Has(entries[s.lhs], lk)
        BY <2>2, <2>7, ElemAtCounts
      <4> HIDE DEF lk
      <4> QED BY <2>2, <4>1 DEF Map!Has, Map!Below
    <3> HIDE DEF u, k, lu, lk
    <3> DEFINE A == Map!Without(entries[s.lhs], lk)
    <3>4. Map!Holds(V, entries, lu, lu.size, A) /\ lu.size \in Nat
      BY <3>2, Parts DEF Map!Holds
    <3>5. Map!Below(A, s.key)
      BY <2>2 DEF Map!Below, Map!Without
    <3> HIDE DEF A
    <3>6. /\ lu.size <= Map!Delta * s.rhs.size \/ lu.size + s.rhs.size <= 1
          /\ s.rhs.size <= Map!Delta * lu.size + 3
      BY <2>2, <3>2, <3>4 DEF Map!Balanced, Map!Delta
    <3>7. Map!Holds(V, entries, u, 1 + lu.size + s.rhs.size,
                     A \cup {<<s.key, s.value>>} \cup entries[s.rhs])
      BY <2>2, <2>5, <3>1, <3>4, <3>5, <3>6, BalanceRRestores
    <3>8. Map!Without(entries[s], k) = A \cup {<<s.key, s.value>>} \cup entries[s.rhs]
      BY <2>1, <3>1, <3>3, WithoutParts DEF A
    <3>9. P(s, u, k)
      BY <2>2, <3>2, <3>4, <3>7, <3>8 DEF Map!Holds
    <3> QED BY <3>9 DEF u, k
  <2>8. CASE j > s.lhs.size
    <3>1. u = Map!BalanceL(s.key, s.value, s.lhs, ru) /\ k = rk
      BY <2>2, <2>3, <2>8
    <3>2. j2 \in 0..N /\ j2 < s.rhs.size
      BY <2>2, <2>8
    <3> HIDE DEF j2
    <3>3. P(s.rhs, ru, rk)
      BY <2>4, <3>2
    <3>4. rk \in K /\ s.key < rk
      <4>1. rk \in K /\ Map!Has(entries[s.rhs], rk)
        BY <2>2, <3>2, ElemAtCounts
      <4> HIDE DEF rk
      <4> QED BY <2>2, <4>1 DEF Map!Has, Map!Above
    <3> HIDE DEF u, k, ru, rk
    <3> DEFINE B == Map!Without(entries[s.rhs], rk)
    <3>5. Map!Holds(V, entries, ru, ru.size, B) /\ ru.size \in Nat
      BY <3>3, Parts DEF Map!Holds
    <3>6. Map!Above(B, s.key)
      BY <2>2 DEF Map!Above, Map!Without
    <3> HIDE DEF B
    <3>7. /\ ru.size <= Map!Delta * s.lhs.size \/ s.lhs.size + ru.size <= 1
          /\ s.lhs.size <= Map!Delta * ru.size + 3
      BY <2>2, <3>3, <3>5 DEF Map!Balanced, Map!Delta
    <3>8. Map!Holds(V, entries, u, 1 + s.lhs.size + ru.size,
                     entries[s.lhs] \cup {<<s.key, s.value>>} \cup B)
      BY <2>2, <2>5, <3>1, <3>5, <3>6, <3>7, BalanceLRestores
    <3>9. Map!Without(entries[s], k) = entries[s.lhs] \cup {<<s.key, s.value>>} \cup B
      BY <2>1, <3>1, <3>4, WithoutParts DEF B
    <3>10. P(s, u, k)
      BY <2>2, <3>3, <3>5, <3>8, <3>9 DEF Map!Holds
    <3> QED BY <3>10 DEF u, k
  <2> QED BY <2>2, <2>6, <2>7, <2>8
<1>2. V \subseteq S
  <2> HIDE DEF S
  <2> QED BY <1>1, TreeInduction
<1> QED BY <1>2

(* Where the entries of a node are cut in two: within those on the left,   *)
(* or within those on the right.                                           *)
LEMMA CutParts ==
    ASSUME NEW K, NEW V, NEW X, NEW entries, Map!SearchTrees(K, V, X, entries),
           NEW t \in V, t # Map!Empty, NEW A, NEW B,
           A \subseteq entries[t.lhs], B \subseteq entries[t.rhs]
    PROVE  LET E == entries[t]
               L == entries[t.lhs]
               R == entries[t.rhs]
               n == <<t.key, t.value>>
           IN  /\ Map!Precede(A, L \ A) => Map!Precede(A, E \ A)
               /\ Map!Precede(B, R \ B) => Map!Precede(L \cup {n} \cup B, E \ (L \cup {n} \cup B))
               /\ Map!Precede(L, E \ L)
<1> DEFINE E == entries[t]
           L == entries[t.lhs]
           R == entries[t.rhs]
           n == <<t.key, t.value>>
<1>1. /\ E = L \cup {n} \cup R
      /\ Map!Precede(L, {n} \cup R) /\ Map!Precede(L \cup {n}, R)
      /\ n \notin L /\ n \notin R /\ L \cap R = {}
  BY NodeOrder
<1>2. A \subseteq L /\ B \subseteq R
  OBVIOUS
<1> HIDE DEF E, L, R, n
<1>3. /\ E \ A = (L \ A) \cup {n} \cup R
      /\ E \ (L \cup {n} \cup B) = R \ B
      /\ E \ L = {n} \cup R
  BY <1>1, <1>2
<1>4. Map!Precede(A, L \ A) => Map!Precede(A, (L \ A) \cup {n} \cup R)
  BY <1>1, <1>2 DEF Map!Precede
<1>5. Map!Precede(B, R \ B) => Map!Precede(L \cup {n} \cup B, R \ B)
  BY <1>1, <1>2 DEF Map!Precede
<1> QED BY <1>1, <1>3, <1>4, <1>5 DEF E, L, R, n

(* take returns a valid tree of the first entries, as many as it is asked  *)
(* for if there are that many.                                             *)
THEOREM TakeHoldsFirst ==
    ASSUME NEW K, NEW V, NEW X, NEW entries, NEW op, Map!SearchTrees(K, V, X, entries),
           Map!Balancing(K, V, X, op), NEW N \in Nat, Map!OnPlaces(K, V, N, op),
           NEW t \in V, NEW i \in 0..N
    PROVE  Map!HoldsFirst(V, entries, t, i, op.take[<<t, i>>])
<1> DEFINE P(s, j) == Map!HoldsFirst(V, entries, s, j, op.take[<<s, j>>])
           S == {s \in V : \A j \in 0..N : P(s, j)}
<1>1. ASSUME NEW s \in V, \A y \in V : y.size < s.size => y \in S
      PROVE  s \in S
  <2> SUFFICES ASSUME NEW j \in 0..N
               PROVE  P(s, j)
    OBVIOUS
  <2> DEFINE u == op.take[<<s, j>>]
             j2 == j - s.lhs.size - 1
             lu == op.take[<<s.lhs, j>>]
             ru == op.take[<<s.rhs, j2>>]
  <2>1. u = IF j = 0 \/ Map!IsEmpty(s) THEN Map!Empty
            ELSE IF j < s.lhs.size THEN lu
            ELSE IF j > s.lhs.size THEN op.link[<<s.key, s.value, s.lhs, ru>>]
            ELSE s.lhs
    BY DEF Map!OnPlaces, Map!TakeStep
  <2>2. entries[Map!Empty] = {} /\ Map!Empty \in V /\ Map!Empty.size = 0
    BY EmptyFields DEF Map!SearchTrees
  <2>3. CASE j = 0 \/ s = Map!Empty
    <3>1. u = Map!Empty
      BY <2>1, <2>3, Parts
    <3>2. s.size \in Nat /\ (s = Map!Empty => s.size = 0)
      BY <2>2, Parts
    <3> HIDE DEF u
    <3>3. Map!HoldsFirst(V, entries, s, j, u)
      BY <2>2, <2>3, <3>1, <3>2 DEF Map!HoldsFirst, Map!Precede
    <3> QED BY <3>3 DEF u
  <2>4. CASE j # 0 /\ s # Map!Empty
    <3>1. /\ ~ Map!IsEmpty(s) /\ s.lhs \in V /\ s.rhs \in V /\ s.key \in K /\ s.value \in X
          /\ s.lhs.size \in Nat /\ s.rhs.size \in Nat
          /\ s.size = 1 + s.lhs.size + s.rhs.size
          /\ entries[s] = entries[s.lhs] \cup {<<s.key, s.value>>} \cup entries[s.rhs]
      BY <2>4, Parts
    <3>2. s.lhs \in S /\ s.rhs \in S
      <4> HIDE DEF S
      <4> QED BY <1>1, <3>1
    <3>3. CASE j < s.lhs.size
      <4>1. u = lu
        BY <2>1, <2>4, <3>1, <3>3
      <4>2. Map!HoldsFirst(V, entries, s.lhs, j, lu)
        BY <3>2
      <4> HIDE DEF u, lu
      <4>3. /\ lu \in V /\ lu.size = j
            /\ entries[lu] \subseteq entries[s.lhs]
            /\ Map!Precede(entries[lu], entries[s.lhs] \ entries[lu])
        BY <3>3, <4>2 DEF Map!HoldsFirst
      <4>4. Map!Precede(entries[lu], entries[s] \ entries[lu])
        BY <2>4, <4>3, CutParts
      <4>5. Map!HoldsFirst(V, entries, s, j, u)
        BY <3>1, <3>3, <4>1, <4>3, <4>4 DEF Map!HoldsFirst
      <4> QED BY <4>5 DEF u
    <3>4. CASE j > s.lhs.size
      <4>1. u = op.link[<<s.key, s.value, s.lhs, ru>>]
        BY <2>1, <2>4, <3>1, <3>4
      <4>2. j2 \in 0..N /\ 1 + s.lhs.size + j2 = j
        BY <3>1, <3>4
      <4> HIDE DEF j2
      <4>3. Map!HoldsFirst(V, entries, s.rhs, j2, ru)
        BY <3>2, <4>2
      <4> HIDE DEF u, ru
      <4> DEFINE B == entries[ru]
                 C == entries[s.lhs] \cup {<<s.key, s.value>>} \cup B
      <4>4. /\ ru \in V /\ ru.size = (IF j2 < s.rhs.size THEN j2 ELSE s.rhs.size)
            /\ B \subseteq entries[s.rhs] /\ Map!Precede(B, entries[s.rhs] \ B)
        BY <4>3 DEF Map!HoldsFirst
      <4>5. Map!Below(entries[s.lhs], s.key) /\ Map!Above(B, s.key)
        BY <2>4, <4>4, NodePrecedes
      <4>6. Map!Holds(V, entries, u, 1 + s.lhs.size + ru.size, C)
        BY <2>4, <3>1, <4>1, <4>4, <4>5, LinkedFacts
      <4>7. Map!Precede(C, entries[s] \ C)
        <5>1. B \subseteq entries[s.rhs] /\ Map!Precede(B, entries[s.rhs] \ B)
          BY <4>4
        <5> HIDE DEF B
        <5> QED BY <2>4, <5>1, CutParts
      <4>8. C \subseteq entries[s]
        BY <3>1, <4>4
      <4>9. 1 + s.lhs.size + ru.size = IF j < s.size THEN j ELSE s.size
        BY <3>1, <4>2, <4>4
      <4> HIDE DEF C
      <4>10. Map!HoldsFirst(V, entries, s, j, u)
        BY <4>6, <4>7, <4>8, <4>9 DEF Map!HoldsFirst, Map!Holds
      <4> QED BY <4>10 DEF u
    <3>5. CASE j = s.lhs.size
      <4>1. u = s.lhs
        BY <2>1, <2>4, <3>1, <3>5
      <4> HIDE DEF u
      <4>2. Map!Precede(entries[s.lhs], entries[s] \ entries[s.lhs])
        BY <2>4, CutParts
      <4>3. Map!HoldsFirst(V, entries, s, j, u)
        BY <3>1, <3>5, <4>1, <4>2 DEF Map!HoldsFirst
      <4> QED BY <4>3 DEF u
    <3> QED BY <3>1, <3>3, <3>4, <3>5
  <2> QED BY <2>3, <2>4
<1>2. V \subseteq S
  <2> HIDE DEF S
  <2> QED BY <1>1, TreeInduction
<1> QED BY <1>2

(* drop returns a valid tree of all the entries that take leaves out.      *)
THEOREM DropHoldsRest ==
    ASSUME NEW K, NEW V, NEW X, NEW entries, NEW op, Map!SearchTrees(K, V, X, entries),
           Map!Balancing(K, V, X, op), NEW N \in Nat, Map!OnPlaces(K, V, N, op),
           NEW t \in V, NEW i \in 0..N
    PROVE  Map!Holds(V, entries, op.drop[<<t, i>>], IF i < t.size THEN t.size - i ELSE 0,
                      entries[t] \ entries[op.take[<<t, i>>]])
<1> DEFINE P(s, j, u, f) == Map!Holds(V, entries, u, IF j < s.size THEN s.size - j ELSE 0,
                                       entries[s] \ entries[f])
           S == {s \in V : \A j \in 0..N : P(s, j, op.drop[<<s, j>>], op.take[<<s, j>>])}
<1>1. ASSUME NEW s \in V, \A y \in V : y.size < s.size => y \in S
      PROVE  s \in S
  <2> SUFFICES ASSUME NEW j \in 0..N
               PROVE  P(s, j, op.drop[<<s, j>>], op.take[<<s, j>>])
    OBVIOUS
  <2> DEFINE j2 == j - s.lhs.size - 1
             u == op.drop[<<s, j>>]
             lu == op.drop[<<s.lhs, j>>]
             ru == op.drop[<<s.rhs, j2>>]
             f == op.take[<<s, j>>]
             lf == op.take[<<s.lhs, j>>]
             rf == op.take[<<s.rhs, j2>>]
  <2>1. /\ u = IF j = 0 THEN s
               ELSE IF Map!IsEmpty(s) THEN Map!Empty
               ELSE IF j < s.lhs.size THEN op.link[<<s.key, s.value, lu, s.rhs>>]
               ELSE IF j > s.lhs.size THEN ru
               ELSE op.insertMin[<<s.key, s.value, s.rhs>>]
        /\ f = IF j = 0 \/ Map!IsEmpty(s) THEN Map!Empty
               ELSE IF j < s.lhs.size THEN lf
               ELSE IF j > s.lhs.size THEN op.link[<<s.key, s.value, s.lhs, rf>>]
               ELSE s.lhs
    BY DEF Map!OnPlaces, Map!TakeStep, Map!DropStep
  <2>2. entries[Map!Empty] = {} /\ Map!Empty \in V /\ Map!Empty.size = 0
    BY EmptyFields DEF Map!SearchTrees
  <2>3. CASE j = 0 \/ s = Map!Empty
    <3>1. f = Map!Empty /\ u = s
      BY <2>1, <2>3, Parts
    <3>2. s.size \in Nat /\ (s = Map!Empty => s.size = 0)
      BY <2>2, Parts
    <3>3. s.size = IF j < s.size THEN s.size - j ELSE 0
      BY <2>3, <3>2
    <3> HIDE DEF u, f
    <3>4. P(s, j, u, f)
      BY <2>2, <3>1, <3>3 DEF Map!Holds
    <3> QED BY <3>4 DEF u, f
  <2>4. CASE j # 0 /\ s # Map!Empty
    <3>1. /\ ~ Map!IsEmpty(s) /\ s.lhs \in V /\ s.rhs \in V /\ s.key \in K /\ s.value \in X
          /\ s.lhs.size \in Nat /\ s.rhs.size \in Nat
          /\ s.size = 1 + s.lhs.size + s.rhs.size
          /\ Map!Above(entries[s.rhs], s.key)
          /\ entries[s] = entries[s.lhs] \cup {<<s.key, s.value>>} \cup entries[s.rhs]
      BY <2>4, Parts
    <3>2. s.lhs \in S /\ s.rhs \in S
      <4> HIDE DEF S
      <4> QED BY <1>1, <3>1
    <3>3. /\ <<s.key, s.value>> \notin entries[s.lhs] /\ <<s.key, s.value>> \notin entries[s.rhs]
          /\ entries[s.lhs] \cap entries[s.rhs] = {}
      BY <2>4, NodeOrder
    <3>4. CASE j < s.lhs.size
      <4>1. u = op.link[<<s.key, s.value, lu, s.rhs>>] /\ f = lf
        BY <2>1, <2>4, <3>1, <3>4
      <4>2. P(s.lhs, j, lu, lf)
        BY <3>2
      <4>3. Map!HoldsFirst(V, entries, s.lhs, j, lf)
        BY <3>1, TakeHoldsFirst
      <4> HIDE DEF u, lu, f, lf
      <4>4. /\ lu \in V /\ lu.size = s.lhs.size - j
            /\ entries[lu] = entries[s.lhs] \ entries[lf]
        BY <3>4, <4>2 DEF Map!Holds
      <4>5. entries[lf] \subseteq entries[s.lhs]
        BY <4>3 DEF Map!HoldsFirst
      <4>6. entries[lu] \subseteq entries[s.lhs]
        BY <4>4
      <4>7. Map!Below(entries[lu], s.key)
        BY <2>4, <4>6, NodePrecedes
      <4>8. Map!Holds(V, entries, u, 1 + lu.size + s.rhs.size,
                       entries[lu] \cup {<<s.key, s.value>>} \cup entries[s.rhs])
        BY <2>4, <3>1, <4>1, <4>4, <4>7, LinkedFacts
      <4>9. entries[s] \ entries[lf] =
              (entries[s.lhs] \ entries[lf]) \cup {<<s.key, s.value>>} \cup entries[s.rhs]
        BY <4>5, <3>1, <3>3
      <4>10. 1 + lu.size + s.rhs.size = IF j < s.size THEN s.size - j ELSE 0
        BY <3>1, <3>4, <4>4
      <4>11. P(s, j, u, f)
        BY <4>1, <4>4, <4>8, <4>9, <4>10
      <4> QED BY <4>11 DEF u, f
    <3>5. CASE j > s.lhs.size
      <4>1. u = ru /\ f = op.link[<<s.key, s.value, s.lhs, rf>>]
        BY <2>1, <2>4, <3>1, <3>5
      <4>2. j2 \in 0..N /\ 1 + s.lhs.size + j2 = j
        BY <3>1, <3>5
      <4> HIDE DEF j2
      <4>3. P(s.rhs, j2, ru, rf)
        BY <3>2, <4>2
      <4>4. Map!HoldsFirst(V, entries, s.rhs, j2, rf)
        BY <3>1, <4>2, TakeHoldsFirst
      <4> HIDE DEF u, ru, f, rf
      <4>5. rf \in V /\ entries[rf] \subseteq entries[s.rhs]
        BY <4>4 DEF Map!HoldsFirst
      <4>6. Map!Below(entries[s.lhs], s.key) /\ Map!Above(entries[rf], s.key)
        BY <2>4, <4>5, NodePrecedes
      <4>7. entries[f] = entries[s.lhs] \cup {<<s.key, s.value>>} \cup entries[rf]
        BY <2>4, <3>1, <4>1, <4>5, <4>6, LinkedFacts DEF Map!Holds
      <4>8. entries[s] \ entries[f] = entries[s.rhs] \ entries[rf]
        <5>1. entries[s] \ (entries[s.lhs] \cup {<<s.key, s.value>>} \cup entries[rf])
                = entries[s.rhs] \ entries[rf]
          BY <4>5, <3>1, <3>3
        <5> QED BY <4>7, <5>1
      <4>9. (IF j2 < s.rhs.size THEN s.rhs.size - j2 ELSE 0) = IF j < s.size THEN s.size - j ELSE 0
        BY <3>1, <4>2
      <4>10. P(s, j, u, f)
        BY <4>1, <4>3, <4>8, <4>9
      <4> QED BY <4>10 DEF u, f
    <3>6. CASE j = s.lhs.size
      <4>1. u = op.insertMin[<<s.key, s.value, s.rhs>>] /\ f = s.lhs
        BY <2>1, <2>4, <3>1, <3>6
      <4> HIDE DEF u, f
      <4>2. Map!Holds(V, entries, u, s.rhs.size + 1, entries[s.rhs] \cup {<<s.key, s.value>>})
        BY <3>1, <4>1, InsertMinFacts
      <4>3. entries[s] \ entries[s.lhs] = {<<s.key, s.value>>} \cup entries[s.rhs]
        BY <3>1, <3>3
      <4>4. s.rhs.size + 1 = IF j < s.size THEN s.size - j ELSE 0
        BY <3>1, <3>6
      <4>5. entries[s] \ entries[f] = entries[s.rhs] \cup {<<s.key, s.value>>}
        BY <4>1, <4>3
      <4>6. P(s, j, u, f)
        BY <4>2, <4>4, <4>5
      <4> QED BY <4>6 DEF u, f
    <3> QED BY <3>1, <3>4, <3>5, <3>6
  <2> QED BY <2>3, <2>4
<1>2. V \subseteq S
  <2> HIDE DEF S
  <2> QED BY <1>1, TreeInduction
<1> QED BY <1>2

(* splitAt returns what take and drop do.                                  *)
THEOREM SplitAtTakesAndDrops ==
    ASSUME NEW K, NEW V, NEW X, NEW entries, NEW op, Map!SearchTrees(K, V, X, entries),
           NEW N \in Nat, Map!OnPlaces(K, V, N, op), NEW t \in V, NEW i \in 0..N
    PROVE  op.splitAt[<<t, i>>] = <<op.take[<<t, i>>], op.drop[<<t, i>>]>>
<1> DEFINE P(s, j) == op.splitAt[<<s, j>>] = <<op.take[<<s, j>>], op.drop[<<s, j>>]>>
           S == {s \in V : \A j \in 0..N : P(s, j)}
<1>1. ASSUME NEW s \in V, \A y \in V : y.size < s.size => y \in S
      PROVE  s \in S
  <2> SUFFICES ASSUME NEW j \in 0..N
               PROVE  P(s, j)
    OBVIOUS
  <2> DEFINE j2 == j - s.lhs.size - 1
             p == op.splitAt[<<s, j>>]
             lp == op.splitAt[<<s.lhs, j>>]
             rp == op.splitAt[<<s.rhs, j2>>]
             f == op.take[<<s, j>>]
             lf == op.take[<<s.lhs, j>>]
             rf == op.take[<<s.rhs, j2>>]
             u == op.drop[<<s, j>>]
             lu == op.drop[<<s.lhs, j>>]
             ru == op.drop[<<s.rhs, j2>>]
  <2>1. p = IF j = 0 THEN <<Map!Empty, s>>
            ELSE IF Map!IsEmpty(s) THEN <<Map!Empty, Map!Empty>>
            ELSE IF j < s.lhs.size THEN <<lp[1], op.link[<<s.key, s.value, lp[2], s.rhs>>]>>
            ELSE IF j > s.lhs.size THEN <<op.link[<<s.key, s.value, s.lhs, rp[1]>>], rp[2]>>
            ELSE <<s.lhs, op.insertMin[<<s.key, s.value, s.rhs>>]>>
    BY DEF Map!OnPlaces, Map!SplitAtStep
  <2>2. u = IF j = 0 THEN s
            ELSE IF Map!IsEmpty(s) THEN Map!Empty
            ELSE IF j < s.lhs.size THEN op.link[<<s.key, s.value, lu, s.rhs>>]
            ELSE IF j > s.lhs.size THEN ru
            ELSE op.insertMin[<<s.key, s.value, s.rhs>>]
    BY DEF Map!OnPlaces, Map!DropStep
  <2>3. f = IF j = 0 \/ Map!IsEmpty(s) THEN Map!Empty
            ELSE IF j < s.lhs.size THEN lf
            ELSE IF j > s.lhs.size THEN op.link[<<s.key, s.value, s.lhs, rf>>]
            ELSE s.lhs
    BY DEF Map!OnPlaces, Map!TakeStep
  <2>4. ~ Map!IsEmpty(s) =>
          /\ s.lhs \in V /\ s.rhs \in V /\ s.lhs.size \in Nat /\ s.rhs.size \in Nat
          /\ s.size = 1 + s.lhs.size + s.rhs.size
    BY Parts
  <2>5. ~ Map!IsEmpty(s) => s.lhs \in S /\ s.rhs \in S
    <3> HIDE DEF S
    <3> QED BY <1>1, <2>4
  <2>6. ~ Map!IsEmpty(s) => lp = <<lf, lu>>
    BY <2>5
  <2>7. ~ Map!IsEmpty(s) /\ j > s.lhs.size => rp = <<rf, ru>>
    <3>1. ~ Map!IsEmpty(s) /\ j > s.lhs.size => j2 \in 0..N
      BY <2>4
    <3> HIDE DEF j2
    <3> QED BY <2>5, <3>1
  <2> HIDE DEF p, lp, rp, f, lf, rf, u, lu, ru
  <2>8. p = <<f, u>>
    BY <2>1, <2>2, <2>3, <2>6, <2>7
  <2> QED BY <2>8 DEF p, f, u
<1>2. V \subseteq S
  <2> HIDE DEF S
  <2> QED BY <1>1, TreeInduction
<1> QED BY <1>2

-----------------------------------------------------------------------------
(* The keys next to one.                                                   *)

(* The greatest of the keys on the left, of the node and of some on the    *)
(* right, when best is that of the node...                                 *)
LEMMA GreatestParts ==
    ASSUME NEW K, NEW V, NEW X, NEW entries, Map!SearchTrees(K, V, X, entries),
           NEW t \in V, t # Map!Empty, NEW B, B \subseteq entries[t.rhs], NEW o, NEW best,
           Map!Greatest(B, o, Map!Some(t.key))
    PROVE  Map!Greatest(entries[t.lhs] \cup {<<t.key, t.value>>} \cup B, o, best)
<1> DEFINE L == entries[t.lhs]
           n == <<t.key, t.value>>
<1>1. t.lhs \in V /\ t.rhs \in V /\ t.key \in K
  BY Parts
<1>2. n[1] = t.key /\ t.key \in Nat
  BY <1>1 DEF Map!SearchTrees
<1>3. /\ \A e \in L : e[1] \in Nat /\ e[1] < t.key
      /\ \A e \in B : e[1] \in Nat /\ t.key < e[1]
  BY <1>1, EntriesType, Sides
<1> HIDE DEF L, n
<1>4. CASE B = {} /\ o = Map!Some(t.key)
  <2>1. \A f \in L \cup {n} \cup B : f[1] <= n[1]
    BY <1>2, <1>3, <1>4
  <2> QED BY <1>2, <1>4, <2>1 DEF Map!Greatest, L, n
<1>5. CASE \E e \in B : o = Map!Some(e[1]) /\ \A f \in B : f[1] <= e[1]
  <2>1. PICK e \in B : o = Map!Some(e[1]) /\ \A f \in B : f[1] <= e[1]
    BY <1>5
  <2>2. \A f \in L \cup {n} \cup B : f[1] <= e[1]
    BY <1>2, <1>3, <2>1
  <2> QED BY <2>1, <2>2 DEF Map!Greatest, L, n
<1> QED BY <1>4, <1>5 DEF Map!Greatest

(* ... and the least.                                                      *)
LEMMA LeastParts ==
    ASSUME NEW K, NEW V, NEW X, NEW entries, Map!SearchTrees(K, V, X, entries),
           NEW t \in V, t # Map!Empty, NEW A, A \subseteq entries[t.lhs], NEW o, NEW best,
           Map!Least(A, o, Map!Some(t.key))
    PROVE  Map!Least(A \cup {<<t.key, t.value>>} \cup entries[t.rhs], o, best)
<1> DEFINE R == entries[t.rhs]
           n == <<t.key, t.value>>
<1>1. t.lhs \in V /\ t.rhs \in V /\ t.key \in K
  BY Parts
<1>2. n[1] = t.key /\ t.key \in Nat
  BY <1>1 DEF Map!SearchTrees
<1>3. /\ \A e \in A : e[1] \in Nat /\ e[1] < t.key
      /\ \A e \in R : e[1] \in Nat /\ t.key < e[1]
  BY <1>1, EntriesType, Sides
<1> HIDE DEF R, n
<1>4. CASE A = {} /\ o = Map!Some(t.key)
  <2>1. \A f \in A \cup {n} \cup R : n[1] <= f[1]
    BY <1>2, <1>3, <1>4
  <2> QED BY <1>2, <1>4, <2>1 DEF Map!Least, R, n
<1>5. CASE \E e \in A : o = Map!Some(e[1]) /\ \A f \in A : e[1] <= f[1]
  <2>1. PICK e \in A : o = Map!Some(e[1]) /\ \A f \in A : e[1] <= f[1]
    BY <1>5
  <2>2. \A f \in A \cup {n} \cup R : e[1] <= f[1]
    BY <1>2, <1>3, <2>1
  <2> QED BY <2>1, <2>2 DEF Map!Least, R, n
<1> QED BY <1>4, <1>5 DEF Map!Least

(* The entries up to a key, and from it on.                                *)
LEMMA UpToParts ==
    ASSUME NEW K, NEW V, NEW X, NEW entries, Map!SearchTrees(K, V, X, entries),
           NEW t \in V, t # Map!Empty, NEW k \in K
    PROVE  LET E == entries[t]
               L == entries[t.lhs]
               R == entries[t.rhs]
               n == <<t.key, t.value>>
           IN  /\ k < t.key => /\ Map!UpTo(E, k) = Map!UpTo(L, k)
                               /\ Map!From(E, k) = Map!From(L, k) \cup {n} \cup R
               /\ t.key < k => /\ Map!UpTo(E, k) = L \cup {n} \cup Map!UpTo(R, k)
                               /\ Map!From(E, k) = Map!From(R, k)
               /\ k = t.key => Map!UpTo(E, k) = L \cup {n} /\ Map!From(E, k) = {n} \cup R
<1> DEFINE E == entries[t]
           L == entries[t.lhs]
           R == entries[t.rhs]
           n == <<t.key, t.value>>
<1>1. E = L \cup {n} \cup R /\ t.lhs \in V /\ t.rhs \in V /\ t.key \in K
  BY Parts
<1>2. n[1] = t.key /\ t.key \in Nat /\ k \in Nat
  BY <1>1 DEF Map!SearchTrees
<1>3. /\ \A e \in L : e[1] \in Nat /\ e[1] < t.key
      /\ \A e \in R : e[1] \in Nat /\ t.key < e[1]
  BY <1>1, EntriesType, Sides
<1> HIDE DEF E, L, R, n
<1>4. ASSUME k < t.key
      PROVE  Map!UpTo(E, k) = Map!UpTo(L, k) /\ Map!From(E, k) = Map!From(L, k) \cup {n} \cup R
  BY <1>1, <1>2, <1>3, <1>4 DEF Map!UpTo, Map!From
<1>5. ASSUME t.key < k
      PROVE  Map!UpTo(E, k) = L \cup {n} \cup Map!UpTo(R, k) /\ Map!From(E, k) = Map!From(R, k)
  BY <1>1, <1>2, <1>3, <1>5 DEF Map!UpTo, Map!From
<1>6. ASSUME k = t.key
      PROVE  Map!UpTo(E, k) = L \cup {n} /\ Map!From(E, k) = {n} \cup R
  BY <1>1, <1>2, <1>3, <1>6 DEF Map!UpTo, Map!From
<1> QED BY <1>4, <1>5, <1>6 DEF E, L, R, n

(* lookupLT returns the greatest key below the given one, or best if there *)
(* is none.                                                                *)
THEOREM LookupLTFinds ==
    ASSUME NEW K, NEW V, NEW X, NEW entries, NEW op, Map!SearchTrees(K, V, X, entries),
           Map!OnNeighbours(K, V, op), NEW t \in V, NEW k \in K,
           NEW best \in {Map!None} \cup {Map!Some(j) : j \in K}
    PROVE  Map!Greatest(Map!Under(entries[t], k), op.lookupLT[<<t, k, best>>], best)
<1> DEFINE O == {Map!None} \cup {Map!Some(j) : j \in K}
           P(s, b, o) == Map!Greatest(Map!Under(entries[s], k), o, b)
           S == {s \in V : \A b \in O : P(s, b, op.lookupLT[<<s, k, b>>])}
<1>1. ASSUME NEW s \in V, \A y \in V : y.size < s.size => y \in S
      PROVE  s \in S
  <2> SUFFICES ASSUME NEW b \in O
               PROVE  P(s, b, op.lookupLT[<<s, k, b>>])
    OBVIOUS
  <2> DEFINE o == op.lookupLT[<<s, k, b>>]
             lo(c) == op.lookupLT[<<s.lhs, k, c>>]
             ro(c) == op.lookupLT[<<s.rhs, k, c>>]
  <2>1. o = IF Map!IsEmpty(s) THEN b
            ELSE IF k <= s.key THEN lo(b) ELSE ro(Map!Some(s.key))
    BY DEF Map!OnNeighbours, Map!LookupLTStep
  <2>2. CASE s = Map!Empty
    <3>1. entries[s] = {} /\ Map!IsEmpty(s)
      BY <2>2, EmptyFields DEF Map!SearchTrees, Map!IsEmpty
    <3>2. Map!Under(entries[s], k) = {}
      BY <3>1 DEF Map!Under
    <3> QED BY <2>1, <3>1, <3>2 DEF Map!Greatest
  <2>3. CASE s # Map!Empty
    <3>1. /\ ~ Map!IsEmpty(s) /\ s.lhs \in V /\ s.rhs \in V /\ s.key \in K
          /\ s.lhs.size \in Nat /\ s.rhs.size \in Nat
          /\ s.size = 1 + s.lhs.size + s.rhs.size
      BY <2>3, Parts
    <3>2. \A c \in O : P(s.lhs, c, lo(c)) /\ P(s.rhs, c, ro(c))
      <4>1. s.lhs \in S /\ s.rhs \in S
        <5> HIDE DEF S
        <5> QED BY <1>1, <3>1
      <4> QED BY <4>1
    <3>3. Map!Some(s.key) \in O
      BY <3>1
    <3>4. k \in Nat /\ s.key \in Nat
      BY <3>1 DEF Map!SearchTrees
    <3> HIDE DEF O
    <3>5. CASE k < s.key
      <4>1. o = lo(b)
        BY <2>1, <3>1, <3>4, <3>5
      <4>2. P(s.lhs, b, lo(b))
        BY <3>2
      <4> HIDE DEF o, lo, ro
      <4>3. Map!Under(entries[s], k) = Map!Under(entries[s.lhs], k)
        BY <2>3, <3>5, SplitParts
      <4>4. P(s, b, o)
        BY <4>1, <4>2, <4>3
      <4> QED BY <4>4 DEF o
    <3>6. CASE s.key < k
      <4>1. o = ro(Map!Some(s.key))
        BY <2>1, <3>1, <3>4, <3>6
      <4>2. P(s.rhs, Map!Some(s.key), ro(Map!Some(s.key)))
        BY <3>2, <3>3
      <4> HIDE DEF o, lo, ro
      <4>3. Map!Under(entries[s], k) = entries[s.lhs] \cup {<<s.key, s.value>>} \cup Map!Under(entries[s.rhs], k)
        BY <2>3, <3>6, SplitParts
      <4>4. Map!Under(entries[s.rhs], k) \subseteq entries[s.rhs]
        BY DEF Map!Under
      <4>5. Map!Greatest(entries[s.lhs] \cup {<<s.key, s.value>>} \cup Map!Under(entries[s.rhs], k), o, b)
        BY <2>3, <4>1, <4>2, <4>4, GreatestParts
      <4>6. P(s, b, o)
        BY <4>3, <4>5
      <4> QED BY <4>6 DEF o
    <3>7. CASE k = s.key
      <4>1. o = lo(b)
        BY <2>1, <3>1, <3>4, <3>7
      <4>2. P(s.lhs, b, lo(b))
        BY <3>2
      <4> HIDE DEF o, lo, ro
      <4>3. Map!Under(entries[s], k) = Map!Under(entries[s.lhs], k)
        <5>1. Map!Under(entries[s], k) = entries[s.lhs]
          BY <2>3, <3>7, SplitParts
        <5>2. \A e \in entries[s.lhs] : e[1] < k
          BY <2>3, <3>7, Sides
        <5> QED BY <5>1, <5>2 DEF Map!Under
      <4>4. P(s, b, o)
        BY <4>1, <4>2, <4>3
      <4> QED BY <4>4 DEF o
    <3> QED BY <3>4, <3>5, <3>6, <3>7
  <2> QED BY <2>2, <2>3
<1>2. V \subseteq S
  <2> HIDE DEF S
  <2> QED BY <1>1, TreeInduction
<1> QED BY <1>2

(* lookupGT returns the least key above the given one.                     *)
THEOREM LookupGTFinds ==
    ASSUME NEW K, NEW V, NEW X, NEW entries, NEW op, Map!SearchTrees(K, V, X, entries),
           Map!OnNeighbours(K, V, op), NEW t \in V, NEW k \in K,
           NEW best \in {Map!None} \cup {Map!Some(j) : j \in K}
    PROVE  Map!Least(Map!Over(entries[t], k), op.lookupGT[<<t, k, best>>], best)
<1> DEFINE O == {Map!None} \cup {Map!Some(j) : j \in K}
           P(s, b, o) == Map!Least(Map!Over(entries[s], k), o, b)
           S == {s \in V : \A b \in O : P(s, b, op.lookupGT[<<s, k, b>>])}
<1>1. ASSUME NEW s \in V, \A y \in V : y.size < s.size => y \in S
      PROVE  s \in S
  <2> SUFFICES ASSUME NEW b \in O
               PROVE  P(s, b, op.lookupGT[<<s, k, b>>])
    OBVIOUS
  <2> DEFINE o == op.lookupGT[<<s, k, b>>]
             lo(c) == op.lookupGT[<<s.lhs, k, c>>]
             ro(c) == op.lookupGT[<<s.rhs, k, c>>]
  <2>1. o = IF Map!IsEmpty(s) THEN b
            ELSE IF k < s.key THEN lo(Map!Some(s.key)) ELSE ro(b)
    BY DEF Map!OnNeighbours, Map!LookupGTStep
  <2>2. CASE s = Map!Empty
    <3>1. entries[s] = {} /\ Map!IsEmpty(s)
      BY <2>2, EmptyFields DEF Map!SearchTrees, Map!IsEmpty
    <3>2. Map!Over(entries[s], k) = {}
      BY <3>1 DEF Map!Over
    <3> QED BY <2>1, <3>1, <3>2 DEF Map!Least
  <2>3. CASE s # Map!Empty
    <3>1. /\ ~ Map!IsEmpty(s) /\ s.lhs \in V /\ s.rhs \in V /\ s.key \in K
          /\ s.lhs.size \in Nat /\ s.rhs.size \in Nat
          /\ s.size = 1 + s.lhs.size + s.rhs.size
      BY <2>3, Parts
    <3>2. \A c \in O : P(s.lhs, c, lo(c)) /\ P(s.rhs, c, ro(c))
      <4>1. s.lhs \in S /\ s.rhs \in S
        <5> HIDE DEF S
        <5> QED BY <1>1, <3>1
      <4> QED BY <4>1
    <3>3. Map!Some(s.key) \in O
      BY <3>1
    <3>4. k \in Nat /\ s.key \in Nat
      BY <3>1 DEF Map!SearchTrees
    <3> HIDE DEF O
    <3>5. CASE s.key < k
      <4>1. o = ro(b)
        BY <2>1, <3>1, <3>4, <3>5
      <4>2. P(s.rhs, b, ro(b))
        BY <3>2
      <4> HIDE DEF o, lo, ro
      <4>3. Map!Over(entries[s], k) = Map!Over(entries[s.rhs], k)
        BY <2>3, <3>5, SplitParts
      <4>4. P(s, b, o)
        BY <4>1, <4>2, <4>3
      <4> QED BY <4>4 DEF o
    <3>6. CASE k < s.key
      <4>1. o = lo(Map!Some(s.key))
        BY <2>1, <3>1, <3>4, <3>6
      <4>2. P(s.lhs, Map!Some(s.key), lo(Map!Some(s.key)))
        BY <3>2, <3>3
      <4> HIDE DEF o, lo, ro
      <4>3. Map!Over(entries[s], k) = Map!Over(entries[s.lhs], k) \cup {<<s.key, s.value>>} \cup entries[s.rhs]
        BY <2>3, <3>6, SplitParts
      <4>4. Map!Over(entries[s.lhs], k) \subseteq entries[s.lhs]
        BY DEF Map!Over
      <4>5. Map!Least(Map!Over(entries[s.lhs], k) \cup {<<s.key, s.value>>} \cup entries[s.rhs], o, b)
        BY <2>3, <4>1, <4>2, <4>4, LeastParts
      <4>6. P(s, b, o)
        BY <4>3, <4>5
      <4> QED BY <4>6 DEF o
    <3>7. CASE k = s.key
      <4>1. o = ro(b)
        BY <2>1, <3>1, <3>4, <3>7
      <4>2. P(s.rhs, b, ro(b))
        BY <3>2
      <4> HIDE DEF o, lo, ro
      <4>3. Map!Over(entries[s], k) = Map!Over(entries[s.rhs], k)
        <5>1. Map!Over(entries[s], k) = entries[s.rhs]
          BY <2>3, <3>7, SplitParts
        <5>2. \A e \in entries[s.rhs] : k < e[1]
          BY <2>3, <3>7, Sides
        <5> QED BY <5>1, <5>2 DEF Map!Over
      <4>4. P(s, b, o)
        BY <4>1, <4>2, <4>3
      <4> QED BY <4>4 DEF o
    <3> QED BY <3>4, <3>5, <3>6, <3>7
  <2> QED BY <2>2, <2>3
<1>2. V \subseteq S
  <2> HIDE DEF S
  <2> QED BY <1>1, TreeInduction
<1> QED BY <1>2

(* lookupLE returns the greatest key that is not above the given one.      *)
THEOREM LookupLEFinds ==
    ASSUME NEW K, NEW V, NEW X, NEW entries, NEW op, Map!SearchTrees(K, V, X, entries),
           Map!OnNeighbours(K, V, op), NEW t \in V, NEW k \in K,
           NEW best \in {Map!None} \cup {Map!Some(j) : j \in K}
    PROVE  Map!Greatest(Map!UpTo(entries[t], k), op.lookupLE[<<t, k, best>>], best)
<1> DEFINE O == {Map!None} \cup {Map!Some(j) : j \in K}
           P(s, b, o) == Map!Greatest(Map!UpTo(entries[s], k), o, b)
           S == {s \in V : \A b \in O : P(s, b, op.lookupLE[<<s, k, b>>])}
<1>1. ASSUME NEW s \in V, \A y \in V : y.size < s.size => y \in S
      PROVE  s \in S
  <2> SUFFICES ASSUME NEW b \in O
               PROVE  P(s, b, op.lookupLE[<<s, k, b>>])
    OBVIOUS
  <2> DEFINE o == op.lookupLE[<<s, k, b>>]
             lo(c) == op.lookupLE[<<s.lhs, k, c>>]
             ro(c) == op.lookupLE[<<s.rhs, k, c>>]
  <2>1. o = IF Map!IsEmpty(s) THEN b
            ELSE IF k < s.key THEN lo(b)
            ELSE IF k = s.key THEN Map!Some(s.key)
            ELSE ro(Map!Some(s.key))
    BY DEF Map!OnNeighbours, Map!LookupLEStep
  <2>2. CASE s = Map!Empty
    <3>1. entries[s] = {} /\ Map!IsEmpty(s)
      BY <2>2, EmptyFields DEF Map!SearchTrees, Map!IsEmpty
    <3>2. Map!UpTo(entries[s], k) = {}
      BY <3>1 DEF Map!UpTo
    <3> QED BY <2>1, <3>1, <3>2 DEF Map!Greatest
  <2>3. CASE s # Map!Empty
    <3>1. /\ ~ Map!IsEmpty(s) /\ s.lhs \in V /\ s.rhs \in V /\ s.key \in K
          /\ s.lhs.size \in Nat /\ s.rhs.size \in Nat
          /\ s.size = 1 + s.lhs.size + s.rhs.size
      BY <2>3, Parts
    <3>2. \A c \in O : P(s.lhs, c, lo(c)) /\ P(s.rhs, c, ro(c))
      <4>1. s.lhs \in S /\ s.rhs \in S
        <5> HIDE DEF S
        <5> QED BY <1>1, <3>1
      <4> QED BY <4>1
    <3>3. Map!Some(s.key) \in O
      BY <3>1
    <3>4. k \in Nat /\ s.key \in Nat
      BY <3>1 DEF Map!SearchTrees
    <3> HIDE DEF O
    <3>5. CASE k < s.key
      <4>1. o = lo(b)
        BY <2>1, <3>1, <3>4, <3>5
      <4>2. P(s.lhs, b, lo(b))
        BY <3>2
      <4> HIDE DEF o, lo, ro
      <4>3. Map!UpTo(entries[s], k) = Map!UpTo(entries[s.lhs], k)
        BY <2>3, <3>5, UpToParts
      <4>4. P(s, b, o)
        BY <4>1, <4>2, <4>3
      <4> QED BY <4>4 DEF o
    <3>6. CASE s.key < k
      <4>1. o = ro(Map!Some(s.key))
        BY <2>1, <3>1, <3>4, <3>6
      <4>2. P(s.rhs, Map!Some(s.key), ro(Map!Some(s.key)))
        BY <3>2, <3>3
      <4> HIDE DEF o, lo, ro
      <4>3. Map!UpTo(entries[s], k) = entries[s.lhs] \cup {<<s.key, s.value>>} \cup Map!UpTo(entries[s.rhs], k)
        BY <2>3, <3>6, UpToParts
      <4>4. Map!UpTo(entries[s.rhs], k) \subseteq entries[s.rhs]
        BY DEF Map!UpTo
      <4>5. Map!Greatest(entries[s.lhs] \cup {<<s.key, s.value>>} \cup Map!UpTo(entries[s.rhs], k), o, b)
        BY <2>3, <4>1, <4>2, <4>4, GreatestParts
      <4>6. P(s, b, o)
        BY <4>3, <4>5
      <4> QED BY <4>6 DEF o
    <3>7. CASE k = s.key
      <4>1. o = Map!Some(s.key)
        BY <2>1, <3>1, <3>4, <3>7
      <4> HIDE DEF o
      <4>2. Map!UpTo(entries[s], k) = entries[s.lhs] \cup {<<s.key, s.value>>} \cup {}
        BY <2>3, <3>7, UpToParts
      <4>3. Map!Greatest({}, o, Map!Some(s.key))
        BY <4>1 DEF Map!Greatest
      <4>4. Map!Greatest(entries[s.lhs] \cup {<<s.key, s.value>>} \cup {}, o, b)
        BY <2>3, <4>3, GreatestParts
      <4>5. P(s, b, o)
        BY <4>2, <4>4
      <4> QED BY <4>5 DEF o
    <3> QED BY <3>4, <3>5, <3>6, <3>7
  <2> QED BY <2>2, <2>3
<1>2. V \subseteq S
  <2> HIDE DEF S
  <2> QED BY <1>1, TreeInduction
<1> QED BY <1>2

(* lookupGE returns the least key that is not below the given one.         *)
THEOREM LookupGEFinds ==
    ASSUME NEW K, NEW V, NEW X, NEW entries, NEW op, Map!SearchTrees(K, V, X, entries),
           Map!OnNeighbours(K, V, op), NEW t \in V, NEW k \in K,
           NEW best \in {Map!None} \cup {Map!Some(j) : j \in K}
    PROVE  Map!Least(Map!From(entries[t], k), op.lookupGE[<<t, k, best>>], best)
<1> DEFINE O == {Map!None} \cup {Map!Some(j) : j \in K}
           P(s, b, o) == Map!Least(Map!From(entries[s], k), o, b)
           S == {s \in V : \A b \in O : P(s, b, op.lookupGE[<<s, k, b>>])}
<1>1. ASSUME NEW s \in V, \A y \in V : y.size < s.size => y \in S
      PROVE  s \in S
  <2> SUFFICES ASSUME NEW b \in O
               PROVE  P(s, b, op.lookupGE[<<s, k, b>>])
    OBVIOUS
  <2> DEFINE o == op.lookupGE[<<s, k, b>>]
             lo(c) == op.lookupGE[<<s.lhs, k, c>>]
             ro(c) == op.lookupGE[<<s.rhs, k, c>>]
  <2>1. o = IF Map!IsEmpty(s) THEN b
            ELSE IF k < s.key THEN lo(Map!Some(s.key))
            ELSE IF k = s.key THEN Map!Some(s.key)
            ELSE ro(b)
    BY DEF Map!OnNeighbours, Map!LookupGEStep
  <2>2. CASE s = Map!Empty
    <3>1. entries[s] = {} /\ Map!IsEmpty(s)
      BY <2>2, EmptyFields DEF Map!SearchTrees, Map!IsEmpty
    <3>2. Map!From(entries[s], k) = {}
      BY <3>1 DEF Map!From
    <3> QED BY <2>1, <3>1, <3>2 DEF Map!Least
  <2>3. CASE s # Map!Empty
    <3>1. /\ ~ Map!IsEmpty(s) /\ s.lhs \in V /\ s.rhs \in V /\ s.key \in K
          /\ s.lhs.size \in Nat /\ s.rhs.size \in Nat
          /\ s.size = 1 + s.lhs.size + s.rhs.size
      BY <2>3, Parts
    <3>2. \A c \in O : P(s.lhs, c, lo(c)) /\ P(s.rhs, c, ro(c))
      <4>1. s.lhs \in S /\ s.rhs \in S
        <5> HIDE DEF S
        <5> QED BY <1>1, <3>1
      <4> QED BY <4>1
    <3>3. Map!Some(s.key) \in O
      BY <3>1
    <3>4. k \in Nat /\ s.key \in Nat
      BY <3>1 DEF Map!SearchTrees
    <3> HIDE DEF O
    <3>5. CASE s.key < k
      <4>1. o = ro(b)
        BY <2>1, <3>1, <3>4, <3>5
      <4>2. P(s.rhs, b, ro(b))
        BY <3>2
      <4> HIDE DEF o, lo, ro
      <4>3. Map!From(entries[s], k) = Map!From(entries[s.rhs], k)
        BY <2>3, <3>5, UpToParts
      <4>4. P(s, b, o)
        BY <4>1, <4>2, <4>3
      <4> QED BY <4>4 DEF o
    <3>6. CASE k < s.key
      <4>1. o = lo(Map!Some(s.key))
        BY <2>1, <3>1, <3>4, <3>6
      <4>2. P(s.lhs, Map!Some(s.key), lo(Map!Some(s.key)))
        BY <3>2, <3>3
      <4> HIDE DEF o, lo, ro
      <4>3. Map!From(entries[s], k) = Map!From(entries[s.lhs], k) \cup {<<s.key, s.value>>} \cup entries[s.rhs]
        BY <2>3, <3>6, UpToParts
      <4>4. Map!From(entries[s.lhs], k) \subseteq entries[s.lhs]
        BY DEF Map!From
      <4>5. Map!Least(Map!From(entries[s.lhs], k) \cup {<<s.key, s.value>>} \cup entries[s.rhs], o, b)
        BY <2>3, <4>1, <4>2, <4>4, LeastParts
      <4>6. P(s, b, o)
        BY <4>3, <4>5
      <4> QED BY <4>6 DEF o
    <3>7. CASE k = s.key
      <4>1. o = Map!Some(s.key)
        BY <2>1, <3>1, <3>4, <3>7
      <4> HIDE DEF o
      <4>2. Map!From(entries[s], k) = {} \cup {<<s.key, s.value>>} \cup entries[s.rhs]
        BY <2>3, <3>7, UpToParts
      <4>3. Map!Least({}, o, Map!Some(s.key))
        BY <4>1 DEF Map!Least
      <4>4. Map!Least({} \cup {<<s.key, s.value>>} \cup entries[s.rhs], o, b)
        BY <2>3, <4>3, LeastParts
      <4>5. P(s, b, o)
        BY <4>2, <4>4
      <4> QED BY <4>5 DEF o
    <3> QED BY <3>4, <3>5, <3>6, <3>7
  <2> QED BY <2>2, <2>3
<1>2. V \subseteq S
  <2> HIDE DEF S
  <2> QED BY <1>1, TreeInduction
<1> QED BY <1>2

-----------------------------------------------------------------------------
(* Two maps of one, and a map of an array.                                 *)

(* partition returns a valid tree of the entries whose keys the predicate  *)
(* accepts, and one of all others.                                         *)
THEOREM PartitionSelects ==
    ASSUME NEW K, NEW V, NEW X, NEW entries, NEW op, Map!SearchTrees(K, V, X, entries),
           Map!Balancing(K, V, X, op), Map!OnMaps(K, V, op),
           NEW t \in V, NEW p \in SUBSET K
    PROVE  LET w == op.partition[<<t, p>>] IN
           /\ w[1] \in V /\ entries[w[1]] = Map!Among(entries[t], p)
           /\ w[2] \in V /\ entries[w[2]] = entries[t] \ Map!Among(entries[t], p)
<1> DEFINE P(s, w) == /\ w[1] \in V /\ entries[w[1]] = Map!Among(entries[s], p)
                      /\ w[2] \in V /\ entries[w[2]] = entries[s] \ Map!Among(entries[s], p)
           S == {s \in V : P(s, op.partition[<<s, p>>])}
<1>1. ASSUME NEW s \in V, \A y \in V : y.size < s.size => y \in S
      PROVE  s \in S
  <2> DEFINE w == op.partition[<<s, p>>]
             l == op.partition[<<s.lhs, p>>]
             r == op.partition[<<s.rhs, p>>]
  <2>1. w = IF Map!IsEmpty(s) THEN <<Map!Empty, Map!Empty>>
            ELSE IF s.key \in p
              THEN <<op.link[<<s.key, s.value, l[1], r[1]>>], op.link2[<<l[2], r[2]>>]>>
              ELSE <<op.link2[<<l[1], r[1]>>], op.link[<<s.key, s.value, l[2], r[2]>>]>>
    BY DEF Map!OnMaps, Map!PartitionStep
  <2>2. CASE s = Map!Empty
    <3>1. entries[s] = {} /\ Map!IsEmpty(s)
      BY <2>2, EmptyFields DEF Map!IsEmpty, Map!SearchTrees
    <3>2. Map!Among(entries[s], p) = {}
      BY <3>1 DEF Map!Among
    <3>3. w[1] = s /\ w[2] = s
      BY <2>1, <2>2, <3>1
    <3> HIDE DEF w
    <3>4. P(s, w)
      BY <3>1, <3>2, <3>3
    <3> QED BY <3>4 DEF w
  <2>3. CASE s # Map!Empty
    <3>1. /\ ~ Map!IsEmpty(s) /\ s.lhs \in V /\ s.rhs \in V /\ s.key \in K
          /\ s.lhs.size \in Nat /\ s.rhs.size \in Nat
          /\ s.size = 1 + s.lhs.size + s.rhs.size
      BY <2>3, Parts
    <3>2. P(s.lhs, l) /\ P(s.rhs, r)
      <4>1. s.lhs \in S /\ s.rhs \in S
        <5> HIDE DEF S
        <5> QED BY <1>1, <3>1
      <4> QED BY <4>1
    <3> HIDE DEF w, l, r
    <3> DEFINE L == entries[s.lhs]
               R == entries[s.rhs]
               n == <<s.key, s.value>>
    <3>3. entries[s] = L \cup {n} \cup R /\ n \notin L /\ n \notin R /\ L \cap R = {}
      <4>1. entries[s] = L \cup {n} \cup R
        BY <2>3, Parts
      <4>2. n \notin L /\ n \notin R /\ L \cap R = {}
        BY <2>3, NodeOrder
      <4> QED BY <4>1, <4>2
    <3>4. n[1] = s.key
      OBVIOUS
    <3>5. /\ l[1] \in V /\ entries[l[1]] = Map!Among(L, p)
          /\ r[1] \in V /\ entries[r[1]] = Map!Among(R, p)
          /\ l[2] \in V /\ entries[l[2]] = L \ Map!Among(L, p)
          /\ r[2] \in V /\ entries[r[2]] = R \ Map!Among(R, p)
      BY <3>2
    <3>6. /\ entries[l[1]] \subseteq L /\ entries[r[1]] \subseteq R
          /\ entries[l[2]] \subseteq L /\ entries[r[2]] \subseteq R
      BY <3>5 DEF Map!Among
    <3>7. /\ Map!Below(entries[l[1]], s.key) /\ Map!Above(entries[r[1]], s.key)
          /\ Map!Precede(entries[l[1]], entries[r[1]])
      BY <2>3, <3>6, NodePrecedes
    <3>8. /\ Map!Below(entries[l[2]], s.key) /\ Map!Above(entries[r[2]], s.key)
          /\ Map!Precede(entries[l[2]], entries[r[2]])
      BY <2>3, <3>6, NodePrecedes
    <3> HIDE DEF L, R
    <3>9. CASE s.key \in p
      <4>1. w[1] = op.link[<<s.key, s.value, l[1], r[1]>>] /\ w[2] = op.link2[<<l[2], r[2]>>]
        BY <2>1, <3>1, <3>9
      <4>2. w[1] \in V /\ entries[w[1]] = Map!Among(L, p) \cup {n} \cup Map!Among(R, p)
        <5>1. Map!Holds(V, entries, w[1], 1 + l[1].size + r[1].size,
                         entries[l[1]] \cup {n} \cup entries[r[1]])
          <6>1. /\ l[1] \in V /\ r[1] \in V
                /\ Map!Below(entries[l[1]], s.key) /\ Map!Above(entries[r[1]], s.key)
            BY <3>5, <3>7
          <6> QED BY <2>3, <4>1, <6>1, LinkedFacts
        <5> QED BY <3>5, <5>1 DEF Map!Holds
      <4>3. w[2] \in V /\ entries[w[2]] = (L \ Map!Among(L, p)) \cup (R \ Map!Among(R, p))
        <5>1. Map!Holds(V, entries, w[2], l[2].size + r[2].size,
                         entries[l[2]] \cup entries[r[2]])
          BY <3>5, <3>8, <4>1, Link2Joins
        <5> QED BY <3>5, <5>1 DEF Map!Holds
      <4> HIDE DEF n
      <4>4. Map!Among(entries[s], p) = Map!Among(L, p) \cup {n} \cup Map!Among(R, p)
        BY <3>3, <3>4, <3>9 DEF Map!Among
      <4>5. entries[s] \ Map!Among(entries[s], p) = (L \ Map!Among(L, p)) \cup (R \ Map!Among(R, p))
        BY <3>3, <3>4, <3>9 DEF Map!Among
      <4>6. P(s, w)
        BY <4>2, <4>3, <4>4, <4>5
      <4> QED BY <4>6 DEF w
    <3>10. CASE s.key \notin p
      <4>1. w[1] = op.link2[<<l[1], r[1]>>] /\ w[2] = op.link[<<s.key, s.value, l[2], r[2]>>]
        BY <2>1, <3>1, <3>10
      <4>2. w[1] \in V /\ entries[w[1]] = Map!Among(L, p) \cup Map!Among(R, p)
        <5>1. Map!Holds(V, entries, w[1], l[1].size + r[1].size,
                         entries[l[1]] \cup entries[r[1]])
          BY <3>5, <3>7, <4>1, Link2Joins
        <5> QED BY <3>5, <5>1 DEF Map!Holds
      <4>3. w[2] \in V /\ entries[w[2]] = (L \ Map!Among(L, p)) \cup {n} \cup (R \ Map!Among(R, p))
        <5>1. Map!Holds(V, entries, w[2], 1 + l[2].size + r[2].size,
                         entries[l[2]] \cup {n} \cup entries[r[2]])
          <6>1. /\ l[2] \in V /\ r[2] \in V
                /\ Map!Below(entries[l[2]], s.key) /\ Map!Above(entries[r[2]], s.key)
            BY <3>5, <3>8
          <6> QED BY <2>3, <4>1, <6>1, LinkedFacts
        <5> QED BY <3>5, <5>1 DEF Map!Holds
      <4> HIDE DEF n
      <4>4. Map!Among(entries[s], p) = Map!Among(L, p) \cup Map!Among(R, p)
        BY <3>3, <3>4, <3>10 DEF Map!Among
      <4>5. entries[s] \ Map!Among(entries[s], p)
              = (L \ Map!Among(L, p)) \cup {n} \cup (R \ Map!Among(R, p))
        BY <3>3, <3>4, <3>10 DEF Map!Among
      <4>6. P(s, w)
        BY <4>2, <4>3, <4>4, <4>5
      <4> QED BY <4>6 DEF w
    <3> QED BY <3>9, <3>10
  <2> QED BY <2>2, <2>3
<1>2. V \subseteq S
  <2> HIDE DEF S
  <2> QED BY <1>1, TreeInduction
<1> QED BY <1>2

(* The halves of an array, without the element in the middle.              *)
LEMMA Halves ==
    ASSUME NEW Y, NEW xs \in Seq(Y), xs # <<>>
    PROVE  LET m == Map!Middle(xs)
               a == SubSeq(xs, 1, m - 1)
               b == SubSeq(xs, m + 1, Len(xs))
           IN  /\ m \in 1..Len(xs) /\ xs[m] \in Y
               /\ a \in Seq(Y) /\ Len(a) = m - 1 /\ \A i \in 1..m - 1 : a[i] = xs[i]
               /\ b \in Seq(Y) /\ Len(b) = Len(xs) - m
               /\ \A i \in 1..Len(xs) - m : b[i] = xs[m + i]
               /\ Map!Balanced(m - 1, Len(xs) - m)
               /\ ToSet(xs) = ToSet(a) \cup {xs[m]} \cup ToSet(b)
<1> DEFINE n == Len(xs)
           m == Map!Middle(xs)
           a == SubSeq(xs, 1, m - 1)
           b == SubSeq(xs, m + 1, n)
<1>1. n \in Nat /\ n # 0 /\ DOMAIN xs = 1..n /\ \A i \in 1..n : xs[i] \in Y
  BY EmptySeq, LenProperties, ElementOfSeq
<1>2. m \in 1..n /\ Map!Balanced(m - 1, n - m)
  <2>1. m = (n \div 2) + 1
    BY DEF Map!Middle
  <2> HIDE DEF n, m
  <2>2. m \in Nat /\ 2 * (m - 1) <= n /\ n <= 2 * (m - 1) + 1
    BY <1>1, <2>1
  <2> QED BY <1>1, <2>2 DEF Map!Balanced, Map!Delta
<1>3. xs[m] \in Y
  BY <1>1, <1>2
<1>4. a \in Seq(Y) /\ Len(a) = m - 1 /\ \A i \in 1..m - 1 : a[i] = xs[i]
  <2> HIDE DEF m, n
  <2>1. 1 \in Int /\ m - 1 \in Int /\ \A i \in 1..m - 1 : xs[i] \in Y
    BY <1>1, <1>2
  <2>2. /\ a \in Seq(Y) /\ Len(a) = (IF 1 <= m - 1 THEN m - 1 - 1 + 1 ELSE 0)
        /\ \A i \in 1..m - 1 - 1 + 1 : a[i] = xs[1 + i - 1]
    BY <2>1, SubSeqProperties
  <2> HIDE DEF a
  <2> QED BY <1>1, <1>2, <2>2
<1>5. b \in Seq(Y) /\ Len(b) = n - m /\ \A i \in 1..n - m : b[i] = xs[m + i]
  <2> HIDE DEF m, n
  <2>1. m + 1 \in Int /\ n \in Int /\ \A i \in m + 1..n : xs[i] \in Y
    BY <1>1, <1>2
  <2>2. /\ b \in Seq(Y) /\ Len(b) = (IF m + 1 <= n THEN n - (m + 1) + 1 ELSE 0)
        /\ \A i \in 1..n - (m + 1) + 1 : b[i] = xs[m + 1 + i - 1]
    BY <2>1, SubSeqProperties
  <2> HIDE DEF b
  <2> QED BY <1>1, <1>2, <2>2
<1>6. ToSet(xs) = ToSet(a) \cup {xs[m]} \cup ToSet(b)
  <2> HIDE DEF m, n, a, b
  <2>1. DOMAIN a = 1..m - 1 /\ DOMAIN b = 1..n - m
    BY <1>4, <1>5, LenProperties
  <2>2. \A i \in 1..n : i \in 1..m - 1 \/ i = m \/ (i - m \in 1..n - m /\ m + (i - m) = i)
    BY <1>1, <1>2
  <2>3. \A i \in 1..n - m : m + i \in 1..n
    BY <1>1, <1>2
  <2>4. \A i \in 1..m - 1 : i \in 1..n
    BY <1>1, <1>2
  <2>5. ToSet(xs) \subseteq ToSet(a) \cup {xs[m]} \cup ToSet(b)
    <3> SUFFICES ASSUME NEW i \in 1..n
                 PROVE  xs[i] \in ToSet(a) \cup {xs[m]} \cup ToSet(b)
      BY <1>1 DEF ToSet
    <3>1. CASE i \in 1..m - 1
      BY <1>4, <2>1, <3>1 DEF ToSet
    <3>2. CASE i = m
      BY <3>2
    <3>3. CASE i - m \in 1..n - m /\ m + (i - m) = i
      <4>1. b[i - m] = xs[i]
        BY <1>5, <3>3
      <4> QED BY <2>1, <3>3, <4>1 DEF ToSet
    <3> QED BY <2>2, <3>1, <3>2, <3>3
  <2>6. ToSet(a) \subseteq ToSet(xs)
    BY <1>1, <1>4, <2>1, <2>4 DEF ToSet
  <2>7. ToSet(b) \subseteq ToSet(xs)
    BY <1>1, <1>5, <2>1, <2>3 DEF ToSet
  <2>8. xs[m] \in ToSet(xs)
    BY <1>1, <1>2 DEF ToSet
  <2> QED BY <2>5, <2>6, <2>7, <2>8
<1> QED BY <1>2, <1>3, <1>4, <1>5, <1>6

(* An array whose keys rise becomes a valid tree of all its entries,       *)
(* without a comparison or a rotation.                                     *)
THEOREM FromDistinctAscArrayBuilds ==
    ASSUME NEW K, NEW V, NEW X, NEW entries, NEW op, Map!SearchTrees(K, V, X, entries),
           NEW A, Map!OnArrays(K, X, A, op), NEW xs \in A
    PROVE  Map!Holds(V, entries, op.fromDistinctAscArray[xs], Len(xs), ToSet(xs))
<1> DEFINE P(ys) == Map!Holds(V, entries, op.fromDistinctAscArray[ys], Len(ys), ToSet(ys))
           S == {n \in Nat : \A ys \in A : Len(ys) = n => P(ys)}
<1>1. ASSUME NEW n \in Nat, \A m \in Nat : m < n => m \in S
      PROVE  n \in S
  <2> SUFFICES ASSUME NEW ys \in A, Len(ys) = n
               PROVE  P(ys)
    OBVIOUS
  <2> DEFINE m == Map!Middle(ys)
             a == SubSeq(ys, 1, m - 1)
             b == SubSeq(ys, m + 1, Len(ys))
             l == op.fromDistinctAscArray[a]
             r == op.fromDistinctAscArray[b]
             u == op.fromDistinctAscArray[ys]
  <2>1. /\ ys \in Seq(K \X X)
        /\ \A i \in DOMAIN ys, j \in DOMAIN ys : i < j => ys[i][1] < ys[j][1]
        /\ ys # <<>> => a \in A /\ b \in A
        /\ u = IF ys = <<>> THEN Map!Empty ELSE Map!MkBin(ys[m][1], ys[m][2], l, r)
    BY DEF Map!OnArrays, Map!FromDistinctAscArrayStep
  <2>2. CASE ys = <<>>
    <3>1. ToSet(ys) = {} /\ Len(ys) = 0
      BY <2>2 DEF ToSet
    <3>2. u = Map!Empty
      BY <2>1, <2>2
    <3> QED BY <3>1, <3>2, EmptyFields DEF Map!Holds, Map!SearchTrees
  <2>3. CASE ys # <<>>
    <3>1. /\ m \in 1..Len(ys) /\ ys[m] \in K \X X
          /\ a \in Seq(K \X X) /\ Len(a) = m - 1 /\ \A i \in 1..m - 1 : a[i] = ys[i]
          /\ b \in Seq(K \X X) /\ Len(b) = Len(ys) - m
          /\ \A i \in 1..Len(ys) - m : b[i] = ys[m + i]
          /\ Map!Balanced(m - 1, Len(ys) - m)
          /\ ToSet(ys) = ToSet(a) \cup {ys[m]} \cup ToSet(b)
      BY <2>1, <2>3, Halves
    <3>2. Len(ys) \in Nat /\ DOMAIN ys = 1..Len(ys) /\ DOMAIN a = 1..m - 1 /\ DOMAIN b = 1..Len(ys) - m
      BY <2>1, <3>1, LenProperties
    <3>3. a \in A /\ b \in A /\ u = Map!MkBin(ys[m][1], ys[m][2], l, r)
      BY <2>1, <2>3
    <3> HIDE DEF m, a, b
    <3>4. Len(a) \in Nat /\ Len(b) \in Nat /\ Len(a) < n /\ Len(b) < n
      BY <3>1, <3>2
    <3>5. P(a) /\ P(b)
      <4>1. Len(a) \in S /\ Len(b) \in S
        <5> HIDE DEF S
        <5> QED BY <1>1, <3>4
      <4> QED BY <3>3, <4>1
    <3>6. /\ Map!Holds(V, entries, l, m - 1, ToSet(a))
          /\ Map!Holds(V, entries, r, Len(ys) - m, ToSet(b))
      BY <3>1, <3>5
    <3> HIDE DEF l, r, u
    <3>7. Map!Below(ToSet(a), ys[m][1])
      <4>1. \A i \in 1..m - 1 : a[i][1] < ys[m][1]
        <5> SUFFICES ASSUME NEW i \in 1..m - 1
                     PROVE  a[i][1] < ys[m][1]
          OBVIOUS
        <5>1. i \in DOMAIN ys /\ m \in DOMAIN ys /\ i < m /\ a[i] = ys[i]
          BY <3>1, <3>2
        <5> QED BY <2>1, <5>1
      <4> QED BY <3>2, <4>1 DEF Map!Below, ToSet
    <3>8. Map!Above(ToSet(b), ys[m][1])
      <4>1. \A i \in 1..Len(ys) - m : ys[m][1] < b[i][1]
        <5> SUFFICES ASSUME NEW i \in 1..Len(ys) - m
                     PROVE  ys[m][1] < b[i][1]
          OBVIOUS
        <5>1. m + i \in DOMAIN ys /\ m \in DOMAIN ys /\ m < m + i /\ b[i] = ys[m + i]
          BY <3>1, <3>2
        <5> QED BY <2>1, <5>1
      <4> QED BY <3>2, <4>1 DEF Map!Above, ToSet
    <3>9. ys[m][1] \in K /\ ys[m][2] \in X /\ ys[m] = <<ys[m][1], ys[m][2]>>
      BY <3>1
    <3>10. Map!Holds(V, entries, u, 1 + (m - 1) + (Len(ys) - m),
                      ToSet(a) \cup {<<ys[m][1], ys[m][2]>>} \cup ToSet(b))
      BY <3>1, <3>3, <3>6, <3>7, <3>8, <3>9, Joined
    <3>11. 1 + (m - 1) + (Len(ys) - m) = Len(ys)
      BY <3>1, <3>2
    <3>12. Map!Holds(V, entries, u, Len(ys), ToSet(ys))
      BY <3>1, <3>9, <3>10, <3>11
    <3> QED BY <3>12 DEF u
  <2> QED BY <2>2, <2>3
<1>2. Nat \subseteq S
  <2> HIDE DEF S
  <2> QED BY <1>1, SetInduction
<1>3. Len(xs) \in Nat
  BY LenProperties DEF Map!OnArrays
<1> QED BY <1>2, <1>3
=============================================================================
