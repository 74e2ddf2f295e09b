-------------------------- MODULE AdmissionGateProofs --------------------------
(***************************************************************************)
(* For any callers, keys and limits: the gate's counters count, nobody     *)
(* waits beside a slot it could have, and within a key nobody overtakes.   *)
(* What a drain does is proved by induction over its rounds, which the     *)
(* least round that would break it stands in for.                          *)
(***************************************************************************)
EXTENDS AdmissionGate, SequenceTheorems, FiniteSetTheorems, TLAPS

\* A caller with key k could not be admitted beside the counts of s.
Blocked(s, k) == ~(s.active < Concurrency /\ s.byKey[k] < PerKeyLimit)

HasKey(S, k) == {d \in S : KeyOf[d] = k}

\* The counts of s are those of the callers in S.
Counts(s, S) ==
    /\ IsFiniteSet(S)
    /\ s.active = Cardinality(S)
    /\ \A k \in GateKeys : s.byKey[k] = Cardinality(HasKey(S, k))

\* A round's state.
DrainState ==
    [active : 0..Concurrency, byKey : [GateKeys -> 0..PerKeyLimit],
     admitted : SUBSET Callers, waiting : Seq(Callers)]

\* After i rounds, beside the holders in B: the first i waiters are admitted or
\* left; the counts count B and the admitted; nobody left could be admitted, and
\* nobody admitted has left an earlier waiter of its key behind.
DrainedTo(s, i, B) ==
    /\ s \in DrainState
    /\ Counts(s, B \cup s.admitted)
    /\ \A d \in s.admitted : \E j \in 1..i : queue[j] = d
    /\ Len(s.waiting) <= i /\ IsInjective(s.waiting)
    /\ ToSet(s.waiting) = {queue[j] : j \in 1..i} \ s.admitted
    /\ \A m \in DOMAIN s.waiting : Blocked(s, KeyOf[s.waiting[m]])
    /\ \A j, h \in 1..i :
          j < h /\ KeyOf[queue[j]] = KeyOf[queue[h]] /\ queue[h] \in s.admitted
          => queue[j] \in s.admitted

\* The holders are finitely many, whatever the callers.
GateInv ==
    /\ GateTypeOK
    /\ IsFiniteSet(Holders)
    /\ SlotsCounted
    /\ NoIdleSlot

-----------------------------------------------------------------------------
(* Least elements, and sequences *)

LEMMA LeastNumber ==
    ASSUME NEW T \in SUBSET Nat, T # {}
    PROVE  \E m \in T : \A n \in T : m <= n
<1> DEFINE R == OpToRel(<, Nat)
<1>1. IsWellFoundedOn(R, Nat)
  BY NatLessThanWellFounded
<1>2. \A x, y \in Nat : x < y => <<x, y>> \in R
  BY DEF OpToRel
<1> HIDE DEF R
<1>3. PICK m \in T : \A n \in T : ~ (<<n, m>> \in R)
  BY <1>1, WFMin
<1>4. \A n \in T : ~(n < m)
  BY <1>2, <1>3
<1> QED  BY <1>4

\* Appending a new element keeps a sequence free of duplicates.
LEMMA AppendKeepsDistinct ==
    ASSUME NEW S, NEW s \in Seq(S), NEW c \in S, IsInjective(s), c \notin ToSet(s)
    PROVE  /\ Append(s, c) \in Seq(S) /\ Len(Append(s, c)) = Len(s) + 1
           /\ DOMAIN Append(s, c) = 1..(Len(s) + 1)
           /\ \A i \in 1..Len(s) : Append(s, c)[i] = s[i]
           /\ Append(s, c)[Len(s) + 1] = c
           /\ IsInjective(Append(s, c))
           /\ ToSet(Append(s, c)) = ToSet(s) \cup {c}
<1> DEFINE t == Append(s, c)
<1>1. /\ t \in Seq(S) /\ Len(t) = Len(s) + 1 /\ DOMAIN t = 1..(Len(s) + 1)
      /\ \A i \in 1..Len(s) : t[i] = s[i]
      /\ t[Len(s) + 1] = c
      /\ DOMAIN s = 1..Len(s) /\ Len(s) \in Nat
  OBVIOUS
<1> HIDE DEF t
<1>2. ASSUME NEW i \in 1..(Len(s) + 1), NEW j \in 1..(Len(s) + 1), t[i] = t[j]
      PROVE i = j
  <2>1. \A m \in 1..Len(s) : s[m] # c
    BY <1>1 DEF ToSet
  <2>2. \A m \in 1..(Len(s) + 1) : m \notin 1..Len(s) => m = Len(s) + 1
    BY <1>1
  <2> QED  BY <1>1, <1>2, <2>1, <2>2 DEF IsInjective
<1>3. IsInjective(t)
  BY <1>1, <1>2 DEF IsInjective
<1>4. ToSet(t) = ToSet(s) \cup {c}
  <2>1. \A m \in 1..(Len(s) + 1) : m \in 1..Len(s) \/ m = Len(s) + 1
    BY <1>1
  <2>2. 1..Len(s) \subseteq 1..(Len(s) + 1) /\ Len(s) + 1 \in 1..(Len(s) + 1)
    BY <1>1
  <2> QED  BY <1>1, <2>1, <2>2 DEF ToSet
<1> QED  BY <1>1, <1>3, <1>4 DEF t

\* splice(i, 1): the places of what is left, in their order.
LEMMA RemovedAt ==
    ASSUME NEW S, NEW s \in Seq(S), NEW i \in 1..Len(s)
    PROVE  /\ RemoveAt(s, i) \in Seq(S)
           /\ Len(RemoveAt(s, i)) = Len(s) - 1
           /\ \A j \in 1..(Len(s) - 1) :
                 RemoveAt(s, i)[j] = IF j < i THEN s[j] ELSE s[j + 1]
<1> DEFINE a == SubSeq(s, 1, i - 1)
           b == SubSeq(s, i + 1, Len(s))
<1>1. /\ a \in Seq(S) /\ Len(a) = i - 1
      /\ \A j \in 1..(i - 1) : a[j] = s[j]
  <2>1. \A j \in 1..(i - 1) : s[j] \in S
    OBVIOUS
  <2> QED  BY <2>1, SubSeqProperties
<1>2. /\ b \in Seq(S) /\ Len(b) = Len(s) - i
      /\ \A j \in 1..(Len(s) - i) : b[j] = s[i + j]
  <2>1. \A j \in (i + 1)..Len(s) : s[j] \in S
    OBVIOUS
  <2>2. /\ b \in Seq(S) 
        /\ Len(b) = IF i + 1 <= Len(s) THEN Len(s) - (i + 1) + 1 ELSE 0
        /\ \A j \in 1..(Len(s) - (i + 1) + 1) : b[j] = s[i + 1 + j - 1]
    BY <2>1, SubSeqProperties
  <2> QED  BY <2>2
<1> HIDE DEF a, b
<1>3. /\ a \o b \in Seq(S) /\ Len(a \o b) = Len(a) + Len(b)
      /\ \A j \in 1..(Len(a) + Len(b)) :
            (a \o b)[j] = IF j <= Len(a) THEN a[j] ELSE b[j - Len(a)]
  BY <1>1, <1>2, ConcatProperties
<1>4. RemoveAt(s, i) = a \o b
  BY DEF RemoveAt, a, b
<1>5. \A j \in 1..(Len(s) - 1) : (a \o b)[j] = IF j < i THEN s[j] ELSE s[j + 1]
  <2> TAKE j \in 1..(Len(s) - 1)
  <2>1. CASE j < i
    BY <1>1, <1>2, <1>3, <2>1
  <2>2. CASE ~(j < i)
    <3>1. j - (i - 1) \in 1..(Len(s) - i) /\ i + (j - (i - 1)) = j + 1
      BY <2>2
    <3>2. (a \o b)[j] = b[j - (i - 1)]
      BY <1>1, <1>2, <1>3, <2>2
    <3> QED  BY <1>2, <2>2, <3>1, <3>2
  <2> QED  BY <2>1, <2>2
<1>6. Len(a) + Len(b) = Len(s) - 1
  BY <1>1, <1>2
<1> QED  BY <1>3, <1>4, <1>5, <1>6
-----------------------------------------------------------------------------
(* The counts *)

\* One more holder, counted once and once under its key.
LEMMA CountsAdd ==
    ASSUME NEW s, NEW t, NEW S \in SUBSET Callers, NEW c \in Callers, c \notin S,
           Counts(s, S), s.byKey \in [GateKeys -> Nat],
           t.active = s.active + 1,
           t.byKey = [s.byKey EXCEPT ![KeyOf[c]] = @ + 1]
    PROVE  Counts(t, S \cup {c})
<1>1. /\ IsFiniteSet(S \cup {c})
      /\ Cardinality(S \cup {c}) = Cardinality(S) + 1
  BY FS_AddElement DEF Counts
<1>2. ASSUME NEW k \in GateKeys PROVE t.byKey[k] = Cardinality(HasKey(S \cup {c}, k))
  <2>1. IsFiniteSet(HasKey(S, k)) /\ c \notin HasKey(S, k)
    BY FS_Subset DEF HasKey, Counts
  <2>2. CASE KeyOf[c] = k
    <3>1. HasKey(S \cup {c}, k) = HasKey(S, k) \cup {c}
      BY <2>2 DEF HasKey
    <3>2. Cardinality(HasKey(S, k) \cup {c}) = Cardinality(HasKey(S, k)) + 1
      BY <2>1, FS_AddElement
    <3> QED  BY <2>2, <3>1, <3>2 DEF Counts
  <2>3. CASE KeyOf[c] # k
    <3>1. HasKey(S \cup {c}, k) = HasKey(S, k)
      BY <2>3 DEF HasKey
    <3> QED  BY <2>3, <3>1 DEF Counts
  <2> QED  BY <2>2, <2>3
<1> QED  BY <1>1, <1>2 DEF Counts

\* One holder less; the counts it was part of were not zero.
LEMMA CountsRemove ==
    ASSUME NEW s, NEW t, NEW S \in SUBSET Callers, NEW c \in S,
           Counts(s, S), s.byKey \in [GateKeys -> Nat],
           t.active = s.active - 1,
           t.byKey = [s.byKey EXCEPT ![KeyOf[c]] = @ - 1]
    PROVE  /\ Counts(t, S \ {c})
           /\ s.active > 0 /\ s.byKey[KeyOf[c]] > 0
<1>0. KeyOf[c] \in GateKeys
  BY GateAssumption
<1>1. /\ IsFiniteSet(S \ {c})
      /\ Cardinality(S \ {c}) = Cardinality(S) - 1
  BY FS_RemoveElement DEF Counts
<1>2. Cardinality(S) \in Nat /\ Cardinality(S \ {c}) \in Nat
  BY <1>1, FS_CardinalityType DEF Counts
<1>3. ASSUME NEW k \in GateKeys, KeyOf[c] = k
      PROVE  /\ t.byKey[k] = Cardinality(HasKey(S \ {c}, k))
             /\ s.byKey[k] > 0
  <2>1. IsFiniteSet(HasKey(S, k)) /\ c \in HasKey(S, k)
    BY <1>3, FS_Subset DEF HasKey, Counts
  <2>2. HasKey(S \ {c}, k) = HasKey(S, k) \ {c}
    BY DEF HasKey
  <2>3. /\ IsFiniteSet(HasKey(S, k) \ {c})
        /\ Cardinality(HasKey(S, k) \ {c}) = Cardinality(HasKey(S, k)) - 1
    BY <2>1, FS_RemoveElement
  <2>4. Cardinality(HasKey(S, k)) \in Nat /\ Cardinality(HasKey(S, k) \ {c}) \in Nat
    BY <2>1, <2>3, FS_CardinalityType
  <2>5. s.byKey[k] = Cardinality(HasKey(S, k)) /\ t.byKey[k] = s.byKey[k] - 1
    BY <1>3 DEF Counts
  <2>6. t.byKey[k] = Cardinality(HasKey(S \ {c}, k))
    BY <2>2, <2>3, <2>5
  <2>7. Cardinality(HasKey(S, k)) > 0
    BY <2>3, <2>4
  <2> QED  BY <2>5, <2>6, <2>7
<1>4. ASSUME NEW k \in GateKeys, KeyOf[c] # k
      PROVE  t.byKey[k] = Cardinality(HasKey(S \ {c}, k))
  <2>1. HasKey(S \ {c}, k) = HasKey(S, k)
    BY <1>4 DEF HasKey
  <2> QED  BY <1>4, <2>1 DEF Counts
<1>5. s.active > 0
  BY <1>1, <1>2 DEF Counts
<1> QED  BY <1>0, <1>1, <1>3, <1>4, <1>5 DEF Counts

-----------------------------------------------------------------------------
(* A drain *)

\* A round keeps what the drain has established so far.
LEMMA DrainRound ==
    ASSUME GateTypeOK, NEW B \in SUBSET Callers, ToSet(queue) \cap B = {},
           NEW i \in Nat, i < Len(queue), NEW s, DrainedTo(s, i, B)
    PROVE  DrainedTo(DrainOne(s, queue[i + 1]), i + 1, B)
<1> DEFINE c == queue[i + 1]
           t == DrainOne(s, c)
<1>1. /\ c \in Callers /\ KeyOf[c] \in GateKeys /\ c \in ToSet(queue)
      /\ \A j \in 1..i : queue[j] # c
      /\ \A j, h \in 1..i : queue[j] = queue[h] => j = h
  <2>1. /\ i + 1 \in DOMAIN queue
        /\ \A j \in 1..i : j \in DOMAIN queue /\ j # i + 1
    BY DEF GateTypeOK
  <2>2. c \in Callers
    BY <2>1 DEF GateTypeOK
  <2> QED  BY <2>1, <2>2, GateAssumption DEF GateTypeOK, ToSet, IsInjective
<1>2. \A j \in 1..(i + 1) : j \in 1..i \/ j = i + 1
  OBVIOUS
<1>3. 1..i \subseteq 1..(i + 1) /\ i + 1 \in 1..(i + 1)
  OBVIOUS
<1>4. s \in DrainState /\ c \notin s.admitted /\ c \notin B /\ c \notin ToSet(s.waiting)
  BY <1>1 DEF DrainedTo
<1> HIDE DEF c
<1>5. CASE ~Blocked(s, KeyOf[c])
  <2>1. t = [active |-> s.active + 1,
             byKey |-> [s.byKey EXCEPT ![KeyOf[c]] = @ + 1],
             admitted |-> s.admitted \cup {c},
             waiting |-> s.waiting]
    BY <1>5 DEF DrainOne, Blocked
  <2> HIDE DEF t
  <2>2. t \in DrainState
    BY <1>1, <1>4, <1>5, <2>1, GateAssumption DEF DrainState, Blocked
  <2>3. Counts(t, B \cup t.admitted)
    <3>1. Counts(t, (B \cup s.admitted) \cup {c})
      <4>1. Counts(s, B \cup s.admitted) /\ c \notin B \cup s.admitted
        BY <1>4 DEF DrainedTo
      <4>2. B \cup s.admitted \in SUBSET Callers /\ s.byKey \in [GateKeys -> Nat]
        BY <1>4 DEF DrainState
      <4> QED  BY <1>1, <2>1, <4>1, <4>2, CountsAdd
    <3>2. (B \cup s.admitted) \cup {c} = B \cup t.admitted
      BY <2>1
    <3> QED  BY <3>1, <3>2
  <2>4. \A d \in t.admitted : \E j \in 1..(i + 1) : queue[j] = d
    BY <1>3, <2>1 DEF DrainedTo, c
  <2>5. Len(t.waiting) <= i + 1 /\ IsInjective(t.waiting)
    BY <1>4, <2>1 DEF DrainedTo, DrainState
  <2>6. ToSet(t.waiting) = {queue[j] : j \in 1..(i + 1)} \ t.admitted
    <3>1. {queue[j] : j \in 1..(i + 1)} = {queue[j] : j \in 1..i} \cup {c}
      BY <1>2, <1>3 DEF c
    <3>2. c \notin {queue[j] : j \in 1..i}
      BY <1>1
    <3> QED  BY <2>1, <3>1, <3>2 DEF DrainedTo
  <2>7. \A m \in DOMAIN t.waiting : Blocked(t, KeyOf[t.waiting[m]])
    <3> SUFFICES ASSUME NEW m \in DOMAIN s.waiting PROVE Blocked(t, KeyOf[s.waiting[m]])
      BY <2>1
    <3>1. Blocked(s, KeyOf[s.waiting[m]]) /\ KeyOf[s.waiting[m]] \in GateKeys
      BY <1>4, GateAssumption DEF DrainedTo, DrainState
    <3> QED  BY <1>1, <1>4, <2>1, <3>1, GateAssumption DEF Blocked, DrainState
  <2>8. ASSUME NEW j \in 1..(i + 1), NEW h \in 1..(i + 1),
               j < h, KeyOf[queue[j]] = KeyOf[queue[h]], queue[h] \in t.admitted
        PROVE queue[j] \in t.admitted
    <3>1. j \in 1..i
      BY <2>8
    <3>2. CASE h \in 1..i
      <4>1. queue[h] \in s.admitted
        BY <1>1, <2>1, <2>8, <3>2
      <4> QED  BY <2>1, <2>8, <3>1, <3>2, <4>1 DEF DrainedTo
    <3>3. CASE h = i + 1
      <4>1. KeyOf[queue[j]] = KeyOf[c]
        BY <2>8, <3>3 DEF c
      <4>2. queue[j] \notin ToSet(s.waiting)
        <5> SUFFICES ASSUME NEW m \in DOMAIN s.waiting, s.waiting[m] = queue[j]
                     PROVE FALSE
          BY DEF ToSet
        <5> QED  BY <1>5, <4>1 DEF DrainedTo
      <4>3. queue[j] \in s.admitted
        BY <3>1, <4>2 DEF DrainedTo
      <4> QED  BY <2>1, <4>3
    <3> QED  BY <1>2, <3>2, <3>3
  <2> QED  BY <2>2, <2>3, <2>4, <2>5, <2>6, <2>7, <2>8 DEF DrainedTo, t, c
<1>6. CASE Blocked(s, KeyOf[c])
  <2>1. t = [s EXCEPT !.waiting = Append(s.waiting, c)]
    BY <1>6 DEF DrainOne, Blocked
  <2>2. /\ t.active = s.active /\ t.byKey = s.byKey /\ t.admitted = s.admitted
        /\ t.waiting = Append(s.waiting, c)
    BY <1>4, <2>1 DEF DrainState
  <2>3. s.waiting \in Seq(Callers) /\ IsInjective(s.waiting) /\ Len(s.waiting) <= i
    BY <1>4 DEF DrainedTo, DrainState
  <2>4. /\ t.waiting \in Seq(Callers) /\ Len(t.waiting) = Len(s.waiting) + 1
        /\ DOMAIN t.waiting = 1..(Len(s.waiting) + 1)
        /\ \A m \in 1..Len(s.waiting) : t.waiting[m] = s.waiting[m]
        /\ t.waiting[Len(s.waiting) + 1] = c
        /\ IsInjective(t.waiting)
        /\ ToSet(t.waiting) = ToSet(s.waiting) \cup {c}
    BY <1>1, <1>4, <2>2, <2>3, AppendKeepsDistinct
  <2>5. t \in DrainState
    BY <1>4, <2>1, <2>2, <2>4 DEF DrainState
  <2> HIDE DEF t
  <2>6. Counts(t, B \cup t.admitted)
    BY <2>2 DEF DrainedTo, Counts
  <2>7. \A d \in t.admitted : \E j \in 1..(i + 1) : queue[j] = d
    BY <1>3, <2>2 DEF DrainedTo
  <2>8. Len(t.waiting) <= i + 1
    BY <2>3, <2>4
  <2>9. ToSet(t.waiting) = {queue[j] : j \in 1..(i + 1)} \ t.admitted
    <3>1. {queue[j] : j \in 1..(i + 1)} = {queue[j] : j \in 1..i} \cup {c}
      BY <1>2, <1>3 DEF c
    <3>2. c \notin {queue[j] : j \in 1..i}
      BY <1>1
    <3> QED  BY <1>4, <2>2, <2>4, <3>1, <3>2 DEF DrainedTo
  <2>10. ASSUME NEW m \in DOMAIN t.waiting PROVE Blocked(t, KeyOf[t.waiting[m]])
    <3>1. m \in 1..Len(s.waiting) \/ m = Len(s.waiting) + 1
      BY <2>3, <2>4, <2>10
    <3>2. \A k : Blocked(t, k) <=> Blocked(s, k)
      BY <2>2 DEF Blocked
    <3>3. CASE m \in 1..Len(s.waiting)
      <4>1. m \in DOMAIN s.waiting
        BY <2>3, <3>3
      <4> QED  BY <2>4, <3>2, <3>3, <4>1 DEF DrainedTo
    <3>4. CASE m = Len(s.waiting) + 1
      BY <1>6, <2>4, <3>2, <3>4
    <3> QED  BY <3>1, <3>3, <3>4
  <2>11. ASSUME NEW j \in 1..(i + 1), NEW h \in 1..(i + 1),
                j < h, KeyOf[queue[j]] = KeyOf[queue[h]], queue[h] \in t.admitted
         PROVE queue[j] \in t.admitted
    <3>1. j \in 1..i
      BY <2>11
    <3>2. h # i + 1
      BY <1>4, <2>2, <2>11 DEF c
    <3>3. h \in 1..i
      BY <1>2, <3>2
    <3> QED  BY <2>2, <2>11, <3>1, <3>3 DEF DrainedTo
  <2> QED  BY <2>4, <2>5, <2>6, <2>7, <2>8, <2>9, <2>10, <2>11 DEF DrainedTo, t, c
<1> QED  BY <1>5, <1>6 DEF c, t
\* The rounds of a drain: the recursion of Drain has a solution, which its CHOOSE
\* finds.
LEMMA DrainRuns ==
    ASSUME NEW freed, Len(queue) \in Nat
    PROVE  \E g : /\ g[0] = freed
                  /\ \A i \in 1..Len(queue) : g[i] = DrainOne(g[i - 1], queue[i])
                  /\ Drain(freed) = g[Len(queue)]
<1> DEFINE Runs(g, n) ==
             g = [i \in 0..n |-> IF i = 0 THEN freed ELSE DrainOne(g[i - 1], queue[i])]
           Stuck == {n \in Nat : ~ \E g : Runs(g, n)}
<1>1. Stuck = {}
  <2> SUFFICES ASSUME Stuck # {} PROVE FALSE
    OBVIOUS
  <2>1. PICK n \in Stuck : \A m \in Stuck : n <= m
    BY LeastNumber
  <2>2. n # 0
    <3>1. Runs([i \in 0..0 |-> freed], 0)
      OBVIOUS
    <3> QED  BY <2>1, <3>1
  <2>3. n - 1 \in Nat /\ n - 1 \notin Stuck
    <3>1. n \in Nat
      BY <2>1
    <3> HIDE DEF Stuck
    <3> QED  BY <2>1, <2>2, <3>1
  <2>4. PICK g : Runs(g, n - 1)
    BY <2>3
  <2> DEFINE h == [i \in 0..n |-> IF i = n THEN DrainOne(g[n - 1], queue[n]) ELSE g[i]]
  <2>5. Runs(h, n)
    <3>1. \A i \in 0..n : h[i] = IF i = 0 THEN freed ELSE DrainOne(h[i - 1], queue[i])
      <4> TAKE i \in 0..n
      <4>1. CASE i = 0
        BY <2>2, <2>3, <2>4, <4>1
      <4>2. CASE i # 0 /\ i # n
        <5>1. i \in 0..(n - 1) /\ i - 1 \in 0..n /\ i - 1 # n
          BY <2>1, <4>2
        <5>2. g[i] = DrainOne(g[i - 1], queue[i])
          BY <2>4, <4>2, <5>1
        <5> QED  BY <4>2, <5>1, <5>2
      <4>3. CASE i # 0 /\ i = n
        <5>1. n - 1 \in 0..n /\ n - 1 # n
          BY <2>1, <4>3
        <5> QED  BY <4>3, <5>1
      <4> QED  BY <4>1, <4>2, <4>3
    <3> HIDE DEF h
    <3>2. h = [i \in 0..n |-> h[i]]
      BY DEF h
    <3> QED  BY <3>1, <3>2
  <2> QED  BY <2>1, <2>5
<1>2. \E g : Runs(g, Len(queue))
  BY <1>1
<1> DEFINE after == CHOOSE g : Runs(g, Len(queue))
<1>3. Runs(after, Len(queue))
  BY <1>2
<1>4. Drain(freed) = after[Len(queue)]
  BY DEF Drain
<1> HIDE DEF after
<1>5. after[0] = freed
  BY <1>3
<1>6. \A i \in 1..Len(queue) : after[i] = DrainOne(after[i - 1], queue[i])
  BY <1>3
<1> QED  BY <1>4, <1>5, <1>6

\* A drain goes through the whole queue.
LEMMA Drained ==
    ASSUME GateTypeOK, NEW B \in SUBSET Callers, ToSet(queue) \cap B = {},
           NEW freed, DrainedTo(freed, 0, B)
    PROVE  DrainedTo(Drain(freed), Len(queue), B)
<1>1. Len(queue) \in Nat
  BY DEF GateTypeOK
<1>2. PICK g : /\ g[0] = freed
               /\ \A i \in 1..Len(queue) : g[i] = DrainOne(g[i - 1], queue[i])
               /\ Drain(freed) = g[Len(queue)]
  BY <1>1, DrainRuns
<1> DEFINE Broken == {i \in 0..Len(queue) : ~DrainedTo(g[i], i, B)}
<1>3. Broken = {}
  <2> SUFFICES ASSUME Broken # {} PROVE FALSE
    OBVIOUS
  <2>1. PICK n \in Broken : \A m \in Broken : n <= m
    <3>1. Broken \in SUBSET Nat
      BY <1>1
    <3> QED  BY <3>1, LeastNumber
  <2>2. n # 0
    BY <1>2, <2>1
  <2>3. /\ n - 1 \in Nat /\ n - 1 < Len(queue) /\ (n - 1) + 1 = n
        /\ n \in 1..Len(queue) /\ n - 1 \notin Broken /\ n - 1 \in 0..Len(queue)
    BY <1>1, <2>1, <2>2
  <2>4. DrainedTo(g[n - 1], n - 1, B)
    BY <2>3
  <2>5. DrainedTo(DrainOne(g[n - 1], queue[n]), n, B)
    BY <2>3, <2>4, DrainRound
  <2> QED  BY <1>2, <2>1, <2>3, <2>5
<1>4. Len(queue) \in 0..Len(queue)
  BY <1>1
<1> QED  BY <1>2, <1>3, <1>4

\* What a release does, by the lemma above: its caller is out, a drain's admissions
\* are in, and the rest waits on.
LEMMA Released ==
    ASSUME GateInv, NEW c \in Callers, Release(c)
    PROVE  \E g : /\ DrainedTo(g, Len(queue), Holders \ {c})
                  /\ active' = g.active /\ activeByKey' = g.byKey
                  /\ queue' = g.waiting
                  /\ gate' = [d \in Callers |->
                                IF d = c THEN "out"
                                ELSE IF d \in g.admitted THEN "in" ELSE gate[d]]
                  /\ Holders' = (Holders \ {c}) \cup g.admitted
<1> DEFINE old == [active |-> active, byKey |-> activeByKey]
           freed == [active |-> active - 1,
                     byKey |-> [activeByKey EXCEPT ![KeyOf[c]] = @ - 1],
                     admitted |-> {},
                     waiting |-> <<>>]
           B == Holders \ {c}
<1>1. /\ c \in Holders /\ Holders \in SUBSET Callers
      /\ ToSet(queue) \cap Holders = {} /\ ToSet(queue) \subseteq Callers
  BY DEF GateInv, GateTypeOK, Release, Holders
<1>2. Counts(old, Holders)
  BY DEF GateInv, SlotsCounted, Counts, HasKey
<1>3. Counts(freed, B) /\ active > 0 /\ activeByKey[KeyOf[c]] > 0
  <2>1. old.byKey \in [GateKeys -> Nat]
    BY DEF GateInv, GateTypeOK
  <2>2. /\ Counts(freed, Holders \ {c})
        /\ old.active > 0 /\ old.byKey[KeyOf[c]] > 0
    <3>1. /\ freed.active = old.active - 1
          /\ freed.byKey = [old.byKey EXCEPT ![KeyOf[c]] = @ - 1]
      OBVIOUS
    <3> HIDE DEF old, freed
    <3> QED  BY <1>1, <1>2, <2>1, <3>1, CountsRemove
  <2> QED  BY <2>2
<1>4. DrainedTo(freed, 0, B)
  <2>1. freed \in DrainState
    <3>1. active - 1 \in 0..Concurrency
      BY <1>3, GateAssumption DEF GateInv, GateTypeOK
    <3>2. [activeByKey EXCEPT ![KeyOf[c]] = @ - 1] \in [GateKeys -> 0..PerKeyLimit]
      BY <1>3, GateAssumption DEF GateInv, GateTypeOK
    <3> QED  BY <3>1, <3>2 DEF DrainState
  <2>2. B \cup freed.admitted = B
    OBVIOUS
  <2>3. /\ freed.admitted = {} /\ freed.waiting = <<>>
        /\ \A j : j \notin 1..0
    OBVIOUS
  <2>4. Len(<<>>) = 0 /\ DOMAIN <<>> = {} /\ ToSet(<<>>) = {} /\ IsInjective(<<>>)
    BY DEF ToSet, IsInjective
  <2> HIDE DEF freed, B
  <2> QED  BY <1>3, <2>1, <2>2, <2>3, <2>4 DEF DrainedTo
<1>5. DrainedTo(Drain(freed), Len(queue), B)
  <2>1. B \in SUBSET Callers /\ ToSet(queue) \cap B = {} /\ GateTypeOK
    BY <1>1 DEF GateInv
  <2> HIDE DEF freed, B
  <2> QED  BY <1>4, <2>1, Drained
<1> DEFINE g == Drain(freed)
<1>6. /\ active' = g.active /\ activeByKey' = g.byKey
      /\ queue' = g.waiting
      /\ gate' = [d \in Callers |->
                    IF d = c THEN "out"
                    ELSE IF d \in g.admitted THEN "in" ELSE gate[d]]
  BY DEF Release
<1> HIDE DEF g, freed
<1>7. g.admitted \subseteq ToSet(queue)
  <2>1. \A j \in 1..Len(queue) : queue[j] \in ToSet(queue)
    BY DEF GateInv, GateTypeOK, ToSet
  <2> QED  BY <1>5, <2>1 DEF DrainedTo, g
<1>8. Holders' = B \cup g.admitted
  BY <1>1, <1>6, <1>7 DEF Holders
<1> QED  BY <1>5, <1>6, <1>8 DEF g

-----------------------------------------------------------------------------
(* The invariant *)

LEMMA GateStarts == GateInit => GateInv
<1> SUFFICES ASSUME GateInit PROVE GateInv
  OBVIOUS
<1>1. Holders = {} /\ \A k \in GateKeys : {c \in Holders : KeyOf[c] = k} = {}
  BY DEF GateInit, Holders
<1>2. IsFiniteSet(Holders) /\ SlotsCounted
  BY <1>1, FS_EmptySet DEF GateInit, SlotsCounted
<1>3. GateTypeOK
  BY GateAssumption DEF GateInit, GateTypeOK, IsInjective, ToSet
<1>4. NoIdleSlot
  BY DEF GateInit, NoIdleSlot
<1> QED  BY <1>2, <1>3, <1>4 DEF GateInv

LEMMA AdmitKeeps == ASSUME GateInv, NEW c \in Callers, Admit(c) PROVE GateInv'
<1> DEFINE old == [active |-> active, byKey |-> activeByKey]
           new == [active |-> active', byKey |-> activeByKey']
<1>1. /\ Holders \in SUBSET Callers /\ c \notin Holders /\ Holders' = Holders \cup {c}
      /\ KeyOf[c] \in GateKeys
  BY GateAssumption DEF GateInv, GateTypeOK, Admit, Holders
<1>2. Counts(new, Holders')
  <2>1. Counts(old, Holders) /\ old.byKey \in [GateKeys -> Nat]
    BY DEF GateInv, GateTypeOK, SlotsCounted, Counts, HasKey
  <2>2. /\ new.active = old.active + 1
        /\ new.byKey = [old.byKey EXCEPT ![KeyOf[c]] = @ + 1]
    BY DEF Admit
  <2> HIDE DEF old, new
  <2> QED  BY <1>1, <2>1, <2>2, CountsAdd
<1>3. IsFiniteSet(Holders') /\ SlotsCounted'
  BY <1>2 DEF Counts, SlotsCounted, HasKey
<1>4. GateTypeOK'
  <2>1. active' \in 0..Concurrency /\ activeByKey' \in [GateKeys -> 0..PerKeyLimit]
    BY <1>1, GateAssumption DEF GateInv, GateTypeOK, Admit, CanAdmit
  <2>2. gate' \in [Callers -> {"out", "queued", "in"}] /\ queue' = queue
    BY DEF GateInv, GateTypeOK, Admit
  <2>3. {d \in Callers : gate[d] = "queued"}' = {d \in Callers : gate[d] = "queued"}
    BY DEF GateInv, GateTypeOK, Admit
  <2> QED  BY <2>1, <2>2, <2>3 DEF GateInv, GateTypeOK
<1>5. NoIdleSlot'
  <2> SUFFICES ASSUME NEW i \in DOMAIN queue PROVE ~CanAdmit(KeyOf[queue[i]])'
    BY DEF NoIdleSlot, Admit
  <2>1. ~CanAdmit(KeyOf[queue[i]]) /\ KeyOf[queue[i]] \in GateKeys
    BY GateAssumption DEF GateInv, GateTypeOK, NoIdleSlot
  <2> QED  BY <1>1, <2>1, GateAssumption DEF GateInv, GateTypeOK, Admit, CanAdmit
<1> QED  BY <1>3, <1>4, <1>5 DEF GateInv

LEMMA WaitKeeps == ASSUME GateInv, NEW c \in Callers, Wait(c) PROVE GateInv'
<1>1. c \notin ToSet(queue) /\ queue \in Seq(Callers) /\ IsInjective(queue)
  BY DEF GateInv, GateTypeOK, Wait
<1>2. /\ queue' \in Seq(Callers) /\ Len(queue') = Len(queue) + 1
      /\ DOMAIN queue' = 1..(Len(queue) + 1)
      /\ \A i \in 1..Len(queue) : queue'[i] = queue[i]
      /\ queue'[Len(queue) + 1] = c
      /\ IsInjective(queue')
      /\ ToSet(queue') = ToSet(queue) \cup {c}
  BY <1>1, AppendKeepsDistinct DEF Wait
<1>3. Holders' = Holders
  BY DEF GateInv, GateTypeOK, Wait, Holders
<1>4. IsFiniteSet(Holders') /\ SlotsCounted'
  BY <1>3 DEF GateInv, SlotsCounted, Wait
<1>5. GateTypeOK'
  <2>1. {d \in Callers : gate[d] = "queued"}' = ToSet(queue) \cup {c}
    BY DEF GateInv, GateTypeOK, Wait
  <2>2. Len(queue') <= MaxQueue
    BY <1>1, <1>2, GateAssumption DEF Wait
  <2>3. /\ active' \in 0..Concurrency /\ activeByKey' \in [GateKeys -> 0..PerKeyLimit]
        /\ gate' \in [Callers -> {"out", "queued", "in"}]
    BY DEF GateInv, GateTypeOK, Wait
  <2> QED  BY <1>2, <2>1, <2>2, <2>3 DEF GateTypeOK
<1>6. NoIdleSlot'
  <2> SUFFICES ASSUME NEW i \in DOMAIN queue' PROVE ~CanAdmit(KeyOf[queue'[i]])
    BY DEF NoIdleSlot, Wait, CanAdmit
  <2>1. i \in 1..Len(queue) \/ i = Len(queue) + 1
    BY <1>1, <1>2
  <2>2. CASE i \in 1..Len(queue)
    BY <1>1, <1>2, <2>2 DEF GateInv, NoIdleSlot
  <2>3. CASE i = Len(queue) + 1
    BY <1>2, <2>3 DEF Wait
  <2> QED  BY <2>1, <2>2, <2>3
<1> QED  BY <1>4, <1>5, <1>6 DEF GateInv

LEMMA RejectKeeps == ASSUME GateInv, NEW c \in Callers, Reject(c) PROVE GateInv'
<1>1. PICK i \in 1..Len(queue) : queue[i] = c /\ queue' = RemoveAt(queue, i)
  BY DEF GateInv, GateTypeOK, Reject
<1>2. /\ queue \in Seq(Callers) /\ Len(queue) \in Nat /\ DOMAIN queue = 1..Len(queue)
      /\ \A j, h \in 1..Len(queue) : queue[j] = queue[h] => j = h
  BY DEF GateInv, GateTypeOK, IsInjective
<1>3. /\ queue' \in Seq(Callers) /\ Len(queue') = Len(queue) - 1
      /\ \A j \in 1..(Len(queue) - 1) :
            queue'[j] = IF j < i THEN queue[j] ELSE queue[j + 1]
  BY <1>1, <1>2, RemovedAt
<1>4. DOMAIN queue' = 1..(Len(queue) - 1)
  BY <1>3
<1>5. \A j \in 1..(Len(queue) - 1) : j \in 1..Len(queue) /\ j + 1 \in 1..Len(queue)
  BY <1>2
<1>6. Holders' = Holders
  BY DEF GateInv, GateTypeOK, Reject, Holders
<1>7. IsFiniteSet(Holders') /\ SlotsCounted'
  BY <1>6 DEF GateInv, SlotsCounted, Reject
<1>8. GateTypeOK'
  <2>1. IsInjective(queue')
    <3> SUFFICES ASSUME NEW j \in 1..(Len(queue) - 1), NEW h \in 1..(Len(queue) - 1),
                        queue'[j] = queue'[h]
                 PROVE  j = h
      BY <1>4 DEF IsInjective
    <3>1. /\ queue'[j] = queue[IF j < i THEN j ELSE j + 1]
          /\ queue'[h] = queue[IF h < i THEN h ELSE h + 1]
      BY <1>3
    <3>2. (IF j < i THEN j ELSE j + 1) = (IF h < i THEN h ELSE h + 1)
      BY <1>2, <1>5, <3>1
    <3> QED  BY <1>2, <3>2
  <2>2. ToSet(queue') = ToSet(queue) \ {c}
    <3>1. ASSUME NEW j \in 1..(Len(queue) - 1)
          PROVE queue'[j] \in ToSet(queue) /\ queue'[j] # c
      <4>1. queue'[j] = queue[IF j < i THEN j ELSE j + 1]
        BY <1>3
      <4>2. (IF j < i THEN j ELSE j + 1) \in 1..Len(queue)
        BY <1>5
      <4>3. (IF j < i THEN j ELSE j + 1) # i
        BY <1>2
      <4> QED  BY <1>1, <1>2, <4>1, <4>2, <4>3 DEF ToSet
    <3>2. ASSUME NEW j \in 1..Len(queue), j # i
          PROVE \E h \in 1..(Len(queue) - 1) : queue'[h] = queue[j]
      <4>1. CASE j < i
        <5>1. j \in 1..(Len(queue) - 1)
          BY <1>2, <4>1
        <5> QED  BY <1>3, <4>1, <5>1
      <4>2. CASE ~(j < i)
        <5>1. j - 1 \in 1..(Len(queue) - 1) /\ ~(j - 1 < i) /\ (j - 1) + 1 = j
          BY <1>2, <3>2, <4>2
        <5> QED  BY <1>3, <5>1
      <4> QED  BY <4>1, <4>2
    <3>3. ToSet(queue) = {queue[j] : j \in 1..Len(queue)}
      BY <1>2 DEF ToSet
    <3>4. ToSet(queue') = {queue'[j] : j \in 1..(Len(queue) - 1)}
      BY <1>4 DEF ToSet
    <3>5. ToSet(queue') \subseteq ToSet(queue) \ {c}
      BY <3>1, <3>4
    <3>6. ToSet(queue) \ {c} \subseteq ToSet(queue')
      BY <1>1, <3>2, <3>3, <3>4
    <3> QED  BY <3>5, <3>6
  <2>3. {d \in Callers : gate[d] = "queued"}' = {d \in Callers : gate[d] = "queued"} \ {c}
    BY DEF GateInv, GateTypeOK, Reject
  <2>4. Len(queue') <= MaxQueue
    BY <1>2, <1>3, GateAssumption DEF GateInv, GateTypeOK
  <2>5. /\ active' \in 0..Concurrency /\ activeByKey' \in [GateKeys -> 0..PerKeyLimit]
        /\ gate' \in [Callers -> {"out", "queued", "in"}]
    BY DEF GateInv, GateTypeOK, Reject
  <2> QED  BY <1>3, <2>1, <2>2, <2>3, <2>4, <2>5 DEF GateInv, GateTypeOK
<1>9. NoIdleSlot'
  <2> SUFFICES ASSUME NEW j \in 1..(Len(queue) - 1) PROVE ~CanAdmit(KeyOf[queue'[j]])
    BY <1>4 DEF NoIdleSlot, Reject, CanAdmit
  <2>1. \E h \in DOMAIN queue : queue'[j] = queue[h]
    BY <1>2, <1>3, <1>5
  <2> QED  BY <2>1 DEF GateInv, NoIdleSlot
<1> QED  BY <1>7, <1>8, <1>9 DEF GateInv

LEMMA ReleaseKeeps == ASSUME GateInv, NEW c \in Callers, Release(c) PROVE GateInv'
<1>1. PICK g : /\ DrainedTo(g, Len(queue), Holders \ {c})
               /\ active' = g.active /\ activeByKey' = g.byKey
               /\ queue' = g.waiting
               /\ gate' = [d \in Callers |->
                             IF d = c THEN "out"
                             ELSE IF d \in g.admitted THEN "in" ELSE gate[d]]
               /\ Holders' = (Holders \ {c}) \cup g.admitted
  BY Released
<1>2. g \in DrainState /\ Counts(g, Holders')
  BY <1>1 DEF DrainedTo
<1>3. IsFiniteSet(Holders') /\ SlotsCounted'
  BY <1>1, <1>2 DEF Counts, SlotsCounted, HasKey
<1>4. GateTypeOK'
  <2>1. ToSet(queue) = {queue[j] : j \in 1..Len(queue)}
    BY DEF GateInv, GateTypeOK, ToSet
  <2>2. ToSet(queue') = ToSet(queue) \ g.admitted
    BY <1>1, <2>1 DEF DrainedTo
  <2>3. {d \in Callers : gate[d] = "queued"}'
          = {d \in Callers : gate[d] = "queued"} \ g.admitted
    BY <1>1 DEF Release
  <2>4. Len(queue') <= MaxQueue
    <3>1. Len(queue) \in Nat /\ Len(queue) <= MaxQueue /\ Len(queue') \in Nat
      BY <1>1, <1>2 DEF GateInv, GateTypeOK, DrainState
    <3> QED  BY <1>1, <3>1, GateAssumption DEF DrainedTo
  <2>5. /\ active' \in 0..Concurrency /\ activeByKey' \in [GateKeys -> 0..PerKeyLimit]
        /\ queue' \in Seq(Callers) /\ IsInjective(queue')
    BY <1>1, <1>2 DEF DrainState, DrainedTo
  <2>6. gate' \in [Callers -> {"out", "queued", "in"}]
    BY <1>1 DEF GateInv, GateTypeOK
  <2> QED  BY <2>2, <2>3, <2>4, <2>5, <2>6 DEF GateInv, GateTypeOK
<1>5. NoIdleSlot'
  BY <1>1 DEF DrainedTo, Blocked, NoIdleSlot, CanAdmit
<1> QED  BY <1>3, <1>4, <1>5 DEF GateInv

LEMMA GateKept == GateInv /\ [GateNext]_gateVars => GateInv'
<1> SUFFICES ASSUME GateInv, [GateNext]_gateVars PROVE GateInv'
  OBVIOUS
<1>1. CASE UNCHANGED gateVars
  BY <1>1 DEF gateVars, GateInv, GateTypeOK, Holders, SlotsCounted, NoIdleSlot, CanAdmit
<1>2. CASE GateNext
  BY <1>2, AdmitKeeps, WaitKeeps, RejectKeeps, ReleaseKeeps DEF GateNext
<1> QED  BY <1>1, <1>2

-----------------------------------------------------------------------------
(* Theorems *)

\* GateTypeOK: the limits are kept, and the queue holds each waiting caller once.
THEOREM GateTypesHold == GateSpec => []GateTypeOK
<1>1. GateInv => GateTypeOK
  BY DEF GateInv
<1> QED  BY <1>1, GateStarts, GateKept, PTL DEF GateSpec

\* SlotsCounted: no slot leaks or is given twice.
THEOREM SlotsAlwaysCounted == GateSpec => []SlotsCounted
<1>1. GateInv => SlotsCounted
  BY DEF GateInv
<1> QED  BY <1>1, GateStarts, GateKept, PTL DEF GateSpec

\* NoIdleSlot: nobody waits beside a slot that is free to it.
THEOREM NeverAnIdleSlot == GateSpec => []NoIdleSlot
<1>1. GateInv => NoIdleSlot
  BY DEF GateInv
<1> QED  BY <1>1, GateStarts, GateKept, PTL DEF GateSpec

\* What NoOvertaking says of one step.
LEMMA NobodyPassed ==
    ASSUME GateInv, [GateNext]_gateVars,
           NEW c \in Callers, gate[c] # "in", gate'[c] = "in",
           NEW i \in DOMAIN queue, KeyOf[queue[i]] = KeyOf[c],
           \A h \in DOMAIN queue : queue[h] = c => i < h
    PROVE  gate'[queue[i]] # "queued"
<1>1. queue[i] \in Callers /\ Len(queue) \in Nat /\ DOMAIN queue = 1..Len(queue)
  BY DEF GateInv, GateTypeOK
<1>2. CASE UNCHANGED gateVars
  BY <1>2 DEF gateVars
<1>3. ASSUME NEW d \in Callers, Admit(d) PROVE gate'[queue[i]] # "queued"
  <2>1. d = c
    BY <1>3 DEF Admit, GateInv, GateTypeOK
  <2> QED  BY <1>3, <2>1 DEF Admit, GateInv, NoIdleSlot
<1>4. ASSUME NEW d \in Callers, Wait(d) \/ Reject(d) PROVE gate'[queue[i]] # "queued"
  BY <1>4 DEF Wait, Reject, GateInv, GateTypeOK
<1>5. ASSUME NEW d \in Callers, Release(d) PROVE gate'[queue[i]] # "queued"
  <2>1. PICK g : /\ DrainedTo(g, Len(queue), Holders \ {d})
                 /\ gate' = [e \in Callers |->
                               IF e = d THEN "out"
                               ELSE IF e \in g.admitted THEN "in" ELSE gate[e]]
    BY <1>5, Released
  <2>2. c \in g.admitted
    BY <2>1
  <2>3. PICK h \in 1..Len(queue) : queue[h] = c
    BY <2>1, <2>2 DEF DrainedTo
  <2>4. queue[i] \in g.admitted
    BY <1>1, <2>1, <2>2, <2>3 DEF DrainedTo
  <2> QED  BY <1>1, <2>1, <2>4
<1> QED  BY <1>2, <1>3, <1>4, <1>5 DEF GateNext

\* NoOvertaking: whoever gets in, by a free slot or by a drain, leaves no earlier
\* waiter of its key behind.
THEOREM NobodyOvertakes == GateSpec => NoOvertaking
<1>1. GateInv /\ [GateNext]_gateVars =>
        [\A c \in Callers : gate[c] # "in" /\ gate'[c] = "in" =>
           \A i \in DOMAIN queue :
              /\ KeyOf[queue[i]] = KeyOf[c]
              /\ \A h \in DOMAIN queue : queue[h] = c => i < h
              => gate'[queue[i]] # "queued"]_gateVars
  BY NobodyPassed
<1> QED  BY <1>1, GateStarts, GateKept, PTL DEF GateSpec, NoOvertaking

=============================================================================
