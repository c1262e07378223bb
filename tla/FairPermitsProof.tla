---------------------------- MODULE FairPermitsProof ----------------------------
(***************************************************************************)
(* Proofs about the two limiters, ConcurrencyGate and AiProviderLane, for  *)
(* any callers, permits, places and lanes: what each of them keeps right,  *)
(* and that both implement FairPermits.                                    *)
(***************************************************************************)
EXTENDS ConcurrencyGate, AiProviderLane, FiniteSetTheorems, TLAPS

-------------------------------------------------------------------------------
(* Queues.                                                                  *)

\* What a concatenation is.
LEMMA ConcatenationProperties ==
  ASSUME NEW S, NEW a \in Seq(S), NEW b \in Seq(S)
  PROVE  /\ a \o b \in Seq(S)
         /\ Len(a \o b) = Len(a) + Len(b)
         /\ \A j \in 1..Len(a) : (a \o b)[j] = a[j]
         /\ \A j \in 1..Len(b) : (a \o b)[Len(a) + j] = b[j]
OBVIOUS

\* Removing one element keeps the others, in their order.
LEMMA RemoveAtProperties ==
  ASSUME NEW S, NEW s \in Seq(S), NEW i \in 1..Len(s)
  PROVE  /\ RemoveAt(s, i) \in Seq(S)
         /\ Len(RemoveAt(s, i)) = Len(s) - 1
         /\ \A j \in 1..i - 1 : RemoveAt(s, i)[j] = s[j]
         /\ \A j \in i..Len(s) - 1 : RemoveAt(s, i)[j] = s[j + 1]
<1> DEFINE a == SubSeq(s, 1, i - 1)
           b == SubSeq(s, i + 1, Len(s))
<1>1. /\ a \in Seq(S) /\ Len(a) = i - 1
      /\ \A j \in 1..i - 1 : a[j] = s[j]
  OBVIOUS
<1>2. /\ b \in Seq(S) /\ Len(b) = Len(s) - i
      /\ \A j \in 1..Len(s) - i : b[j] = s[i + j]
  OBVIOUS
<1>3. RemoveAt(s, i) = a \o b
  BY DEF RemoveAt
<1> HIDE DEF a, b
<1>4. /\ a \o b \in Seq(S)
      /\ Len(a \o b) = Len(a) + Len(b)
      /\ \A j \in 1..Len(a) : (a \o b)[j] = a[j]
      /\ \A j \in 1..Len(b) : (a \o b)[Len(a) + j] = b[j]
  <2>1. a \in Seq(S) /\ b \in Seq(S)
    BY <1>1, <1>2
  <2>2. \A x, y \in Seq(S) :
          /\ x \o y \in Seq(S)
          /\ Len(x \o y) = Len(x) + Len(y)
          /\ \A j \in 1..Len(x) : (x \o y)[j] = x[j]
          /\ \A j \in 1..Len(y) : (x \o y)[Len(x) + j] = y[j]
    BY ConcatenationProperties
  <2> QED BY <2>1, <2>2
<1>5. Len(a) + Len(b) = Len(s) - 1
  BY <1>1, <1>2
<1>6. ASSUME NEW j \in i..Len(s) - 1
      PROVE  (a \o b)[j] = s[j + 1]
  <2> DEFINE k == j - (i - 1)
  <2>1. k \in 1..Len(b) /\ k \in 1..Len(s) - i /\ Len(a) + k = j /\ i + k = j + 1
    BY <1>1, <1>2
  <2> HIDE DEF k
  <2>2. (a \o b)[Len(a) + k] = b[k]
    BY <1>4, <2>1
  <2>3. b[k] = s[i + k]
    BY <1>2, <2>1
  <2> QED BY <2>1, <2>2, <2>3
<1>7. ASSUME NEW j \in 1..i - 1
      PROVE  (a \o b)[j] = s[j]
  BY <1>1, <1>4
<1> QED BY <1>3, <1>4, <1>5, <1>6, <1>7

\* q is the members of W, each of them once.
Lists(q, W) ==
  /\ q \in Seq(W)
  /\ \A i, j \in 1..Len(q) : q[i] = q[j] => i = j
  /\ \A t \in W : \E i \in 1..Len(q) : q[i] = t

\* What is listed is in W, and the list is empty when W is.
LEMMA ListedMembers ==
  ASSUME NEW q, NEW W, Lists(q, W)
  PROVE  /\ Len(q) \in Nat
         /\ \A i \in 1..Len(q) : q[i] \in W
         /\ \A S : W \subseteq S => q \in Seq(S)
         /\ ToSet(q) = W
         /\ q = <<>> <=> W = {}
<1>1. /\ q \in Seq(W) /\ Len(q) \in Nat /\ DOMAIN q = 1..Len(q)
      /\ \A i \in 1..Len(q) : q[i] \in W
  BY DEF Lists
<1>2. ASSUME NEW S, W \subseteq S PROVE q \in Seq(S)
  BY <1>1, <1>2
<1>3. ToSet(q) = W
  BY <1>1 DEF Lists, ToSet
<1>4. q = <<>> <=> W = {}
  BY <1>1 DEF Lists
<1>5. QED
  BY <1>1, <1>2, <1>3, <1>4

\* A newcomer is added to the list and to the set.
LEMMA ListsAppend ==
  ASSUME NEW q, NEW W, Lists(q, W), NEW t, t \notin W
  PROVE  Lists(Append(q, t), W \cup {t}) /\ Len(Append(q, t)) = Len(q) + 1
<1> DEFINE p == Append(q, t)
           V == W \cup {t}
<1>1. Len(q) \in Nat /\ q \in Seq(V) /\ t \in V /\ \A i \in 1..Len(q) : q[i] \in W
  BY ListedMembers
<1>2. /\ p \in Seq(V) /\ Len(p) = Len(q) + 1 /\ p[Len(q) + 1] = t
      /\ \A i \in 1..Len(q) : p[i] = q[i]
  BY <1>1
<1> HIDE DEF p
<1>3. \A i \in 1..Len(p) : i = Len(q) + 1 \/ i \in 1..Len(q)
  BY <1>1, <1>2
<1>4. \A i, j \in 1..Len(p) : p[i] = p[j] => i = j
  BY <1>1, <1>2, <1>3 DEF Lists
<1>5. ASSUME NEW u \in V PROVE \E i \in 1..Len(p) : p[i] = u
  <2>1. CASE u = t
    <3>1. Len(q) + 1 \in 1..Len(p)
      BY <1>1, <1>2
    <3>2. QED
      BY <1>2, <2>1, <3>1
  <2>2. CASE u \in W
    <3>1. PICK i \in 1..Len(q) : q[i] = u
      BY <2>2 DEF Lists
    <3>2. i \in 1..Len(p) /\ p[i] = u
      BY <1>1, <1>2, <3>1
    <3>3. QED
      BY <3>2
  <2>3. QED
    BY <2>1, <2>2
<1>6. QED
  BY <1>2, <1>4, <1>5 DEF Lists, p

\* Whoever leaves the list, from any place, leaves the set.
LEMMA ListsRemove ==
  ASSUME NEW q, NEW W, Lists(q, W), NEW k \in 1..Len(q)
  PROVE  /\ Lists(RemoveAt(q, k), W \ {q[k]})
         /\ Len(RemoveAt(q, k)) = Len(q) - 1
<1> DEFINE p == RemoveAt(q, k)
           V == W \ {q[k]}
           old(i) == IF i < k THEN i ELSE i + 1
<1>0. q \in Seq(W) /\ Len(q) \in Nat
  BY DEF Lists
<1>1. /\ p \in Seq(W) /\ Len(p) = Len(q) - 1
      /\ \A i \in 1..k - 1 : p[i] = q[i]
      /\ \A i \in k..Len(q) - 1 : p[i] = q[i + 1]
  BY <1>0, RemoveAtProperties
<1> HIDE DEF p
<1>2. \A i \in 1..Len(p) : p[i] = q[old(i)] /\ old(i) \in 1..Len(q) /\ old(i) # k
  BY <1>0, <1>1
<1>3. \A i, j \in 1..Len(p) : old(i) = old(j) => i = j
  BY <1>0, <1>1
<1>4. ASSUME NEW i \in 1..Len(q), i # k
      PROVE  \E j \in 1..Len(p) : old(j) = i
  <2>1. CASE i < k
    <3>1. i \in 1..Len(p) /\ old(i) = i
      BY <1>0, <1>1, <2>1
    <3>2. QED
      BY <3>1
  <2>2. CASE i > k
    <3>1. i - 1 \in 1..Len(p) /\ old(i - 1) = i
      BY <1>0, <1>1, <2>2
    <3>2. QED
      BY <3>1
  <2>3. QED
    BY <1>4, <2>1, <2>2
<1> HIDE DEF old
<1>5. ASSUME NEW i \in 1..Len(p) PROVE p[i] \in V
  <2>1. p[i] = q[old(i)] /\ old(i) \in 1..Len(q) /\ old(i) # k
    BY <1>2
  <2>2. q[old(i)] # q[k]
    BY <2>1 DEF Lists
  <2>3. q[old(i)] \in W
    BY <1>0, <2>1
  <2>4. QED
    BY <2>1, <2>2, <2>3
<1>6. p \in Seq(V)
  BY <1>1, <1>5
<1>7. ASSUME NEW i \in 1..Len(p), NEW j \in 1..Len(p), p[i] = p[j]
      PROVE  i = j
  <2>1. q[old(i)] = q[old(j)] /\ old(i) \in 1..Len(q) /\ old(j) \in 1..Len(q)
    BY <1>2, <1>7
  <2>2. old(i) = old(j)
    BY <2>1 DEF Lists
  <2>3. QED
    BY <1>3, <2>2
<1>8. ASSUME NEW u \in V PROVE \E j \in 1..Len(p) : p[j] = u
  <2>1. PICK i \in 1..Len(q) : q[i] = u
    BY DEF Lists
  <2>2. PICK j \in 1..Len(p) : old(j) = i
    BY <1>4, <2>1
  <2>3. QED
    BY <1>2, <2>1, <2>2
<1>9. QED
  BY <1>1, <1>6, <1>7, <1>8 DEF Lists, p

\* The first of the list is in the set, the others are the rest of it.
LEMMA ListsTail ==
  ASSUME NEW q, NEW W, Lists(q, W), q # <<>>
  PROVE  /\ Head(q) \in W /\ Lists(Tail(q), W \ {Head(q)})
         /\ Len(Tail(q)) = Len(q) - 1
<1> DEFINE p == Tail(q)
           V == W \ {Head(q)}
<1>1. /\ q \in Seq(W) /\ Len(q) \in Nat /\ Len(q) >= 1 /\ 1 \in 1..Len(q)
      /\ Head(q) = q[1] /\ Head(q) \in W
  BY DEF Lists
<1>2. /\ p \in Seq(W) /\ Len(p) = Len(q) - 1
      /\ \A i \in 1..Len(p) : p[i] = q[i + 1] /\ i + 1 \in 1..Len(q) /\ i + 1 # 1
  BY <1>1
<1> HIDE DEF p
<1>3. ASSUME NEW i \in 1..Len(p) PROVE p[i] \in V
  <2>1. p[i] = q[i + 1] /\ i + 1 \in 1..Len(q) /\ i + 1 # 1
    BY <1>2
  <2>2. q[i + 1] # q[1]
    BY <1>1, <2>1 DEF Lists
  <2>3. q[i + 1] \in W
    BY <1>1, <2>1
  <2>4. QED
    BY <1>1, <2>1, <2>2, <2>3
<1>4. p \in Seq(V)
  BY <1>2, <1>3
<1>5. ASSUME NEW i \in 1..Len(p), NEW j \in 1..Len(p), p[i] = p[j]
      PROVE  i = j
  <2>1. q[i + 1] = q[j + 1] /\ i + 1 \in 1..Len(q) /\ j + 1 \in 1..Len(q)
    BY <1>2, <1>5
  <2>2. i + 1 = j + 1
    BY <2>1 DEF Lists
  <2>3. QED
    BY <1>2, <2>2
<1>6. ASSUME NEW u \in V PROVE \E j \in 1..Len(p) : p[j] = u
  <2>1. PICK i \in 1..Len(q) : q[i] = u
    BY DEF Lists
  <2>2. i # 1 /\ i - 1 \in 1..Len(p) /\ (i - 1) + 1 = i
    BY <1>1, <1>2, <2>1
  <2>3. p[i - 1] = u
    BY <1>2, <2>1, <2>2
  <2>4. QED
    BY <2>2, <2>3
<1>7. QED
  BY <1>1, <1>2, <1>4, <1>5, <1>6 DEF Lists, p


\* a waits in q, and came before b.
Before(q, a, b) == \E i, j \in 1..Len(q) : i < j /\ q[i] = a /\ q[j] = b

\* While b waits, first in q and then in p, nobody gets ahead of it in the queue,
\* and only who is ahead of it joins the holders, who were H and are J.
KeepsOrder(q, p, H, J) ==
  \A a, b : b \in ToSet(q) \cap ToSet(p) =>
    /\ Before(p, a, b) => Before(q, a, b)
    /\ a \in J \ H => Before(q, a, b)

\* A newcomer is behind everybody.
LEMMA AppendKeepsOrder ==
  ASSUME NEW q, NEW W, Lists(q, W), NEW t, t \notin W, NEW H
  PROVE  KeepsOrder(q, Append(q, t), H, H)
<1>1. PICK p : p = Append(q, t)
  OBVIOUS
<1>2. /\ ToSet(q) = W /\ Len(q) \in Nat /\ q \in Seq(W \cup {t})
  BY ListedMembers
<1>3. /\ Len(p) = Len(q) + 1 /\ p[Len(q) + 1] = t
      /\ \A i \in 1..Len(q) : p[i] = q[i]
  BY <1>1, <1>2
<1>4. ASSUME NEW a, NEW b \in W, Before(p, a, b) PROVE Before(q, a, b)
  <2>1. PICK i, j \in 1..Len(p) : i < j /\ p[i] = a /\ p[j] = b
    BY <1>4 DEF Before
  <2>2. j # Len(q) + 1
    BY <1>3, <2>1
  <2>3. i \in 1..Len(q) /\ j \in 1..Len(q)
    BY <1>2, <1>3, <2>1, <2>2
  <2>4. q[i] = a /\ q[j] = b
    BY <1>3, <2>1, <2>3
  <2>5. QED
    BY <2>1, <2>3, <2>4 DEF Before
<1>5. QED
  BY <1>1, <1>2, <1>4 DEF KeepsOrder

\* Whoever leaves the queue, those who stay keep their order.
LEMMA RemoveKeepsOrder ==
  ASSUME NEW q, NEW W, Lists(q, W), NEW k \in 1..Len(q), NEW H
  PROVE  KeepsOrder(q, RemoveAt(q, k), H, H)
<1>1. PICK p : p = RemoveAt(q, k)
  OBVIOUS
<1>2. q \in Seq(W) /\ Len(q) \in Nat
  BY DEF Lists
<1>3. /\ Len(p) = Len(q) - 1
      /\ \A i \in 1..k - 1 : p[i] = q[i]
      /\ \A i \in k..Len(q) - 1 : p[i] = q[i + 1]
  BY <1>1, <1>2, RemoveAtProperties
<1> DEFINE old(i) == IF i < k THEN i ELSE i + 1
<1>4. \A i \in 1..Len(p) : p[i] = q[old(i)] /\ old(i) \in 1..Len(q)
  BY <1>2, <1>3
<1>5. \A i, j \in 1..Len(p) : i < j => old(i) < old(j)
  BY <1>2, <1>3
<1> HIDE DEF old
<1>6. ASSUME NEW a, NEW b, Before(p, a, b) PROVE Before(q, a, b)
  <2>1. PICK i, j \in 1..Len(p) : i < j /\ p[i] = a /\ p[j] = b
    BY <1>6 DEF Before
  <2>2. /\ old(i) \in 1..Len(q) /\ old(j) \in 1..Len(q) /\ old(i) < old(j)
        /\ q[old(i)] = a /\ q[old(j)] = b
    BY <1>4, <1>5, <2>1
  <2>3. QED
    BY <2>2 DEF Before
<1>7. QED
  BY <1>1, <1>6 DEF KeepsOrder

\* The first of the queue is before all others.
LEMMA TailKeepsOrder ==
  ASSUME NEW q, NEW W, Lists(q, W), q # <<>>, NEW H, NEW J, J \ H \subseteq {Head(q)}
  PROVE  KeepsOrder(q, Tail(q), H, J)
<1>1. PICK p, h : p = Tail(q) /\ h = Head(q)
  OBVIOUS
<1>2. /\ q \in Seq(W) /\ Len(q) \in Nat /\ 1 \in 1..Len(q) /\ h = q[1]
      /\ Len(p) \in Nat /\ Len(p) = Len(q) - 1
      /\ \A i \in 1..Len(p) : p[i] = q[i + 1] /\ i + 1 \in 1..Len(q) /\ 1 < i + 1
      /\ DOMAIN p = 1..Len(p)
  BY <1>1 DEF Lists
<1>3. ASSUME NEW a, NEW b, Before(p, a, b) PROVE Before(q, a, b)
  <2>1. PICK i, j \in 1..Len(p) : i < j /\ p[i] = a /\ p[j] = b
    BY <1>3 DEF Before
  <2>2. /\ i + 1 \in 1..Len(q) /\ j + 1 \in 1..Len(q) /\ i + 1 < j + 1
        /\ q[i + 1] = a /\ q[j + 1] = b
    BY <1>2, <2>1
  <2>3. QED
    BY <2>2 DEF Before
<1>4. ASSUME NEW b \in ToSet(p) PROVE Before(q, h, b)
  <2>1. PICK i \in 1..Len(p) : p[i] = b
    BY <1>2 DEF ToSet
  <2>2. i + 1 \in 1..Len(q) /\ 1 < i + 1 /\ q[i + 1] = b
    BY <1>2, <2>1
  <2>3. QED
    BY <1>2, <2>2 DEF Before
<1>5. QED
  BY <1>1, <1>3, <1>4 DEF KeepsOrder

-------------------------------------------------------------------------------
(* The gate: its inductive invariant.                                       *)

\* Those that the gate has told to wait.
Queued == {t \in Tasks : state[t] = "queued"}

\* The permits that are out are those of the holders.
Counted == IsFiniteSet(Holders) /\ running = Cardinality(Holders)

\* Nobody waits while a permit is free.
NoneKeptBack == queue # <<>> => running = Concurrency

Inv == TypeOK /\ Lists(queue, Queued) /\ Counted /\ NoneKeptBack

\* At the start nobody holds a permit and nobody waits.
LEMMA InitInv == Init => Inv
<1> SUFFICES ASSUME Init PROVE Inv
  OBVIOUS
<1>1. TypeOK
  BY GateAssumption DEF Init, TypeOK
<1>2. queue = <<>> /\ Queued = {}
  BY DEF Init, Queued
<1>3. Lists(queue, Queued)
  BY <1>2 DEF Lists
<1>4. Holders = {}
  BY DEF Init, Holders
<1>5. Counted
  BY <1>4, FS_EmptySet DEF Init, Counted
<1>6. QED
  BY <1>1, <1>3, <1>5 DEF Inv, NoneKeptBack, Init

\* The abstract gate counts, removes and lists as the gate does.
LEMMA SameCardinality == Permits!Cardinality(Holders) = Cardinality(Holders)
BY DEF Permits!Cardinality, Cardinality

\* A permit or a place in the queue: an Enter or a Join of the abstract gate.
LEMMA EnterGateStep ==
  ASSUME Inv, NEW t \in Tasks, state[t] = "idle", EnterGate(t),
         aborted' \subseteq Tasks, overdue' \subseteq Tasks
  PROVE  Inv' /\ (Permits!Enter(t) \/ Permits!Join(t))
<1>0. /\ TypeOK /\ Lists(queue, Queued) /\ Counted /\ NoneKeptBack
      /\ Concurrency \in Nat \ {0} /\ MaxQueue \in Nat /\ running \in Nat
  BY GateAssumption DEF Inv, TypeOK
<1>1. Permits!Free(t)
  <2>1. t \notin Holders /\ t \notin Queued
    BY DEF Holders, Queued
  <2>2. ToSet(queue) = Queued
    BY <1>0, ListedMembers
  <2>3. QED
    BY <2>1, <2>2 DEF Permits!Free, Permits!ToSet, ToSet
<1>2. CASE running < Concurrency
  <2>1. /\ queue = <<>> /\ UNCHANGED queue /\ running' = running + 1
        /\ state' = [state EXCEPT ![t] = "running"]
    BY <1>0, <1>2 DEF EnterGate, NoneKeptBack
  <2>2. t \notin Holders /\ Holders' = Holders \cup {t} /\ Queued' = Queued
    BY <1>0, <2>1 DEF Holders, Queued, TypeOK
  <2>3. IsFiniteSet(Holders') /\ Cardinality(Holders') = Cardinality(Holders) + 1
    BY <1>0, <2>2, FS_AddElement DEF Counted
  <2>4. TypeOK'
    BY <1>0, <1>2, <2>1 DEF TypeOK
  <2>5. Permits!Enter(t)
    BY <1>0, <1>1, <1>2, <2>1, <2>2, SameCardinality DEF Permits!Enter, Counted
  <2>6. QED
    BY <1>0, <2>1, <2>2, <2>3, <2>4, <2>5 DEF Inv, Counted, NoneKeptBack
<1>3. CASE ~(running < Concurrency)
  <2>1. /\ running = Concurrency /\ UNCHANGED running /\ Len(queue) < MaxQueue
        /\ queue' = Append(queue, t)
        /\ state' = [state EXCEPT ![t] = "queued"]
    BY <1>0, <1>3 DEF EnterGate, TypeOK
  <2>2. Holders' = Holders /\ Queued' = Queued \cup {t} /\ t \notin Queued
    BY <1>0, <2>1 DEF Holders, Queued, TypeOK
  <2>3. Lists(queue', Queued')
    BY <1>0, <2>1, <2>2, ListsAppend
  <2>4. TypeOK'
    BY <1>0, <2>1 DEF TypeOK
  <2>5. Permits!Join(t)
    BY <1>0, <1>1, <2>1, <2>2, SameCardinality DEF Permits!Join, Counted
  <2>6. QED
    BY <1>0, <2>1, <2>2, <2>3, <2>4, <2>5 DEF Inv, Counted, NoneKeptBack
<1>4. QED
  BY <1>2, <1>3

\* A permit given back: a Leave of the abstract gate.
LEMMA ReleaseStep ==
  ASSUME Inv, NEW t \in Tasks, t \in Holders, Release(t), UNCHANGED <<aborted, overdue>>
  PROVE  Inv' /\ Permits!Leave(t)
<1>0. /\ TypeOK /\ Lists(queue, Queued) /\ Counted /\ NoneKeptBack
      /\ Concurrency \in Nat \ {0} /\ MaxQueue \in Nat /\ running \in Nat
  BY GateAssumption DEF Inv, TypeOK
<1>1. /\ IsFiniteSet(Holders \ {t})
      /\ Cardinality(Holders \ {t}) = running - 1
      /\ running \in 1..Concurrency
  <2>1. IsFiniteSet(Holders \ {t}) /\ Cardinality(Holders \ {t}) = Cardinality(Holders) - 1
    BY <1>0, FS_RemoveElement DEF Counted
  <2>2. Cardinality(Holders \ {t}) \in Nat
    BY <2>1, FS_CardinalityType
  <2>3. QED
    BY <1>0, <2>1, <2>2 DEF Counted, TypeOK
<1>2. CASE queue = <<>>
  <2>1. /\ running' = running - 1 /\ UNCHANGED queue
        /\ state' = [state EXCEPT ![t] = "idle"]
    BY <1>2 DEF Release
  <2>2. Holders' = Holders \ {t} /\ Queued' = Queued
    BY <1>0, <2>1 DEF Holders, Queued, TypeOK
  <2>3. TypeOK'
    BY <1>0, <1>1, <2>1 DEF TypeOK
  <2>4. Permits!Leave(t)
    BY <1>2, <2>1, <2>2 DEF Permits!Leave
  <2>5. QED
    BY <1>0, <1>1, <1>2, <2>1, <2>2, <2>3, <2>4 DEF Inv, Counted, NoneKeptBack
<1>3. CASE queue # <<>>
  <2>1. PICK h : h = Head(queue)
    OBVIOUS
  <2>2. /\ UNCHANGED running /\ queue' = Tail(queue)
        /\ state' = [state EXCEPT ![t] = "idle", ![h] = "handed"]
    BY <1>3, <2>1 DEF Release
  <2>3. /\ h \in Queued /\ Lists(queue', Queued \ {h})
        /\ Len(queue') = Len(queue) - 1
    BY <1>0, <1>3, <2>1, <2>2, ListsTail
  <2>4. h \in Tasks /\ h # t /\ h \notin Holders
    BY <2>3 DEF Queued, Holders
  <2>5. \A u \in Tasks : state'[u] = IF u = h THEN "handed"
                                     ELSE IF u = t THEN "idle" ELSE state[u]
    BY <1>0, <2>2, <2>4 DEF TypeOK
  <2>6. Holders' = (Holders \ {t}) \cup {h} /\ Queued' = Queued \ {h}
    BY <2>4, <2>5 DEF Holders, Queued
  <2>7. IsFiniteSet(Holders') /\ Cardinality(Holders') = running
    BY <1>0, <1>1, <2>4, <2>6, FS_AddElement
  <2>8. TypeOK'
    <3>1. queue' \in Seq(Tasks) /\ Len(queue') <= MaxQueue
      BY <1>0, <1>3, <2>2, <2>3 DEF TypeOK
    <3>2. QED
      BY <1>0, <2>2, <2>4, <3>1 DEF TypeOK
  <2>9. Permits!Leave(t)
    BY <1>3, <2>1, <2>2, <2>6 DEF Permits!Leave
  <2>10. QED
    BY <1>0, <1>3, <2>2, <2>3, <2>6, <2>7, <2>8, <2>9 DEF Inv, Counted, NoneKeptBack
<1>4. QED
  BY <1>2, <1>3

\* A waiter that leaves the queue: a GiveUp of the abstract gate.
LEMMA WithdrawStep ==
  ASSUME Inv, NEW t \in Tasks, state[t] = "queued", Withdraw(t),
         aborted' \subseteq Tasks, overdue' \subseteq Tasks
  PROVE  Inv' /\ Permits!GiveUp(t)
<1>0. /\ TypeOK /\ Lists(queue, Queued) /\ Counted /\ NoneKeptBack
      /\ Concurrency \in Nat \ {0} /\ MaxQueue \in Nat /\ running \in Nat
  BY GateAssumption DEF Inv, TypeOK
<1>1. PICK k \in 1..Len(queue) : queue[k] = t /\ queue' = RemoveAt(queue, k)
  BY <1>0 DEF Withdraw, TypeOK
<1>2. /\ state' = [state EXCEPT ![t] = "idle"] /\ UNCHANGED running
  BY DEF Withdraw
<1>3. Lists(queue', Queued \ {t}) /\ Len(queue') = Len(queue) - 1
  BY <1>0, <1>1, ListsRemove
<1>4. Holders' = Holders /\ Queued' = Queued \ {t}
  BY <1>0, <1>2 DEF Holders, Queued, TypeOK
<1>5. TypeOK'
  <2>1. queue' \in Seq(Tasks)
    <3>1. Queued \ {t} \subseteq Tasks
      BY DEF Queued
    <3>2. QED
      BY <1>3, <3>1, ListedMembers
  <2>2. Len(queue') <= MaxQueue
    BY <1>0, <1>3 DEF TypeOK
  <2>3. QED
    BY <1>0, <1>2, <2>1, <2>2 DEF TypeOK
<1>6. NoneKeptBack'
  <2>1. queue # <<>>
    BY <1>0, <1>1 DEF TypeOK
  <2>2. QED
    BY <1>0, <1>2, <2>1 DEF NoneKeptBack
<1>7. Permits!GiveUp(t)
  <2>1. k \in DOMAIN queue
    BY <1>0, <1>1 DEF TypeOK
  <2>2. QED
    BY <1>1, <1>4, <2>1 DEF Permits!GiveUp, Permits!RemoveAt, RemoveAt
<1>8. QED
  BY <1>0, <1>2, <1>3, <1>4, <1>5, <1>6, <1>7 DEF Inv, Counted

\* Every step keeps the invariant, and is a step of the abstract gate or leaves
\* holders and queue alone.
LEMMA NextStep ==
  ASSUME Inv, [Next]_vars
  PROVE  Inv' /\ [Permits!Next]_<<Holders, queue>>
<1>0. TypeOK
  BY DEF Inv
<1>1. CASE UNCHANGED vars
  BY <1>1 DEF Inv, TypeOK, Queued, Counted, NoneKeptBack, Holders, vars
<1>2. ASSUME NEW t \in Tasks, Call(t)
      PROVE  Inv' /\ Permits!Next
  <2>1. state[t] = "idle" /\ EnterGate(t) /\ aborted' \subseteq Tasks /\ overdue' \subseteq Tasks
    BY <1>0, <1>2 DEF Call, TypeOK
  <2>2. QED
    BY <2>1, EnterGateStep DEF Permits!Next
<1>3. ASSUME NEW t \in Tasks, state[t] = "queued", Withdraw(t),
             aborted' \subseteq Tasks, overdue' \subseteq Tasks
      PROVE  Inv' /\ Permits!Next
  BY <1>3, WithdrawStep DEF Permits!Next
<1>4. ASSUME NEW t \in Tasks, t \in Holders, Release(t), UNCHANGED <<aborted, overdue>>
      PROVE  Inv' /\ Permits!Next
  BY <1>4, ReleaseStep DEF Permits!Next
<1>5. ASSUME UNCHANGED <<running, queue, state>>,
             aborted' \subseteq Tasks, overdue' \subseteq Tasks
      PROVE  Inv' /\ UNCHANGED <<Holders, queue>>
  BY <1>5 DEF Inv, TypeOK, Queued, Counted, NoneKeptBack, Holders
<1>6. ASSUME NEW t \in Tasks, Abort(t)
      PROVE  Inv' /\ [Permits!Next]_<<Holders, queue>>
  <2>1. aborted' \subseteq Tasks /\ overdue' \subseteq Tasks
    BY <1>0, <1>6 DEF Abort, TypeOK
  <2>2. \/ state[t] = "queued" /\ Withdraw(t)
        \/ UNCHANGED <<running, queue, state>>
    BY <1>6 DEF Abort
  <2>3. QED
    BY <1>3, <1>5, <2>1, <2>2
<1>7. ASSUME NEW t \in Tasks, QueueTimeout(t)
      PROVE  Inv' /\ [Permits!Next]_<<Holders, queue>>
  BY <1>0, <1>3, <1>7 DEF QueueTimeout, TypeOK
<1>8. ASSUME NEW t \in Tasks, DeadlinePasses(t)
      PROVE  Inv' /\ [Permits!Next]_<<Holders, queue>>
  BY <1>0, <1>5, <1>8 DEF DeadlinePasses, TypeOK
<1>9. ASSUME NEW t \in Tasks, Resume(t)
      PROVE  Inv' /\ [Permits!Next]_<<Holders, queue>>
  <2>1. state[t] = "handed" /\ t \in Holders /\ UNCHANGED <<aborted, overdue>>
    BY <1>9 DEF Resume, Holders
  <2>2. CASE t \in aborted \cup overdue
    BY <1>4, <1>9, <2>1, <2>2 DEF Resume
  <2>3. CASE t \notin aborted \cup overdue
    <3>1. /\ state' = [state EXCEPT ![t] = "running"]
          /\ UNCHANGED <<running, queue, aborted, overdue>>
      BY <1>9, <2>3 DEF Resume
    <3>2. Holders' = Holders /\ Queued' = Queued
      BY <1>0, <2>1, <3>1 DEF Holders, Queued, TypeOK
    <3>3. TypeOK'
      BY <1>0, <3>1 DEF TypeOK
    <3>4. QED
      BY <3>1, <3>2, <3>3 DEF Inv, Counted, NoneKeptBack
  <2>4. QED
    BY <2>2, <2>3
<1>10. ASSUME NEW t \in Tasks, TaskEnds(t)
       PROVE  Inv' /\ [Permits!Next]_<<Holders, queue>>
  <2>1. t \in Holders /\ Release(t) /\ UNCHANGED <<aborted, overdue>>
    BY <1>10 DEF TaskEnds, Holders
  <2>2. QED
    BY <1>4, <2>1
<1>11. QED
  BY <1>1, <1>2, <1>6, <1>7, <1>8, <1>9, <1>10 DEF Next

\* The gate never leaves its invariant.
LEMMA SpecInv == Spec => []Inv
<1>1. Inv /\ [Next]_vars => Inv'
  BY NextStep
<1>2. QED
  BY InitInv, <1>1, PTL DEF Spec

\* The queue never holds more than its places and the counter never exceeds the
\* permits.
THEOREM TypeCorrect == Spec => []TypeOK
<1>1. Inv => TypeOK
  BY DEF Inv
<1>2. QED
  BY SpecInv, <1>1, PTL

\* The counter of run is the number of callers that hold a permit, whatever the
\* order of aborts, timers, late deadlines and ends.
THEOREM NoPermitIsLost == Spec => []PermitsAreHeld
<1>1. Inv => PermitsAreHeld
  BY DEF Inv, Counted, PermitsAreHeld
<1>2. QED
  BY SpecInv, <1>1, PTL

\* The gate implements FairPermits: permits are granted in the order of arrival,
\* no more of them than there are, and none is kept back while somebody waits.
THEOREM GateIsFair == Spec => GrantsInOrder
<1>1. Init => Permits!Init
  BY DEF Init, Permits!Init, Holders
<1>2. Inv /\ [Next]_vars => [Permits!Next]_<<Holders, queue>>
  BY NextStep
<1>3. QED
  BY SpecInv, <1>1, <1>2, PTL DEF Spec, GrantsInOrder, Permits!Spec

\* First come, first served: while somebody waits, nobody who came later is put before
\* it or gets a permit, not even one that calls when a permit has just come free.
THEOREM NobodyIsOvertaken == Spec => [][KeepsOrder(queue, queue', Holders, Holders')]_vars
<1>1. ASSUME Inv, [Next]_vars PROVE KeepsOrder(queue, queue', Holders, Holders')
  <2>1. Lists(queue, Queued) /\ [Permits!Next]_<<Holders, queue>>
    BY <1>1, NextStep DEF Inv
  <2>2. CASE UNCHANGED <<Holders, queue>>
    BY <2>2 DEF KeepsOrder
  <2>3. ASSUME NEW t \in Tasks, Permits!Enter(t)
        PROVE  KeepsOrder(queue, queue', Holders, Holders')
    <3>1. queue = <<>>
      BY <2>3 DEF Permits!Enter
    <3>2. QED
      BY <3>1 DEF KeepsOrder, ToSet
  <2>4. ASSUME NEW t \in Tasks, Permits!Join(t)
        PROVE  KeepsOrder(queue, queue', Holders, Holders')
    <3>1. /\ queue' = Append(queue, t) /\ Holders' = Holders
          /\ t \notin ToSet(queue)
      BY <2>4 DEF Permits!Join, Permits!Free, Permits!ToSet, ToSet
    <3>2. QED
      BY <2>1, <3>1, ListedMembers, AppendKeepsOrder
  <2>5. ASSUME NEW t \in Tasks, Permits!Leave(t)
        PROVE  KeepsOrder(queue, queue', Holders, Holders')
    <3>1. CASE queue = <<>>
      BY <3>1 DEF KeepsOrder, ToSet
    <3>2. CASE queue # <<>>
      <4>1. queue' = Tail(queue) /\ Holders' \ Holders \subseteq {Head(queue)}
        BY <2>5, <3>2 DEF Permits!Leave
      <4>2. QED
        BY <2>1, <3>2, <4>1, TailKeepsOrder
    <3>3. QED
      BY <3>1, <3>2
  <2>6. ASSUME NEW t \in Tasks, Permits!GiveUp(t)
        PROVE  KeepsOrder(queue, queue', Holders, Holders')
    <3>0. DOMAIN queue = 1..Len(queue)
      BY <2>1 DEF Lists
    <3>1. PICK k \in 1..Len(queue) : queue' = RemoveAt(queue, k)
      BY <2>6, <3>0 DEF Permits!GiveUp, Permits!RemoveAt, RemoveAt
    <3>2. Holders' = Holders
      BY <2>6 DEF Permits!GiveUp
    <3>3. QED
      BY <2>1, <3>1, <3>2, RemoveKeepsOrder
  <2>7. QED
    BY <2>1, <2>2, <2>3, <2>4, <2>5, <2>6 DEF Permits!Next
<1>2. Inv /\ [Next]_vars => [KeepsOrder(queue, queue', Holders, Holders')]_vars
  BY <1>1
<1>3. QED
  BY SpecInv, <1>2, PTL DEF Spec

-------------------------------------------------------------------------------
(* The lane: its inductive invariant.                                       *)

LaneWorking == {r \in Requests : AtWork(r)}
LaneWaiting == {r \in Requests : laneState[r] = "queued"}

\* Those that wait in the lane that is registered.
Line == IF registered = NoLane THEN <<>> ELSE laneQueue[registered]

\* The registered lane counts what is at work, and there is no work without one.
LaneCounted ==
  /\ IsFiniteSet(LaneWorking)
  /\ registered = NoLane => LaneWorking = {}
  /\ registered # NoLane => /\ active[registered] = Cardinality(LaneWorking)
                            /\ active[registered] > 0

\* Nobody waits while the lane has room.
LaneNoneKeptBack == Line # <<>> => active[registered] = MaxActive

\* A lane that is not registered is as good as new.
LanesUnused ==
  \A l \in Lanes : l # registered => active[l] = 0 /\ laneQueue[l] = <<>>

\* Whoever is not idle is in the registered lane.
LanesKnown ==
  \A r \in Requests : laneOf[r] = IF laneState[r] = "idle" THEN NoLane ELSE registered

LaneInv ==
  /\ LaneTypeOK /\ Lists(Line, LaneWaiting) /\ LaneCounted
  /\ LaneNoneKeptBack /\ LanesUnused /\ LanesKnown

\* The abstract limiter of the lane counts, removes and lists as the lane does.
LEMMA LaneOperators ==
  /\ \A S : LanePermits!Cardinality(S) = Cardinality(S)
  /\ \A s, i : LanePermits!RemoveAt(s, i) = RemoveAt(s, i)
  /\ \A s : LanePermits!ToSet(s) = ToSet(s)
<1>1. \A S : LanePermits!Cardinality(S) = Cardinality(S)
  BY DEF LanePermits!Cardinality, Cardinality
<1>2. \A s, i : LanePermits!RemoveAt(s, i) = RemoveAt(s, i)
  BY DEF LanePermits!RemoveAt, RemoveAt
<1>3. \A s : LanePermits!ToSet(s) = ToSet(s)
  BY DEF LanePermits!ToSet, ToSet
<1>4. QED
  BY <1>1, <1>2, <1>3

\* The parts of the invariant, with the numbers it is about.
LEMMA LaneFacts ==
  ASSUME LaneInv
  PROVE  /\ MaxActive \in Nat \ {0} /\ NoLane \notin Lanes
         /\ registered \in Lanes \cup {NoLane}
         /\ active \in [Lanes -> 0..MaxActive]
         /\ laneQueue \in [Lanes -> Seq(Requests)]
         /\ laneState \in [Requests -> {"idle", "queued", "running", "streaming"}]
         /\ laneOf \in [Requests -> Lanes \cup {NoLane}]
         /\ Lists(Line, LaneWaiting) /\ Line \in Seq(Requests)
         /\ IsFiniteSet(LaneWorking) /\ Cardinality(LaneWorking) \in 0..MaxActive
         /\ Line # <<>> => registered \in Lanes /\ Cardinality(LaneWorking) = MaxActive
<1>1. /\ MaxActive \in Nat \ {0} /\ NoLane \notin Lanes
      /\ registered \in Lanes \cup {NoLane}
      /\ active \in [Lanes -> 0..MaxActive]
      /\ laneQueue \in [Lanes -> Seq(Requests)]
      /\ laneState \in [Requests -> {"idle", "queued", "running", "streaming"}]
      /\ laneOf \in [Requests -> Lanes \cup {NoLane}]
  BY LaneAssumption DEF LaneInv, LaneTypeOK
<1>2. Lists(Line, LaneWaiting) /\ IsFiniteSet(LaneWorking)
  BY DEF LaneInv, LaneCounted
<1>3. Line \in Seq(Requests)
  BY <1>1 DEF Line
<1>4. Cardinality(LaneWorking) \in 0..MaxActive
  BY <1>1, FS_EmptySet DEF LaneInv, LaneCounted
<1>5. Line # <<>> => registered \in Lanes /\ Cardinality(LaneWorking) = MaxActive
  BY <1>1 DEF LaneInv, LaneCounted, LaneNoneKeptBack, Line
<1>6. QED
  BY <1>1, <1>2, <1>3, <1>4, <1>5

\* A lane that has no room, or nobody waiting, starts nothing.
LEMMA DrainNone ==
  ASSUME MaxActive \in Nat, NEW l, NEW a \in 0..MaxActive, NEW q \in Seq(Requests),
         NEW st \in [Requests -> {"idle", "queued", "running", "streaming"}], NEW reg,
         Drain(l, a, q, st, reg),
         a = MaxActive \/ q = <<>>
  PROVE  /\ active' = [active EXCEPT ![l] = a]
         /\ laneQueue' = [laneQueue EXCEPT ![l] = q]
         /\ laneState' = st
         /\ registered' = IF reg = l /\ a = 0 THEN NoLane ELSE reg
<1>1. Room(a, q) = 0
  BY DEF Room, Lesser
<1>2. ToSet(SubSeq(q, 1, 0)) = {}
  BY DEF ToSet
<1>3. SubSeq(q, 1 + 0, Len(q)) = q /\ a + 0 = a
  OBVIOUS
<1>4. /\ active' = [active EXCEPT ![l] = a + 0]
      /\ laneQueue' = [laneQueue EXCEPT ![l] = SubSeq(q, 1 + 0, Len(q))]
      /\ laneState' = [r \in Requests |-> IF r \in ToSet(SubSeq(q, 1, 0)) THEN "running"
                                          ELSE st[r]]
      /\ registered' = IF reg = l /\ a + 0 = 0 THEN NoLane ELSE reg
  BY <1>1 DEF Drain
<1>5. laneState' = [r \in Requests |-> st[r]]
  BY <1>2, <1>4
<1>6. QED
  BY <1>3, <1>4, <1>5

\* A lane with room for one of those that wait starts the first of them.
LEMMA DrainOne ==
  ASSUME MaxActive \in Nat, NEW l, NEW a \in 0..MaxActive, NEW q \in Seq(Requests),
         NEW st \in [Requests -> {"idle", "queued", "running", "streaming"}], NEW reg,
         Drain(l, a, q, st, reg),
         a < MaxActive, q # <<>>, a + 1 = MaxActive \/ Len(q) = 1
  PROVE  /\ active' = [active EXCEPT ![l] = a + 1]
         /\ laneQueue' = [laneQueue EXCEPT ![l] = Tail(q)]
         /\ laneState' = [st EXCEPT ![Head(q)] = "running"]
         /\ registered' = reg
<1>0. Len(q) \in Nat /\ Len(q) >= 1 /\ Head(q) \in Requests /\ Head(q) = q[1]
  OBVIOUS
<1>1. Room(a, q) = 1 /\ a + 1 # 0
  <2>1. /\ a \in Nat /\ MaxActive - a \in Nat /\ MaxActive - a >= 1
        /\ a + 1 = MaxActive => MaxActive - a = 1
    OBVIOUS
  <2>2. CASE Len(q) = 1
    BY <2>1, <2>2 DEF Room, Lesser
  <2>3. CASE a + 1 = MaxActive
    <3>1. \A n \in Nat : n >= 1 => Lesser(1, n) = 1
      BY DEF Lesser
    <3>2. Room(a, q) = Lesser(1, Len(q))
      BY <2>1, <2>3 DEF Room
    <3>3. QED
      BY <1>0, <2>1, <3>1, <3>2
  <2>4. QED
    BY <2>1, <2>2, <2>3
<1>2. ToSet(SubSeq(q, 1, 1)) = {Head(q)}
  <2>1. /\ SubSeq(q, 1, 1) \in Seq(Requests) /\ Len(SubSeq(q, 1, 1)) = 1
        /\ SubSeq(q, 1, 1)[1] = q[1]
    BY <1>0
  <2>2. QED
    BY <1>0, <2>1 DEF ToSet
<1>3. SubSeq(q, 1 + 1, Len(q)) = Tail(q)
  BY <1>0
<1>4. /\ active' = [active EXCEPT ![l] = a + 1]
      /\ laneQueue' = [laneQueue EXCEPT ![l] = SubSeq(q, 1 + 1, Len(q))]
      /\ laneState' = [r \in Requests |-> IF r \in ToSet(SubSeq(q, 1, 1)) THEN "running"
                                          ELSE st[r]]
      /\ registered' = IF reg = l /\ a + 1 = 0 THEN NoLane ELSE reg
  BY <1>1 DEF Drain
<1>5. laneState' = [st EXCEPT ![Head(q)] = "running"]
  BY <1>0, <1>2, <1>4
<1>6. QED
  BY <1>1, <1>3, <1>4, <1>5

\* At the start there is no lane.
LEMMA LaneInitInv == ASSUME LaneInit PROVE LaneInv
<1>1. LaneTypeOK
  BY LaneAssumption DEF LaneInit, LaneTypeOK
<1>2. Line = <<>> /\ LaneWaiting = {} /\ LaneWorking = {}
  BY DEF LaneInit, Line, LaneWaiting, LaneWorking, AtWork
<1>3. Lists(Line, LaneWaiting)
  BY <1>2 DEF Lists
<1>4. LaneCounted
  BY <1>2, FS_EmptySet DEF LaneCounted, LaneInit
<1>5. LanesUnused /\ LanesKnown
  BY DEF LaneInit, LanesUnused, LanesKnown
<1>6. QED
  BY <1>1, <1>2, <1>3, <1>4, <1>5 DEF LaneInv, LaneNoneKeptBack

\* A request that finds room is at work at once, the others wait: an Enter or a
\* Join of the abstract limiter.
LEMMA LaneCallStep ==
  ASSUME LaneInv, NEW r \in Requests, NEW l \in Lanes, RunIsolated(r, l)
  PROVE  LaneInv' /\ [LanePermits!Next]_<<LaneWorking, Line>>
<1>0. /\ MaxActive \in Nat \ {0} /\ NoLane \notin Lanes
      /\ registered \in Lanes \cup {NoLane}
      /\ active \in [Lanes -> 0..MaxActive]
      /\ laneQueue \in [Lanes -> Seq(Requests)]
      /\ laneState \in [Requests -> {"idle", "queued", "running", "streaming"}]
      /\ laneOf \in [Requests -> Lanes \cup {NoLane}]
      /\ Lists(Line, LaneWaiting) /\ Line \in Seq(Requests)
      /\ IsFiniteSet(LaneWorking) /\ Cardinality(LaneWorking) \in 0..MaxActive
      /\ Line # <<>> => registered \in Lanes /\ Cardinality(LaneWorking) = MaxActive
  BY LaneFacts
<1>1. laneQueue[l] = Line /\ active[l] = Cardinality(LaneWorking) /\ registered \in {l, NoLane}
  <2>1. CASE registered = NoLane
    <3>1. Line = <<>> /\ LaneWorking = {} /\ laneQueue[l] = <<>> /\ active[l] = 0
      BY <1>0, <2>1 DEF LaneInv, LaneCounted, LanesUnused, Line
    <3>2. QED
      BY <2>1, <3>1, FS_EmptySet
  <2>2. CASE registered # NoLane
    BY <1>0, <2>2 DEF LaneInv, LaneCounted, Line, RunIsolated
  <2>3. QED
    BY <2>1, <2>2
<1>2. PICK a, q, st : /\ a = active[l] /\ q = Append(Line, r)
                      /\ st = [laneState EXCEPT ![r] = "queued"]
  OBVIOUS
<1>3. /\ laneState[r] = "idle" /\ Drain(l, a, q, st, l)
      /\ laneOf' = [laneOf EXCEPT ![r] = l]
  BY <1>1, <1>2 DEF RunIsolated
<1>4. /\ a \in 0..MaxActive /\ q \in Seq(Requests) /\ q # <<>>
      /\ st \in [Requests -> {"idle", "queued", "running", "streaming"}]
  BY <1>0, <1>2
<1>5. r \notin LaneWorking /\ r \notin LaneWaiting
  BY <1>3 DEF LaneWorking, LaneWaiting, AtWork
<1>6. LanePermits!Free(r)
  <2>1. ToSet(Line) = LaneWaiting
    BY <1>0, ListedMembers
  <2>2. QED
    BY <1>5, <2>1, LaneOperators DEF LanePermits!Free, LaneWorking, Line
<1>7. CASE a < MaxActive
  <2>1. Line = <<>>
    BY <1>0, <1>1, <1>2, <1>7
  <2>2. q = <<r>> /\ Len(q) = 1 /\ Head(q) = r /\ Tail(q) = <<>>
    BY <1>2, <2>1
  <2>3. /\ active' = [active EXCEPT ![l] = a + 1]
        /\ laneQueue' = [laneQueue EXCEPT ![l] = <<>>]
        /\ laneState' = [st EXCEPT ![r] = "running"]
        /\ registered' = l
    <3>1. /\ active' = [active EXCEPT ![l] = a + 1]
          /\ laneQueue' = [laneQueue EXCEPT ![l] = Tail(q)]
          /\ laneState' = [st EXCEPT ![Head(q)] = "running"]
          /\ registered' = l
      <4>1. MaxActive \in Nat /\ (a + 1 = MaxActive \/ Len(q) = 1)
        BY <1>0, <2>2
      <4>2. QED
        BY <1>3, <1>4, <1>7, <4>1, DrainOne
    <3>2. QED
      BY <2>2, <3>1
  <2>4. \A u \in Requests : laneState'[u] = IF u = r THEN "running" ELSE laneState[u]
    BY <1>0, <1>2, <2>3
  <2>5. LaneWorking' = LaneWorking \cup {r} /\ LaneWaiting' = LaneWaiting
    BY <1>3, <2>4 DEF LaneWorking, LaneWaiting, AtWork
  <2>6. Line' = <<>>
    BY <1>0, <2>3 DEF Line
  <2>7. LaneTypeOK'
    BY <1>0, <1>2, <1>3, <1>4, <1>7, <2>3 DEF LaneTypeOK
  <2>8. LaneCounted'
    <3>1. /\ IsFiniteSet(LaneWorking')
          /\ Cardinality(LaneWorking') = Cardinality(LaneWorking) + 1
      BY <1>0, <1>5, <2>5, FS_AddElement
    <3>2. active'[l] = Cardinality(LaneWorking) + 1
      BY <1>0, <1>1, <1>2, <2>3
    <3>3. QED
      BY <1>0, <2>3, <3>1, <3>2 DEF LaneCounted
  <2>9. LanesUnused' /\ LanesKnown'
    <3>1. LanesUnused'
      BY <1>0, <1>1, <2>3 DEF LaneInv, LanesUnused
    <3>2. LanesKnown'
      <4>1. ASSUME NEW u \in Requests
            PROVE  laneOf'[u] = IF laneState'[u] = "idle" THEN NoLane ELSE l
        <5>1. laneOf[u] = IF laneState[u] = "idle" THEN NoLane ELSE registered
          BY DEF LaneInv, LanesKnown
        <5>2. registered = NoLane => laneState[u] = "idle"
          BY <1>0, <2>1, <4>1 DEF LaneInv, LaneCounted, Lists, LaneWorking, LaneWaiting,
             AtWork
        <5>3. QED
          BY <1>0, <1>1, <1>3, <2>4, <5>1, <5>2
      <4>2. QED
        BY <2>3, <4>1 DEF LanesKnown
    <3>3. QED
      BY <3>1, <3>2
  <2>10. LanePermits!Enter(r)
    BY <1>1, <1>2, <1>6, <1>7, <2>1, <2>5, <2>6, LaneOperators
       DEF LanePermits!Enter, LaneWorking, Line
  <2>11. QED
    BY <1>0, <2>1, <2>5, <2>6, <2>7, <2>8, <2>9, <2>10
       DEF LaneInv, LaneNoneKeptBack, LanePermits!Next
<1>8. CASE ~(a < MaxActive)
  <2>1. a = MaxActive /\ registered = l /\ a # 0
    <3>1. a = MaxActive
      BY <1>0, <1>4, <1>8
    <3>2. registered # NoLane
      BY <1>0, <1>1, <1>2, <3>1, FS_EmptySet DEF LaneInv, LaneCounted
    <3>3. QED
      BY <1>0, <1>1, <3>1, <3>2
  <2>2. /\ active' = [active EXCEPT ![l] = a]
        /\ laneQueue' = [laneQueue EXCEPT ![l] = q]
        /\ laneState' = st
        /\ registered' = l
    BY <1>0, <1>3, <1>4, <2>1, DrainNone
  <2>3. \A u \in Requests : laneState'[u] = IF u = r THEN "queued" ELSE laneState[u]
    BY <1>0, <1>2, <2>2
  <2>4. LaneWorking' = LaneWorking /\ LaneWaiting' = LaneWaiting \cup {r}
    BY <1>3, <2>3 DEF LaneWorking, LaneWaiting, AtWork
  <2>5. Line' = q
    BY <1>0, <2>2 DEF Line
  <2>6. Lists(Line', LaneWaiting')
    BY <1>0, <1>2, <1>5, <2>4, <2>5, ListsAppend
  <2>7. LaneTypeOK'
    BY <1>0, <1>3, <1>4, <2>2 DEF LaneTypeOK
  <2>8. LaneCounted' /\ LaneNoneKeptBack' /\ active' = active
    <3>1. active' = active
      BY <1>0, <1>2, <2>2
    <3>2. /\ active[l] = MaxActive /\ Cardinality(LaneWorking) = MaxActive
          /\ registered' = l /\ MaxActive > 0 /\ l # NoLane
      BY <1>0, <1>1, <1>2, <2>1, <2>2
    <3>3. QED
      BY <1>0, <2>4, <3>1, <3>2 DEF LaneCounted, LaneNoneKeptBack
  <2>9. LanesUnused'
    BY <1>0, <2>1, <2>2, <2>8 DEF LaneInv, LanesUnused
  <2>10. LanesKnown'
    BY <1>0, <1>3, <2>1, <2>2, <2>3 DEF LaneInv, LanesKnown
  <2>11. LanePermits!Join(r)
    BY <1>1, <1>2, <1>6, <2>1, <2>4, <2>5, LaneOperators
       DEF LanePermits!Join, LaneWorking, Line
  <2>12. QED
    BY <2>6, <2>7, <2>8, <2>9, <2>10, <2>11 DEF LaneInv, LanePermits!Next
<1>9. QED
  BY <1>7, <1>8

\* A request that gives up its place: a GiveUp of the abstract limiter.
LEMMA LaneGiveUpStep ==
  ASSUME LaneInv, NEW r \in Requests, GiveUp(r)
  PROVE  LaneInv' /\ [LanePermits!Next]_<<LaneWorking, Line>>
<1>0. /\ MaxActive \in Nat \ {0} /\ NoLane \notin Lanes
      /\ registered \in Lanes \cup {NoLane}
      /\ active \in [Lanes -> 0..MaxActive]
      /\ laneQueue \in [Lanes -> Seq(Requests)]
      /\ laneState \in [Requests -> {"idle", "queued", "running", "streaming"}]
      /\ laneOf \in [Requests -> Lanes \cup {NoLane}]
      /\ Lists(Line, LaneWaiting) /\ Line \in Seq(Requests)
      /\ IsFiniteSet(LaneWorking) /\ Cardinality(LaneWorking) \in 0..MaxActive
      /\ Line # <<>> => registered \in Lanes /\ Cardinality(LaneWorking) = MaxActive
  BY LaneFacts
<1>1. laneState[r] = "queued" /\ r \in LaneWaiting /\ laneOf[r] = registered
  BY DEF GiveUp, LaneWaiting, LaneInv, LanesKnown
<1>2. /\ Line # <<>> /\ registered \in Lanes /\ Line = laneQueue[registered]
      /\ active[registered] = MaxActive /\ registered # NoLane
  <2>1. Line # <<>>
    BY <1>0, <1>1, ListedMembers
  <2>2. QED
    BY <1>0, <2>1 DEF Line, LaneInv, LaneNoneKeptBack
<1>3. PICK l : l = registered
  OBVIOUS
<1>4. PICK k \in 1..Len(Line) :
        /\ Line[k] = r
        /\ Drain(l, MaxActive, RemoveAt(Line, k), [laneState EXCEPT ![r] = "idle"], l)
  BY <1>0, <1>1, <1>2, <1>3 DEF GiveUp
<1>5. laneOf' = [laneOf EXCEPT ![r] = NoLane]
  BY DEF GiveUp
<1>6. /\ Lists(RemoveAt(Line, k), LaneWaiting \ {r})
      /\ RemoveAt(Line, k) \in Seq(Requests)
  <2>1. Lists(RemoveAt(Line, k), LaneWaiting \ {r})
    BY <1>0, <1>4, ListsRemove
  <2>2. LaneWaiting \ {r} \subseteq Requests
    BY DEF LaneWaiting
  <2>3. QED
    BY <2>1, <2>2, ListedMembers
<1>7. /\ active' = [active EXCEPT ![l] = MaxActive]
      /\ laneQueue' = [laneQueue EXCEPT ![l] = RemoveAt(Line, k)]
      /\ laneState' = [laneState EXCEPT ![r] = "idle"]
      /\ registered' = l
  <2>1. MaxActive \in Nat /\ MaxActive \in 0..MaxActive /\ MaxActive # 0
    BY <1>0
  <2>2. [laneState EXCEPT ![r] = "idle"] \in
          [Requests -> {"idle", "queued", "running", "streaming"}]
    BY <1>0
  <2>3. PICK q, st : q = RemoveAt(Line, k) /\ st = [laneState EXCEPT ![r] = "idle"]
    OBVIOUS
  <2>4. /\ q \in Seq(Requests) /\ Drain(l, MaxActive, q, st, l)
        /\ st \in [Requests -> {"idle", "queued", "running", "streaming"}]
    BY <1>4, <1>6, <2>2, <2>3
  <2>5. /\ active' = [active EXCEPT ![l] = MaxActive]
        /\ laneQueue' = [laneQueue EXCEPT ![l] = q]
        /\ laneState' = st
        /\ registered' = IF l = l /\ MaxActive = 0 THEN NoLane ELSE l
    BY <2>1, <2>4, DrainNone
  <2>6. QED
    BY <2>1, <2>3, <2>5
<1>8. active' = active /\ registered' = registered
  BY <1>0, <1>2, <1>3, <1>7
<1>9. \A u \in Requests : laneState'[u] = IF u = r THEN "idle" ELSE laneState[u]
  BY <1>0, <1>7
<1>10. LaneWorking' = LaneWorking /\ LaneWaiting' = LaneWaiting \ {r}
  BY <1>1, <1>9 DEF LaneWorking, LaneWaiting, AtWork
<1>11. Line' = RemoveAt(Line, k)
  BY <1>0, <1>2, <1>3, <1>7 DEF Line
<1>12. LaneTypeOK'
  BY <1>0, <1>2, <1>3, <1>5, <1>6, <1>7, <1>8 DEF LaneTypeOK
<1>13. LaneCounted' /\ LaneNoneKeptBack'
  BY <1>2, <1>8, <1>10 DEF LaneInv, LaneCounted, LaneNoneKeptBack
<1>14. LanesUnused' /\ LanesKnown'
  <2>1. LanesUnused'
    BY <1>0, <1>3, <1>7, <1>8 DEF LaneInv, LanesUnused
  <2>2. LanesKnown'
    BY <1>0, <1>5, <1>8, <1>9 DEF LaneInv, LanesKnown
  <2>3. QED
    BY <2>1, <2>2
<1>15. LanePermits!GiveUp(r)
  <2>1. k \in DOMAIN Line /\ Line[k] = r /\ Line' = RemoveAt(Line, k)
    BY <1>0, <1>4, <1>11
  <2>2. QED
    BY <1>10, <2>1, LaneOperators DEF LanePermits!GiveUp, LaneWorking, Line
<1>16. QED
  BY <1>6, <1>10, <1>11, <1>12, <1>13, <1>14, <1>15 DEF LaneInv, LanePermits!Next

\* A request that ends hands its place to the first that waits: a Leave of the
\* abstract limiter.
LEMMA LaneEndsStep ==
  ASSUME LaneInv, NEW r \in Requests, Ends(r)
  PROVE  LaneInv' /\ [LanePermits!Next]_<<LaneWorking, Line>>
<1>0. /\ MaxActive \in Nat \ {0} /\ NoLane \notin Lanes
      /\ registered \in Lanes \cup {NoLane}
      /\ active \in [Lanes -> 0..MaxActive]
      /\ laneQueue \in [Lanes -> Seq(Requests)]
      /\ laneState \in [Requests -> {"idle", "queued", "running", "streaming"}]
      /\ laneOf \in [Requests -> Lanes \cup {NoLane}]
      /\ Lists(Line, LaneWaiting) /\ Line \in Seq(Requests)
      /\ IsFiniteSet(LaneWorking) /\ Cardinality(LaneWorking) \in 0..MaxActive
      /\ Line # <<>> => registered \in Lanes /\ Cardinality(LaneWorking) = MaxActive
  BY LaneFacts
<1>1. r \in LaneWorking /\ laneOf[r] = registered
  BY DEF Ends, LaneWorking, AtWork, LaneInv, LanesKnown
<1>2. /\ registered \in Lanes /\ registered # NoLane /\ Line = laneQueue[registered]
      /\ active[registered] = Cardinality(LaneWorking)
      /\ Cardinality(LaneWorking) \in 1..MaxActive
  BY <1>0, <1>1 DEF LaneInv, LaneCounted, Line
<1>3. PICK l, a, st : /\ l = registered /\ a = Cardinality(LaneWorking) - 1
                      /\ st = [laneState EXCEPT ![r] = "idle"]
  OBVIOUS
<1>4. /\ a \in 0..MaxActive /\ a < MaxActive /\ MaxActive \in Nat
      /\ st \in [Requests -> {"idle", "queued", "running", "streaming"}]
      /\ Line # <<>> => a + 1 = MaxActive
  BY <1>0, <1>2, <1>3
<1>5. Drain(l, a, Line, st, l) /\ laneOf' = [laneOf EXCEPT ![r] = NoLane]
  <2>1. (IF active[registered] = 0 THEN 0 ELSE active[registered] - 1) = a
    BY <1>2, <1>3
  <2>2. QED
    BY <1>1, <1>2, <1>3, <2>1 DEF Ends
<1>6. IsFiniteSet(LaneWorking \ {r}) /\ Cardinality(LaneWorking \ {r}) = a
  BY <1>0, <1>1, <1>3, FS_RemoveElement
<1>7. LanesUnused /\ LanesKnown
  BY DEF LaneInv
<1>8. CASE Line = <<>>
  <2>1. /\ active' = [active EXCEPT ![l] = a]
        /\ laneQueue' = [laneQueue EXCEPT ![l] = <<>>]
        /\ laneState' = st
        /\ registered' = IF l = l /\ a = 0 THEN NoLane ELSE l
    BY <1>0, <1>4, <1>5, <1>8, DrainNone
  <2>2. \A u \in Requests : laneState'[u] = IF u = r THEN "idle" ELSE laneState[u]
    BY <1>0, <1>3, <2>1
  <2>3. LaneWorking' = LaneWorking \ {r} /\ LaneWaiting' = LaneWaiting
    BY <1>1, <2>2 DEF LaneWorking, LaneWaiting, AtWork
  <2>4. Line' = <<>>
    BY <1>0, <1>2, <1>3, <2>1 DEF Line
  <2>5. LaneTypeOK'
    BY <1>0, <1>2, <1>3, <1>4, <1>5, <2>1 DEF LaneTypeOK
  <2>6. LaneCounted'
    <3>1. a = 0 => LaneWorking' = {}
      BY <1>6, <2>3, FS_EmptySet
    <3>2. active'[l] = a
      BY <1>0, <1>2, <1>3, <2>1
    <3>3. QED
      BY <1>2, <1>3, <1>4, <1>6, <2>1, <2>3, <3>1, <3>2 DEF LaneCounted
  <2>7. LanesUnused'
    BY <1>0, <1>2, <1>3, <1>7, <2>1 DEF LanesUnused
  <2>8. LanesKnown'
    <3>1. ASSUME NEW u \in Requests
          PROVE  laneOf'[u] = IF laneState'[u] = "idle" THEN NoLane ELSE registered'
      <4>1. a = 0 /\ laneState[u] # "idle" => u = r
        <5>1. a = 0 => LaneWorking \ {r} = {}
          BY <1>6, FS_EmptySet
        <5>2. LaneWaiting = {}
          BY <1>0, <1>8, ListedMembers
        <5>3. QED
          BY <1>0, <5>1, <5>2 DEF LaneWorking, LaneWaiting, AtWork
      <4>2. laneOf[u] = IF laneState[u] = "idle" THEN NoLane ELSE registered
        BY <1>7 DEF LanesKnown
      <4>3. laneOf'[u] = IF u = r THEN NoLane ELSE laneOf[u]
        BY <1>0, <1>5
      <4>4. QED
        BY <1>3, <2>1, <2>2, <4>1, <4>2, <4>3
    <3>2. QED
      BY <3>1 DEF LanesKnown
  <2>9. LanePermits!Leave(r)
    BY <1>1, <1>8, <2>3, <2>4 DEF LanePermits!Leave, LaneWorking, Line
  <2>10. QED
    BY <1>0, <1>8, <2>3, <2>4, <2>5, <2>6, <2>7, <2>8, <2>9
       DEF LaneInv, LaneNoneKeptBack, LanePermits!Next
<1>9. CASE Line # <<>>
  <2>1. PICK h : h = Head(Line)
    OBVIOUS
  <2>2. /\ active' = [active EXCEPT ![l] = a + 1]
        /\ laneQueue' = [laneQueue EXCEPT ![l] = Tail(Line)]
        /\ laneState' = [st EXCEPT ![h] = "running"]
        /\ registered' = l
    <3>1. a + 1 = MaxActive /\ Line \in Seq(Requests)
      BY <1>0, <1>4, <1>9
    <3>2. /\ active' = [active EXCEPT ![l] = a + 1]
          /\ laneQueue' = [laneQueue EXCEPT ![l] = Tail(Line)]
          /\ laneState' = [st EXCEPT ![Head(Line)] = "running"]
          /\ registered' = l
      BY <1>4, <1>5, <1>9, <3>1, DrainOne
    <3>3. QED
      BY <2>1, <3>2
  <2>3. active' = active /\ registered' = registered
    BY <1>0, <1>2, <1>3, <2>2
  <2>4. h \in LaneWaiting /\ Lists(Tail(Line), LaneWaiting \ {h})
    BY <1>0, <1>9, <2>1, ListsTail
  <2>5. h \in Requests /\ h # r /\ h \notin LaneWorking /\ laneState[h] # "idle"
    BY <1>1, <2>4 DEF LaneWaiting, LaneWorking, AtWork
  <2>6. \A u \in Requests : laneState'[u] = IF u = h THEN "running"
                                         ELSE IF u = r THEN "idle" ELSE laneState[u]
    BY <1>0, <1>3, <2>2, <2>5
  <2>7. /\ LaneWorking' = (LaneWorking \ {r}) \cup {h}
        /\ LaneWaiting' = LaneWaiting \ {h}
    BY <1>1, <2>5, <2>6 DEF LaneWorking, LaneWaiting, AtWork
  <2>8. Line' = Tail(Line)
    BY <1>0, <1>2, <1>3, <2>2 DEF Line
  <2>9. IsFiniteSet(LaneWorking') /\ Cardinality(LaneWorking') = Cardinality(LaneWorking)
    <3>1. /\ IsFiniteSet(LaneWorking') /\ Cardinality(LaneWorking') = a + 1
      BY <1>6, <2>5, <2>7, FS_AddElement
    <3>2. QED
      BY <1>2, <1>3, <3>1
  <2>10. LaneTypeOK'
    <3>1. Tail(Line) \in Seq(Requests)
      BY <1>0, <1>9
    <3>2. QED
      BY <1>0, <1>2, <1>3, <1>4, <1>5, <2>2, <2>3, <2>5, <3>1 DEF LaneTypeOK
  <2>11. LaneCounted' /\ LaneNoneKeptBack'
    BY <1>0, <1>2, <1>9, <2>3, <2>9 DEF LaneCounted, LaneNoneKeptBack
  <2>12. LanesUnused'
    BY <1>0, <1>3, <1>7, <2>2, <2>3 DEF LanesUnused
  <2>13. LanesKnown'
    <3>1. ASSUME NEW u \in Requests
          PROVE  laneOf'[u] = IF laneState'[u] = "idle" THEN NoLane ELSE registered
      <4>1. laneOf'[u] = IF u = r THEN NoLane ELSE laneOf[u]
        BY <1>0, <1>5
      <4>2. QED
        BY <1>7, <2>5, <2>6, <4>1 DEF LanesKnown
    <3>2. QED
      BY <2>3, <3>1 DEF LanesKnown
  <2>14. LanePermits!Leave(r)
    BY <1>1, <1>9, <2>1, <2>7, <2>8 DEF LanePermits!Leave, LaneWorking, Line
  <2>15. QED
    BY <2>4, <2>7, <2>8, <2>10, <2>11, <2>12, <2>13, <2>14
       DEF LaneInv, LanePermits!Next
<1>10. QED
  BY <1>8, <1>9

\* A response leaves the request at work.
LEMMA LaneRespondsStep ==
  ASSUME LaneInv, NEW r \in Requests, Responds(r)
  PROVE  LaneInv' /\ UNCHANGED <<LaneWorking, Line>>
<1>1. /\ laneState[r] = "running" /\ laneState' = [laneState EXCEPT ![r] = "streaming"]
      /\ UNCHANGED <<registered, active, laneQueue, laneOf>>
  BY DEF Responds
<1>2. laneState \in [Requests -> {"idle", "queued", "running", "streaming"}]
  BY LaneFacts
<1>3. \A u \in Requests : laneState'[u] = IF u = r THEN "streaming" ELSE laneState[u]
  BY <1>1, <1>2
<1>4. LaneWorking' = LaneWorking /\ LaneWaiting' = LaneWaiting /\ Line' = Line
  BY <1>1, <1>3 DEF LaneWorking, LaneWaiting, AtWork, Line
<1>5. LaneTypeOK'
  BY <1>1, <1>2 DEF LaneInv, LaneTypeOK
<1>6. LanesKnown'
  BY <1>1, <1>3 DEF LaneInv, LanesKnown
<1>7. QED
  BY <1>1, <1>4, <1>5, <1>6 DEF LaneInv, LaneCounted, LaneNoneKeptBack, LanesUnused

\* Every step of a lane keeps the invariant, and is a step of the abstract limiter or
\* leaves what is seen of the lane alone.
LEMMA LaneNextStep ==
  ASSUME LaneInv, [LaneNext]_laneVars
  PROVE  LaneInv' /\ [LanePermits!Next]_<<LaneWorking, Line>>
<1>1. CASE UNCHANGED laneVars
  BY <1>1 DEF LaneInv, LaneTypeOK, LaneCounted, LaneNoneKeptBack, LanesUnused, LanesKnown,
     LaneWorking, LaneWaiting, AtWork, Line, laneVars
<1>2. CASE LaneNext
  <2>1. PICK r \in Requests :
          (\E l \in Lanes : RunIsolated(r, l)) \/ GiveUp(r) \/ Responds(r) \/ Ends(r)
    BY <1>2 DEF LaneNext
  <2>2. QED
    BY <2>1, LaneCallStep, LaneGiveUpStep, LaneRespondsStep, LaneEndsStep
<1>3. QED
  BY <1>1, <1>2

-------------------------------------------------------------------------------
\* The lanes never leave their invariant.
LEMMA LaneSpecInv == LaneSpec => []LaneInv
<1>1. LaneInit => LaneInv
  BY LaneInitInv
<1>2. LaneInv /\ [LaneNext]_laneVars => LaneInv'
  BY LaneNextStep
<1>3. QED
  BY <1>1, <1>2, PTL DEF LaneSpec

\* No lane counts more requests than the endpoint may work on, and queues hold
\* requests.
THEOREM LaneTypeCorrect == LaneSpec => []LaneTypeOK
<1>1. LaneInv => LaneTypeOK
  BY DEF LaneInv
<1>2. QED
  BY LaneSpecInv, <1>1, PTL

\* Whatever the order of calls, ends and requests that give up, a second lane object
\* is never made while the first one is in use, and the lane counts exactly the
\* requests at work, those included whose body is still open.
THEOREM OneLaneAtATime == LaneSpec => []OneLane
<1>1. LaneInv => OneLane
  BY DEF LaneInv, LaneCounted, LanesKnown, LaneWorking, OneLane
<1>2. QED
  BY LaneSpecInv, <1>1, PTL

\* The lane implements FairPermits, though it keeps a count and a list of its own
\* for each object and drops the object when nobody is left.
THEOREM LaneIsFair == LaneSpec => LaneGrantsInOrder
<1>1. LaneInit => LanePermits!Init
  BY DEF LaneInit, LanePermits!Init, AtWork
<1>2. LaneInv /\ [LaneNext]_laneVars => [LanePermits!Next]_<<LaneWorking, Line>>
  BY LaneNextStep
<1>3. QED
  BY LaneSpecInv, <1>1, <1>2, PTL
     DEF LaneSpec, LaneGrantsInOrder, LanePermits!Spec, LaneWorking, Line

\* The same of the lane: a request that comes when a place has just come free does
\* not get it while another waits.
THEOREM NobodyIsOvertakenInLane ==
  LaneSpec => [][KeepsOrder(Line, Line', LaneWorking, LaneWorking')]_laneVars
<1>1. ASSUME LaneInv, [LaneNext]_laneVars PROVE KeepsOrder(Line, Line', LaneWorking, LaneWorking')
  <2>1. Lists(Line, LaneWaiting) /\ [LanePermits!Next]_<<LaneWorking, Line>>
    BY <1>1, LaneNextStep DEF LaneInv
  <2>2. CASE UNCHANGED <<LaneWorking, Line>>
    BY <2>2 DEF KeepsOrder
  <2>3. ASSUME NEW t \in Requests, LanePermits!Enter(t)
        PROVE  KeepsOrder(Line, Line', LaneWorking, LaneWorking')
    <3>1. Line = <<>>
      BY <2>3 DEF LanePermits!Enter, LaneWorking, Line
    <3>2. QED
      BY <3>1 DEF KeepsOrder, ToSet
  <2>4. ASSUME NEW t \in Requests, LanePermits!Join(t)
        PROVE  KeepsOrder(Line, Line', LaneWorking, LaneWorking')
    <3>1. /\ Line' = Append(Line, t) /\ LaneWorking' = LaneWorking
          /\ t \notin ToSet(Line)
      BY <2>4 DEF LanePermits!Join, LanePermits!Free, LanePermits!ToSet, ToSet, LaneWorking, Line
    <3>2. QED
      BY <2>1, <3>1, ListedMembers, AppendKeepsOrder
  <2>5. ASSUME NEW t \in Requests, LanePermits!Leave(t)
        PROVE  KeepsOrder(Line, Line', LaneWorking, LaneWorking')
    <3>1. CASE Line = <<>>
      BY <3>1 DEF KeepsOrder, ToSet
    <3>2. CASE Line # <<>>
      <4>1. Line' = Tail(Line) /\ LaneWorking' \ LaneWorking \subseteq {Head(Line)}
        BY <2>5, <3>2 DEF LanePermits!Leave, LaneWorking, Line
      <4>2. QED
        BY <2>1, <3>2, <4>1, TailKeepsOrder
    <3>3. QED
      BY <3>1, <3>2
  <2>6. ASSUME NEW t \in Requests, LanePermits!GiveUp(t)
        PROVE  KeepsOrder(Line, Line', LaneWorking, LaneWorking')
    <3>0. DOMAIN Line = 1..Len(Line)
      BY <2>1 DEF Lists
    <3>1. PICK k \in 1..Len(Line) : Line' = RemoveAt(Line, k)
      BY <2>6, <3>0 DEF LanePermits!GiveUp, LanePermits!RemoveAt, RemoveAt, LaneWorking, Line
    <3>2. LaneWorking' = LaneWorking
      BY <2>6 DEF LanePermits!GiveUp, LaneWorking, Line
    <3>3. QED
      BY <2>1, <3>1, <3>2, RemoveKeepsOrder
  <2>7. QED
    BY <2>1, <2>2, <2>3, <2>4, <2>5, <2>6 DEF LanePermits!Next
<1>2. LaneInv /\ [LaneNext]_laneVars => [KeepsOrder(Line, Line', LaneWorking, LaneWorking')]_laneVars
  BY <1>1
<1>3. QED
  BY LaneSpecInv, <1>2, PTL DEF LaneSpec

===============================================================================
