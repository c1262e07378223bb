------------------------- MODULE AssistantPointsProof -------------------------
(***************************************************************************)
(* What holds of the ledger of any number of users, orders, questions and   *)
(* handlers, without a bound on its length.                                 *)
(*                                                                         *)
(* A step leaves the ledger alone, or books one entry or a batch of them:   *)
(* Booked lists the ways it can do so.  The actions are shown to be of one  *)
(* of these kinds once, and the invariants are shown to be kept by the      *)
(* kinds.                                                                   *)
(***************************************************************************)
EXTENDS AssistantPoints, SequenceTheorems, FiniteSetTheorems, TLAPS

\* Handlers know what they need of what they have read.
CallsKnow ==
  \A c \in Calls :
    /\ call[c].op = "refund" => call[c].spend \in Spends
    /\ call[c].op = "accept" => call[c].seen.accepted = "none"

-------------------------------------------------------------------------------
(* The ledger grows.                                                        *)

\* The entries s are added to the ledger.
Adds(s) ==
  /\ ledger' \in Seq(Entry)
  /\ Len(ledger') = Len(ledger) + Len(s)
  /\ \A i \in 1..Len(ledger) : ledger'[i] = ledger[i]
  /\ \A i \in 1..Len(s) : ledger'[Len(ledger) + i] = s[i]

LEMMA LedgerFacts ==
  ASSUME ledger \in Seq(Entry)
  PROVE  /\ Len(ledger) \in Nat /\ DOMAIN ledger = 1..Len(ledger)
         /\ \A i \in 1..Len(ledger) : ledger[i] \in Entry
BY LenProperties, ElementOfSeq

LEMMA ConcatAdds ==
  ASSUME ledger \in Seq(Entry), NEW s \in Seq(Entry), ledger' = ledger \o s
  PROVE  Adds(s)
<1>1. /\ Len(ledger) \in Nat /\ Len(s) \in Nat
  BY LenProperties
<1>2. /\ ledger' \in Seq(Entry) /\ Len(ledger') = Len(ledger) + Len(s)
      /\ \A i \in 1 .. Len(ledger) + Len(s) :
           ledger'[i] = IF i <= Len(ledger) THEN ledger[i] ELSE s[i - Len(ledger)]
  BY ConcatProperties
<1>3. ASSUME NEW i \in 1..Len(ledger) PROVE ledger'[i] = ledger[i]
  BY <1>1, <1>2
<1>4. ASSUME NEW i \in 1..Len(s) PROVE ledger'[Len(ledger) + i] = s[i]
  <2>1. Len(ledger) + i \in 1 .. Len(ledger) + Len(s) /\ ~(Len(ledger) + i <= Len(ledger))
    BY <1>1
  <2>2. (Len(ledger) + i) - Len(ledger) = i
    BY <1>1
  <2> QED BY <1>2, <2>1, <2>2
<1> QED BY <1>2, <1>3, <1>4 DEF Adds

LEMMA AppendAdds ==
  ASSUME ledger \in Seq(Entry), NEW e \in Entry, ledger' = Append(ledger, e)
  PROVE  Adds(<<e>>)
BY DEF Adds

LEMMA BookAdds ==
  ASSUME TypeOK, NEW u \in Users, NEW delta \in Int,
         NEW source \in {"sponsor_reward", "question_bounty_reward", "ai_usage",
                         "ai_metered", "ai_refund"},
         NEW ref \in Refs, Book(u, delta, source, ref)
  PROVE  /\ points' = [points EXCEPT ![u] = @ + delta]
         /\ points' \in [Users -> Int]
         /\ Adds(<<[user |-> u, delta |-> delta, after |-> points[u] + delta,
                    source |-> source, ref |-> ref]>>)
<1> DEFINE e == [user |-> u, delta |-> delta, after |-> points[u] + delta,
                 source |-> source, ref |-> ref]
<1>1. e \in Entry
  BY DEF Entry, TypeOK
<1>2. ledger' = Append(ledger, e) /\ ledger \in Seq(Entry)
  BY DEF Book, TypeOK
<1>3. Adds(<<e>>)
  <2> HIDE DEF e
  <2> QED BY <1>1, <1>2, AppendAdds
<1> QED BY <1>3 DEF Book, TypeOK

\* A sequence of a finite set names each of its elements once.
LEMMA SeqsOf ==
  ASSUME NEW S, IsFiniteSet(S), NEW s \in SetToSeqs(S)
  PROVE  /\ s \in Seq(S) /\ Len(s) \in Nat /\ Len(s) = Cardinality(S)
         /\ DOMAIN s = 1..Len(s)
         /\ \A i \in 1..Len(s) : s[i] \in S
         /\ \A i, j \in 1..Len(s) : s[i] = s[j] => i = j
         /\ \A x \in S : \E i \in 1..Len(s) : s[i] = x
<1> DEFINE D == 1..Cardinality(S)
<1>1. Cardinality(S) \in Nat
  BY FS_CardinalityType
<1>2. s \in [D -> S] /\ \A i, j \in D : s[i] = s[j] => i = j
  BY DEF SetToSeqs
<1>3. IsFiniteSet(D) /\ Cardinality(D) = Cardinality(S)
  BY <1>1, FS_Interval
<1>4. s \in Injection(D, S)
  BY <1>2 DEF Injection, IsInjective
<1>5. s \in Surjection(D, S)
  BY <1>3, <1>4, FS_Injection
<1>6. \A x \in S : \E i \in D : s[i] = x
  BY <1>5 DEF Surjection
<1>7. s \in Seq(S) /\ Len(s) = Cardinality(S) /\ DOMAIN s = D
  BY <1>1, <1>2, SeqDef
<1> QED BY <1>1, <1>2, <1>6, <1>7

-------------------------------------------------------------------------------
(* The ways to book.                                                        *)

OrdersKept ==
  \A o \in Orders : order'[o].user = order[o].user /\ order'[o].awarded = order[o].awarded

\* One entry.
One(u, delta, source, ref) ==
  /\ points' = [points EXCEPT ![u] = @ + delta]
  /\ Adds(<<[user |-> u, delta |-> delta, after |-> points[u] + delta,
             source |-> source, ref |-> ref]>>)

Quiet == UNCHANGED Ledger /\ OrdersKept

Granted(s, i) == [user |-> s[i], delta |-> 1, after |-> points[s[i]] + 1,
                  source |-> "admin_grant", ref |-> <<>>]

Granting(us, s) ==
  /\ s \in SetToSeqs(us)
  /\ points' = [u \in Users |-> IF u \in us THEN points[u] + 1 ELSE points[u]]
  /\ Adds([i \in 1..Len(s) |-> Granted(s, i)])
  /\ OrdersKept

Charging(u, source) ==
  /\ source = "ai_usage" => points[u] >= 1
  /\ One(u, -1, source, <<>>)
  /\ OrdersKept

Refunding(i) ==
  /\ Fits(ledger[i].user, "ai_refund", <<"point_ledger", i>>)
  /\ One(ledger[i].user, -ledger[i].delta, "ai_refund", <<"point_ledger", i>>)
  /\ OrdersKept

Awarding(o, n) ==
  /\ order[o].awarded = 0
  /\ Fits(order[o].user, "sponsor_reward", <<"sponsor_order", o>>)
  /\ One(order[o].user, n, "sponsor_reward", <<"sponsor_order", o>>)
  /\ order'[o].awarded = n
  /\ \A p \in Orders : /\ order'[p].user = order[p].user
                       /\ p # o => order'[p].awarded = order[p].awarded

Backfilling(os, s, n) ==
  /\ s \in SetToSeqs(os)
  /\ \A o \in os : /\ order[o].awarded = 0
                   /\ Fits(order[o].user, "sponsor_reward", <<"sponsor_order", o>>)
  /\ points' = [u \in Users |-> points[u] + n * Cardinality({o \in os : order[o].user = u})]
  /\ Adds([i \in 1..Len(s) |-> Backfilled(s, i, n)])
  /\ \A p \in Orders : /\ order'[p].user = order[p].user
                       /\ order'[p].awarded = IF p \in os THEN n ELSE order[p].awarded

Rewarding(q, u) ==
  /\ question[q].accepted = "none"
  /\ question'[q].accepted = u
  /\ Fits(u, "question_bounty_reward", <<"question_topic", q>>)
  /\ One(u, Reward, "question_bounty_reward", <<"question_topic", q>>)
  /\ OrdersKept

Booked ==
  \/ Quiet
  \/ \E us \in SUBSET Users : \E s \in SetToSeqs(us) : Granting(us, s)
  \/ \E u \in Users : Charging(u, "ai_usage") \/ Charging(u, "ai_metered")
  \/ \E i \in Spends : Refunding(i)
  \/ \E o \in Orders, n \in Nat \ {0} : Awarding(o, n)
  \/ \E os \in SUBSET Orders, n \in Nat \ {0} : \E s \in SetToSeqs(os) :
       Backfilling(os, s, n)
  \/ \E q \in Questions, u \in Users : Rewarding(q, u)

-------------------------------------------------------------------------------
(* What the steps do to the variables.                                      *)

LEMMA CallFacts ==
  ASSUME TypeOK, NEW c \in Calls
  PROVE  /\ call[c].op = "notify" => call[c].order \in Orders
         /\ call[c].op = "patch" =>
              call[c].order \in Orders /\ call[c].to \in {"pending", "paid", "closed"}
         /\ call[c].op = "backfill" => call[c].orders \in SUBSET Orders
         /\ call[c].op = "accept" => call[c].question \in Questions
         /\ call[c].op = "edit" =>
              call[c].question \in Questions /\ call[c].accepted \in Users \cup {"none"}
<1>1. call[c] \in Call
  BY DEF TypeOK
<1> QED BY <1>1 DEF Call, Idle

LEMMA BeginTyped ==
  ASSUME TypeOK, NEW c \in Calls, NEW op \in Call, Begin(c, op)
  PROVE  call' \in [Calls -> Call]
BY DEF TypeOK, Begin

LEMMA EndTyped ==
  ASSUME TypeOK, NEW c \in Calls, End(c)
  PROVE  call' \in [Calls -> Call]
<1>1. Idle \in Call
  BY DEF Call
<1> QED BY <1>1 DEF TypeOK, End

\* Spendings stay spendings as the ledger grows.
LEMMA SpendsStay ==
  ASSUME ledger \in Seq(Entry), NEW s, Len(s) \in Nat, Adds(s)
  PROVE  Spends \subseteq Spends'
<1>1. Len(ledger) \in Nat /\ DOMAIN ledger = 1..Len(ledger)
  BY LedgerFacts
<1>2. DOMAIN ledger' = 1..(Len(ledger) + Len(s))
  BY <1>1, LenProperties DEF Adds
<1>3. \A i \in DOMAIN ledger : i \in DOMAIN ledger' /\ ledger'[i] = ledger[i]
  BY <1>1, <1>2 DEF Adds
<1> QED BY <1>3 DEF Spends

LedgerTyped == points' \in [Users -> Int] /\ ledger' \in Seq(Entry)

LEMMA OneTyped ==
  ASSUME TypeOK, NEW u \in Users, NEW delta \in Int,
         NEW source \in {"sponsor_reward", "question_bounty_reward", "ai_usage",
                         "ai_metered", "ai_refund"},
         NEW ref \in Refs, Book(u, delta, source, ref)
  PROVE  LedgerTyped /\ One(u, delta, source, ref)
BY BookAdds DEF LedgerTyped, One, Adds

LEMMA KeptOrders ==
  ASSUME UNCHANGED order
  PROVE  OrdersKept
BY DEF OrdersKept

LEMMA QuietTyped ==
  ASSUME TypeOK, UNCHANGED Ledger
  PROVE  LedgerTyped
BY DEF TypeOK, LedgerTyped, Ledger

LEMMA AwardBooks ==
  ASSUME TypeOK, NEW o \in Orders, NEW status \in {"pending", "paid", "closed"},
         NEW n \in Nat, Award(o, status, n)
  PROVE  /\ order' \in [Orders -> Order] /\ LedgerTyped
         /\ Quiet \/ \E m \in Nat \ {0} : Awarding(o, m)
<1> DEFINE u == order[o].user
           claims == status = "paid" /\ n > 0 /\ order[o].awarded = 0
<1>1. u \in Users /\ order[o] \in Order
  BY DEF TypeOK, Order
<1>2. CASE claims /\ ~Fits(u, "sponsor_reward", <<"sponsor_order", o>>)
  <2>1. UNCHANGED <<Ledger, order>>
    BY <1>2 DEF Award
  <2> QED BY <2>1, QuietTyped, KeptOrders DEF Quiet, TypeOK
<1>3. CASE ~(claims /\ ~Fits(u, "sponsor_reward", <<"sponsor_order", o>>))
  <2>1. order' = [order EXCEPT ![o].status = status,
                               ![o].awarded = IF claims THEN n ELSE @]
    BY <1>3 DEF Award
  <2>2. /\ order' \in [Orders -> Order]
        /\ order'[o].awarded = IF claims THEN n ELSE order[o].awarded
        /\ \A p \in Orders : /\ order'[p].user = order[p].user
                             /\ p # o => order'[p].awarded = order[p].awarded
    BY <2>1 DEF TypeOK, Order
  <2>3. CASE ~claims
    <3>1. UNCHANGED Ledger
      BY <1>3, <2>3 DEF Award
    <3>2. OrdersKept
      BY <2>2, <2>3 DEF OrdersKept
    <3> QED BY <2>2, <3>1, <3>2, QuietTyped DEF Quiet
  <2>4. CASE claims
    <3>1. Fits(u, "sponsor_reward", <<"sponsor_order", o>>)
      BY <1>3, <2>4
    <3>2. Book(u, n, "sponsor_reward", <<"sponsor_order", o>>)
      BY <1>3, <2>4 DEF Award
    <3>3. <<"sponsor_order", o>> \in Refs /\ n \in Int
      BY DEF Refs
    <3>4. LedgerTyped /\ One(u, n, "sponsor_reward", <<"sponsor_order", o>>)
      BY <1>1, <3>2, <3>3, OneTyped
    <3>5. Awarding(o, n) /\ n \in Nat \ {0}
      BY <2>2, <2>4, <3>1, <3>4 DEF Awarding
    <3> QED BY <2>2, <3>4, <3>5
  <2> QED BY <2>3, <2>4
<1> QED BY <1>2, <1>3

LEMMA GrantBooks ==
  ASSUME TypeOK, NEW us \in SUBSET Users, NEW s \in SetToSeqs(us), GrantBatch(us, s)
  PROVE  LedgerTyped /\ Granting(us, s)
<1> DEFINE new == [i \in 1..Len(s) |-> Granted(s, i)]
<1>1. /\ Len(s) \in Nat /\ \A i \in 1..Len(s) : s[i] \in us
  BY ConstantsAssumption, FS_Subset, SeqsOf
<1>2. \A i \in 1..Len(s) : Granted(s, i) \in Entry
  BY <1>1 DEF Granted, Entry, Refs, TypeOK
<1>3. new \in Seq(Entry)
  BY <1>1, <1>2, SeqDef
<1>4. ledger' = ledger \o new /\ ledger \in Seq(Entry)
  BY DEF GrantBatch, Granted, TypeOK
<1>5. Adds(new)
  <2> HIDE DEF new
  <2> QED BY <1>3, <1>4, ConcatAdds
<1>6. points' = [u \in Users |-> IF u \in us THEN points[u] + 1 ELSE points[u]]
  BY DEF GrantBatch
<1>7. points' \in [Users -> Int]
  BY <1>6 DEF TypeOK
<1>8. OrdersKept
  BY KeptOrders DEF GrantBatch
<1> QED BY <1>5, <1>6, <1>7, <1>8 DEF LedgerTyped, Granting, Adds

LEMMA BackfillBooks ==
  ASSUME TypeOK, NEW c \in Calls, NEW n \in Nat, Backfill(c, n)
  PROVE  /\ order' \in [Orders -> Order] /\ LedgerTyped
         /\ \/ Quiet
            \/ \E os \in SUBSET Orders, m \in Nat \ {0} : \E s \in SetToSeqs(os) :
                 Backfilling(os, s, m)
<1> DEFINE os == Unawarded(call[c].orders)
           mine(u) == {o \in os : order[o].user = u}
           fit == \A o \in os : Fits(order[o].user, "sponsor_reward", <<"sponsor_order", o>>)
<1>1. n \in Nat \ {0} /\ n \in Int
  BY DEF Backfill
<1>2. os \in SUBSET Orders /\ \A o \in os : order[o].awarded = 0
  BY CallFacts DEF Backfill, Unawarded
<1>3. IsFiniteSet(os) /\ \A u : IsFiniteSet(mine(u)) /\ Cardinality(mine(u)) \in Nat
  <2>1. IsFiniteSet(os)
    BY <1>2, ConstantsAssumption, FS_Subset
  <2>2. \A u : mine(u) \subseteq os
    OBVIOUS
  <2> HIDE DEF os, mine
  <2> QED BY <2>1, <2>2, FS_Subset, FS_CardinalityType
<1>4. CASE ~fit
  <2>1. UNCHANGED <<Ledger, order>>
    BY <1>4 DEF Backfill
  <2> QED BY <2>1, QuietTyped, KeptOrders DEF Quiet, TypeOK
<1>5. CASE fit
  <2>1. /\ order' = [o \in Orders |-> IF o \in os THEN [order[o] EXCEPT !.awarded = n]
                                     ELSE order[o]]
        /\ points' = [u \in Users |-> points[u] + n * Cardinality(mine(u))]
        /\ \E s \in SetToSeqs(os) : ledger' = ledger \o [i \in 1..Len(s) |-> Backfilled(s, i, n)]
    BY <1>5 DEF Backfill
  <2>2. PICK s \in SetToSeqs(os) : ledger' = ledger \o [i \in 1..Len(s) |-> Backfilled(s, i, n)]
    BY <2>1
  <2> DEFINE new == [i \in 1..Len(s) |-> Backfilled(s, i, n)]
  <2>3. Len(s) \in Nat /\ \A i \in 1..Len(s) : s[i] \in Orders
    <3> HIDE DEF os
    <3> QED BY <1>2, <1>3, <2>2, SeqsOf
  <2>4. ASSUME NEW i \in 1..Len(s) PROVE Backfilled(s, i, n) \in Entry
    <3> DEFINE u == order[s[i]].user
               seen == {j \in 1..i : order[s[j]].user = u}
               after == points[u] + n * Cardinality(seen)
    <3>1. s[i] \in Orders /\ u \in Users /\ points[u] \in Int
      BY <2>3 DEF TypeOK, Order
    <3>2. IsFiniteSet(1..i) /\ seen \subseteq 1..i
      BY FS_Interval
    <3>3. Cardinality(seen) \in Nat
      <4> HIDE DEF seen
      <4> QED BY <3>2, FS_Subset, FS_CardinalityType
    <3>4. after \in Int
      <4> HIDE DEF seen, u
      <4> QED BY <1>1, <3>1, <3>3
    <3>5. <<"sponsor_order", s[i]>> \in Refs
      BY <3>1 DEF Refs
    <3>6. Backfilled(s, i, n) = [user |-> u, delta |-> n, after |-> after,
                                 source |-> "sponsor_reward", ref |-> <<"sponsor_order", s[i]>>]
      BY DEF Backfilled
    <3> HIDE DEF u, after
    <3> QED BY <1>1, <3>1, <3>4, <3>5, <3>6 DEF Entry
  <2>5. new \in Seq(Entry)
    BY <2>3, <2>4, SeqDef
  <2>6. Adds(new)
    <3>1. ledger' = ledger \o new /\ ledger \in Seq(Entry)
      BY <2>2 DEF TypeOK
    <3> HIDE DEF new
    <3> QED BY <2>5, <3>1, ConcatAdds
  <2>7. points' \in [Users -> Int]
    <3>1. \A u \in Users : points[u] \in Int /\ Cardinality(mine(u)) \in Nat
      BY <1>3 DEF TypeOK
    <3>2. \A u \in Users : points[u] + n * Cardinality(mine(u)) \in Int
      <4> HIDE DEF mine
      <4> QED BY <1>1, <3>1
    <3> HIDE DEF mine
    <3> QED BY <2>1, <3>2
  <2>8. /\ order' \in [Orders -> Order]
        /\ \A p \in Orders : /\ order'[p].user = order[p].user
                             /\ order'[p].awarded = IF p \in os THEN n ELSE order[p].awarded
    <3> HIDE DEF os
    <3> QED BY <1>1, <2>1 DEF TypeOK, Order
  <2>9. Backfilling(os, s, n)
    <3> HIDE DEF os
    <3> QED BY <1>2, <1>5, <2>1, <2>2, <2>6, <2>8 DEF Backfilling
  <2>10. LedgerTyped
    BY <2>6, <2>7 DEF LedgerTyped, Adds
  <2> HIDE DEF os
  <2> QED BY <1>1, <1>2, <2>2, <2>8, <2>9, <2>10
<1> QED BY <1>4, <1>5

LEMMA FiniteSubsets ==
  /\ \A us \in SUBSET Users : IsFiniteSet(us)
  /\ \A os \in SUBSET Orders : IsFiniteSet(os)
BY ConstantsAssumption, FS_Subset

\* What was booked stays as it is.
LEMMA LedgerStays ==
  ASSUME TypeOK, Booked
  PROVE  /\ ledger' = ledger \/ \E s : Len(s) \in Nat /\ Adds(s)
         /\ Spends \subseteq Spends'
<1>1. ledger' = ledger \/ \E s : Len(s) \in Nat /\ Adds(s)
  <2>1. CASE Quiet
    BY <2>1 DEF Quiet, Ledger
  <2>2. ASSUME NEW us \in SUBSET Users, NEW s \in SetToSeqs(us), Granting(us, s)
        PROVE  \E t : Len(t) \in Nat /\ Adds(t)
    <3> DEFINE new == [i \in 1..Len(s) |-> Granted(s, i)]
    <3>1. Len(s) \in Nat
      BY FiniteSubsets, SeqsOf
    <3>2. Len(new) = Len(s)
      BY <3>1
    <3>3. Adds(new)
      BY <2>2 DEF Granting
    <3> HIDE DEF new
    <3> QED BY <3>1, <3>2, <3>3
  <2>3. ASSUME NEW os \in SUBSET Orders, NEW n \in Nat, NEW s \in SetToSeqs(os),
               Backfilling(os, s, n)
        PROVE  \E t : Len(t) \in Nat /\ Adds(t)
    <3> DEFINE new == [i \in 1..Len(s) |-> Backfilled(s, i, n)]
    <3>1. Len(s) \in Nat
      BY FiniteSubsets, SeqsOf
    <3>2. Len(new) = Len(s)
      BY <3>1
    <3>3. Adds(new)
      BY <2>3 DEF Backfilling
    <3> HIDE DEF new
    <3> QED BY <3>1, <3>2, <3>3
  <2>4. ASSUME NEW u, NEW delta, NEW source, NEW ref, One(u, delta, source, ref)
        PROVE  \E t : Len(t) \in Nat /\ Adds(t)
    <3> DEFINE e == [user |-> u, delta |-> delta, after |-> points[u] + delta,
                     source |-> source, ref |-> ref]
    <3>1. Len(<<e>>) = 1
      OBVIOUS
    <3>2. Adds(<<e>>)
      BY <2>4 DEF One
    <3> HIDE DEF e
    <3> QED BY <3>1, <3>2
  <2> QED BY <2>1, <2>2, <2>3, <2>4 DEF Booked, Charging, Refunding, Awarding, Rewarding
<1>2. Spends \subseteq Spends'
  <2>1. CASE ledger' = ledger
    BY <2>1 DEF Spends
  <2>2. CASE \E s : Len(s) \in Nat /\ Adds(s)
    BY <2>2, SpendsStay DEF TypeOK
  <2> QED BY <1>1, <2>1, <2>2
<1> QED BY <1>1, <1>2

\* A handler that ends leaves the others what they have read.
LEMMA EndKnows ==
  ASSUME TypeOK, CallsKnow, NEW c \in Calls, End(c), Spends \subseteq Spends'
  PROVE  CallsKnow'
<1>1. \A d \in Calls : call'[d] = call[d] \/ call'[d] = Idle
  BY DEF End, TypeOK
<1> QED BY <1>1 DEF CallsKnow, Idle

LEMMA BeginKnows ==
  ASSUME TypeOK, CallsKnow, NEW c \in Calls, NEW op, Begin(c, op), UNCHANGED ledger,
         op.op = "refund" => op.spend \in Spends,
         op.op = "accept" => op.seen.accepted = "none"
  PROVE  CallsKnow'
<1>1. \A d \in Calls : call'[d] = call[d] \/ call'[d] = op
  BY DEF Begin, TypeOK
<1>2. Spends' = Spends
  BY DEF Spends
<1> QED BY <1>1, <1>2 DEF CallsKnow

\* Handlers only read.
LEMMA ReadSteps ==
  ASSUME TypeOK, CallsKnow, NEW c \in Calls,
         \/ \E i \in DOMAIN ledger : RefundRead(c, i)
         \/ \E o \in Orders : \/ NotifyRead(c, o) \/ CloseRead(c, o)
                              \/ \E to \in {"pending", "paid", "closed"} : PatchRead(c, o, to)
         \/ BackfillRead(c)
         \/ \E q \in Questions : AcceptRead(c, q) \/ EditRead(c, q)
  PROVE  TypeOK' /\ CallsKnow' /\ Booked
<1>1. \E op \in Call :
        /\ Begin(c, op)
        /\ op.op = "refund" => op.spend \in Spends
        /\ op.op = "accept" => op.seen.accepted = "none"
  <2>1. ASSUME NEW i \in DOMAIN ledger, RefundRead(c, i)
        PROVE  /\ Begin(c, [op |-> "refund", spend |-> i]) /\ i \in Spends
               /\ [op |-> "refund", spend |-> i] \in Call
    <3>1. i \in Nat
      BY LedgerFacts DEF TypeOK
    <3> QED BY <2>1, <3>1 DEF RefundRead, Call
  <2>2. ASSUME NEW o \in Orders, NotifyRead(c, o)
        PROVE  /\ Begin(c, [op |-> "notify", order |-> o])
               /\ [op |-> "notify", order |-> o] \in Call
    BY <2>2 DEF NotifyRead, Call
  <2>3. ASSUME NEW o \in Orders, NEW to \in {"pending", "paid", "closed"}, PatchRead(c, o, to)
        PROVE  /\ Begin(c, [op |-> "patch", order |-> o, to |-> to])
               /\ [op |-> "patch", order |-> o, to |-> to] \in Call
    BY <2>3 DEF PatchRead, Call
  <2>7. ASSUME NEW o \in Orders, CloseRead(c, o)
        PROVE  /\ Begin(c, [op |-> "patch", order |-> o, to |-> "closed"])
               /\ [op |-> "patch", order |-> o, to |-> "closed"] \in Call
    BY <2>7 DEF CloseRead, Call
  <2>4. ASSUME BackfillRead(c)
        PROVE  \E os \in SUBSET Orders : /\ Begin(c, [op |-> "backfill", orders |-> os])
                                        /\ [op |-> "backfill", orders |-> os] \in Call
    <3> DEFINE os == {o \in Orders : order[o].status = "paid" /\ order[o].awarded = 0}
    <3>1. os \in SUBSET Orders /\ Begin(c, [op |-> "backfill", orders |-> os])
      BY <2>4 DEF BackfillRead
    <3> HIDE DEF os
    <3>2. [op |-> "backfill", orders |-> os] \in Call
      BY <3>1 DEF Call
    <3> QED BY <3>1, <3>2
  <2>5. ASSUME NEW q \in Questions, AcceptRead(c, q)
        PROVE  /\ Begin(c, [op |-> "accept", question |-> q, seen |-> question[q]])
               /\ [op |-> "accept", question |-> q, seen |-> question[q]] \in Call
               /\ question[q].accepted = "none"
    BY <2>5 DEF AcceptRead, Call, TypeOK
  <2>6. ASSUME NEW q \in Questions, EditRead(c, q)
        PROVE  /\ Begin(c, [op |-> "edit", question |-> q, accepted |-> question[q].accepted])
               /\ [op |-> "edit", question |-> q, accepted |-> question[q].accepted] \in Call
    BY <2>6 DEF EditRead, Call, TypeOK, Question
  <2>8. CASE \E i \in DOMAIN ledger : RefundRead(c, i)
    BY <2>1, <2>8
  <2>9. CASE \E o \in Orders : NotifyRead(c, o)
    BY <2>2, <2>9
  <2>10. CASE \E o \in Orders, to \in {"pending", "paid", "closed"} : PatchRead(c, o, to)
    BY <2>3, <2>10
  <2>11. CASE \E o \in Orders : CloseRead(c, o)
    BY <2>7, <2>11
  <2>12. CASE BackfillRead(c)
    BY <2>4, <2>12
  <2>13. CASE \E q \in Questions : AcceptRead(c, q)
    BY <2>5, <2>13
  <2>14. CASE \E q \in Questions : EditRead(c, q)
    BY <2>6, <2>14
  <2> QED BY <2>8, <2>9, <2>10, <2>11, <2>12, <2>13, <2>14
<1>2. UNCHANGED <<Ledger, order, question>>
  BY DEF RefundRead, NotifyRead, CloseRead, PatchRead, BackfillRead, AcceptRead, EditRead
<1>3. call' \in [Calls -> Call] /\ CallsKnow'
  BY <1>1, <1>2, BeginTyped, BeginKnows DEF Ledger
<1>4. TypeOK' /\ Quiet
  BY <1>2, <1>3, QuietTyped, KeptOrders DEF TypeOK, Quiet, LedgerTyped
<1> QED BY <1>3, <1>4 DEF Booked

\* Handlers that come to their end.
LEMMA EndSteps ==
  ASSUME TypeOK, CallsKnow, NEW c \in Calls,
         \/ \E u \in Users : Accept(c, u)
         \/ \E n \in Rates : Notify(c, n) \/ Patch(c, n) \/ Backfill(c, n)
         \/ Refund(c) \/ Edit(c) \/ Abort(c)
  PROVE  TypeOK' /\ CallsKnow' /\ Booked
<1>1. ASSUME NEW u \in Users, Accept(c, u)
      PROVE  question' \in [Questions -> Question] /\ order' \in [Orders -> Order]
             /\ LedgerTyped /\ Booked /\ End(c)
  <2> DEFINE q == call[c].question
             ok == /\ question[q] = call[c].seen
                   /\ Fits(u, "question_bounty_reward", <<"question_topic", q>>)
  <2>1. q \in Questions /\ call[c].seen.accepted = "none" /\ End(c) /\ UNCHANGED order
    BY <1>1, CallFacts DEF Accept, CallsKnow
  <2>2. CASE ~ok
    <3>1. UNCHANGED <<Ledger, question>>
      BY <1>1, <2>2 DEF Accept
    <3>2. Quiet /\ LedgerTyped
      BY <2>1, <3>1, KeptOrders, QuietTyped DEF Quiet
    <3> QED BY <2>1, <3>1, <3>2 DEF Booked, TypeOK
  <2>3. CASE ok
    <3>1. /\ question' = [question EXCEPT ![q].accepted = u]
          /\ Book(u, Reward, "question_bounty_reward", <<"question_topic", q>>)
      BY <1>1, <2>3 DEF Accept
    <3>2. <<"question_topic", q>> \in Refs /\ Reward \in Int
      BY <2>1, ConstantsAssumption DEF Refs
    <3>3. /\ LedgerTyped
          /\ One(u, Reward, "question_bounty_reward", <<"question_topic", q>>)
      BY <3>1, <3>2, OneTyped
    <3>4. question' \in [Questions -> Question] /\ question'[q].accepted = u
      BY <2>1, <3>1 DEF TypeOK, Question
    <3>5. Rewarding(q, u)
      BY <2>1, <2>3, <3>3, <3>4, KeptOrders DEF Rewarding
    <3> HIDE DEF q
    <3> QED BY <2>1, <3>3, <3>4, <3>5 DEF Booked, TypeOK
  <2> QED BY <2>2, <2>3
<1>2. ASSUME NEW n \in Rates, Notify(c, n) \/ Patch(c, n)
      PROVE  question' \in [Questions -> Question] /\ order' \in [Orders -> Order]
             /\ LedgerTyped /\ Booked /\ End(c)
  <2>1. End(c) /\ UNCHANGED question /\ call[c].order \in Orders /\ n \in Nat
    BY <1>2, CallFacts, ConstantsAssumption DEF Notify, Patch
  <2>2. CASE UNCHANGED <<Ledger, order>>
    BY <2>1, <2>2, KeptOrders, QuietTyped DEF Booked, Quiet, TypeOK
  <2>3. ASSUME NEW status \in {"pending", "paid", "closed"}, Award(call[c].order, status, n)
        PROVE  order' \in [Orders -> Order] /\ LedgerTyped /\ Booked
    BY <2>1, <2>3, AwardBooks DEF Booked
  <2>4. UNCHANGED <<Ledger, order>> \/ \E status \in {"pending", "paid", "closed"} :
          Award(call[c].order, status, n)
    BY <1>2, CallFacts DEF Notify, Patch
  <2> QED BY <2>1, <2>2, <2>3, <2>4 DEF TypeOK
<1>3. ASSUME NEW n \in Rates, Backfill(c, n)
      PROVE  question' \in [Questions -> Question] /\ order' \in [Orders -> Order]
             /\ LedgerTyped /\ Booked /\ End(c)
  <2>1. End(c) /\ UNCHANGED question /\ n \in Nat
    BY <1>3, ConstantsAssumption DEF Backfill
  <2>2. order' \in [Orders -> Order] /\ LedgerTyped /\ Booked
    BY <1>3, <2>1, BackfillBooks DEF Booked
  <2> QED BY <2>1, <2>2 DEF TypeOK
<1>4. ASSUME Refund(c)
      PROVE  question' \in [Questions -> Question] /\ order' \in [Orders -> Order]
             /\ LedgerTyped /\ Booked /\ End(c)
  <2> DEFINE i == call[c].spend
             u == ledger[i].user
  <2>1. End(c) /\ UNCHANGED <<order, question>> /\ i \in Spends
    BY <1>4 DEF Refund, CallsKnow
  <2>2. u \in Users /\ ledger[i].delta \in Int /\ i \in Nat
    BY <2>1, LedgerFacts DEF Spends, TypeOK, Entry
  <2>3. CASE ~Fits(u, "ai_refund", <<"point_ledger", i>>)
    <3>1. UNCHANGED Ledger
      BY <1>4, <2>3 DEF Refund
    <3> QED BY <2>1, <3>1, KeptOrders, QuietTyped DEF Booked, Quiet, TypeOK
  <2>4. CASE Fits(u, "ai_refund", <<"point_ledger", i>>)
    <3>1. Book(u, -ledger[i].delta, "ai_refund", <<"point_ledger", i>>)
      BY <1>4, <2>4 DEF Refund
    <3>2. <<"point_ledger", i>> \in Refs /\ -ledger[i].delta \in Int
      BY <2>2 DEF Refs
    <3>3. LedgerTyped /\ One(u, -ledger[i].delta, "ai_refund", <<"point_ledger", i>>)
      <4> DEFINE d == -ledger[i].delta
      <4>1. Book(u, d, "ai_refund", <<"point_ledger", i>>) /\ d \in Int
        BY <3>1, <3>2
      <4> HIDE DEF d, u
      <4>2. LedgerTyped /\ One(u, d, "ai_refund", <<"point_ledger", i>>)
        BY <2>2, <3>2, <4>1, OneTyped
      <4> QED BY <4>2 DEF d
    <3>4. Refunding(i)
      BY <2>1, <2>4, <3>3, KeptOrders DEF Refunding
    <3> HIDE DEF i
    <3> QED BY <2>1, <3>3, <3>4 DEF Booked, TypeOK
  <2> QED BY <2>3, <2>4
<1>5. ASSUME Edit(c)
      PROVE  question' \in [Questions -> Question] /\ order' \in [Orders -> Order]
             /\ LedgerTyped /\ Booked /\ End(c)
  <2>1. End(c) /\ UNCHANGED <<Ledger, order>> /\ call[c].question \in Questions
        /\ call[c].accepted \in Users \cup {"none"}
    BY <1>5, CallFacts DEF Edit
  <2>2. question' \in [Questions -> Question]
    <3> DEFINE new(t) == [accepted |-> call[c].accepted, text |-> t]
    <3>1. \A t \in Texts : new(t) \in Question
      BY <2>1 DEF Question
    <3>2. question' = question \/ \E t \in Texts :
            question' = [question EXCEPT ![call[c].question] = new(t)]
      BY <1>5 DEF Edit
    <3> HIDE DEF new
    <3> QED BY <3>1, <3>2 DEF TypeOK
  <2> QED BY <2>1, <2>2, KeptOrders, QuietTyped DEF Booked, Quiet, TypeOK
<1>6. ASSUME Abort(c)
      PROVE  question' \in [Questions -> Question] /\ order' \in [Orders -> Order]
             /\ LedgerTyped /\ Booked /\ End(c)
  BY <1>6, KeptOrders, QuietTyped DEF Abort, Booked, Quiet, TypeOK
<1>7. question' \in [Questions -> Question] /\ order' \in [Orders -> Order]
      /\ LedgerTyped /\ Booked /\ End(c)
  BY <1>1, <1>2, <1>3, <1>4, <1>5, <1>6
<1>8. TypeOK'
  BY <1>7, EndTyped DEF TypeOK, LedgerTyped
<1>9. CallsKnow'
  BY <1>7, LedgerStays, EndKnows
<1> QED BY <1>7, <1>8, <1>9

\* Steps of no handler.
LEMMA OtherSteps ==
  ASSUME TypeOK, CallsKnow,
         \/ \E us \in (SUBSET Users) \ {{}} : \E s \in SetToSeqs(us) : GrantBatch(us, s)
         \/ \E u \in Users : Spend(u) \/ SpendPostpaid(u)
         \/ \E os \in SUBSET Orders : Sweep(os)
         \/ UNCHANGED vars
  PROVE  TypeOK' /\ CallsKnow' /\ Booked
<1>1. ASSUME NEW us \in SUBSET Users, NEW s \in SetToSeqs(us), GrantBatch(us, s)
      PROVE  LedgerTyped /\ Booked /\ UNCHANGED <<order, question, call>>
  BY <1>1, GrantBooks DEF GrantBatch, Booked
<1>2. ASSUME NEW u \in Users, Spend(u)
      PROVE  LedgerTyped /\ Booked /\ UNCHANGED <<order, question, call>>
  <2>1. <<>> \in Refs
    BY DEF Refs
  <2>2. points[u] >= 1 /\ Book(u, -1, "ai_usage", <<>>) /\ UNCHANGED <<order, question, call>>
    BY <1>2 DEF Spend
  <2>3. LedgerTyped /\ One(u, -1, "ai_usage", <<>>) /\ OrdersKept
    BY <2>1, <2>2, OneTyped, KeptOrders
  <2>4. Charging(u, "ai_usage")
    BY <2>2, <2>3 DEF Charging
  <2> QED BY <2>2, <2>3, <2>4 DEF Booked
<1>3. ASSUME NEW u \in Users, SpendPostpaid(u)
      PROVE  LedgerTyped /\ Booked /\ UNCHANGED <<order, question, call>>
  <2>1. <<>> \in Refs
    BY DEF Refs
  <2>2. Book(u, -1, "ai_metered", <<>>) /\ UNCHANGED <<order, question, call>>
    BY <1>3 DEF SpendPostpaid
  <2>3. LedgerTyped /\ One(u, -1, "ai_metered", <<>>) /\ OrdersKept
    BY <2>1, <2>2, OneTyped, KeptOrders
  <2>4. Charging(u, "ai_metered")
    BY <2>3 DEF Charging
  <2> QED BY <2>2, <2>3, <2>4 DEF Booked
<1>4. ASSUME NEW os \in SUBSET Orders, Sweep(os)
      PROVE  LedgerTyped /\ Booked /\ UNCHANGED <<question, call>>
             /\ order' \in [Orders -> Order]
  <2>1. /\ UNCHANGED <<Ledger, question, call>>
        /\ order' = [o \in Orders |-> IF o \in os THEN [order[o] EXCEPT !.status = "closed"]
                                    ELSE order[o]]
    BY <1>4 DEF Sweep
  <2>2. order' \in [Orders -> Order] /\ OrdersKept
    BY <2>1 DEF TypeOK, Order, OrdersKept
  <2> QED BY <2>1, <2>2, QuietTyped DEF Booked, Quiet
<1>5. ASSUME UNCHANGED vars
      PROVE  LedgerTyped /\ Booked /\ UNCHANGED <<order, question, call>>
  <2>1. UNCHANGED Ledger /\ UNCHANGED <<order, question, call>>
    BY <1>5 DEF vars, Ledger
  <2> QED BY <2>1, QuietTyped, KeptOrders DEF Booked, Quiet
<1>6. LedgerTyped /\ Booked /\ UNCHANGED <<question, call>> /\ order' \in [Orders -> Order]
  BY <1>1, <1>2, <1>3, <1>4, <1>5 DEF TypeOK
<1>7. TypeOK'
  BY <1>6 DEF TypeOK, LedgerTyped
<1>8. CallsKnow'
  BY <1>6, LedgerStays DEF CallsKnow
<1> QED BY <1>6, <1>7, <1>8

LEMMA StepBooks ==
  ASSUME TypeOK, CallsKnow, [Next]_vars
  PROVE  TypeOK' /\ CallsKnow' /\ Booked
BY ReadSteps, EndSteps, OtherSteps DEF Next

-------------------------------------------------------------------------------
(* What the entries have in common.                                         *)

RefundOf(e, i) ==
  /\ e.ref = <<"point_ledger", i>>
  /\ e.user = ledger[i].user
  /\ e.delta = -ledger[i].delta

\* The database's key.
KeyHolds ==
  \A i, j \in DOMAIN ledger :
    /\ ledger[i].ref # <<>>
    /\ ledger[i].source = ledger[j].source
    /\ ledger[i].user = ledger[j].user
    /\ ledger[i].ref = ledger[j].ref
    => i = j

SpendsAreOne == \A i \in Spends : ledger[i].delta = -1

RefundsAreRight ==
  \A j \in DOMAIN ledger : ledger[j].source = "ai_refund" =>
    \E i \in Spends : RefundOf(ledger[j], i)

AwardsAreRight ==
  \A i \in DOMAIN ledger : ledger[i].source = "sponsor_reward" =>
    \E o \in Orders : /\ ledger[i].ref = <<"sponsor_order", o>>
                     /\ ledger[i].user = order[o].user
                     /\ ledger[i].delta = order[o].awarded
                     /\ order[o].awarded # 0

AwardsAreBooked ==
  \A o \in Orders : order[o].awarded # 0 =>
    \E i \in DOMAIN ledger : /\ ledger[i].source = "sponsor_reward"
                            /\ ledger[i].ref = <<"sponsor_order", o>>

EntriesAreRight ==
  KeyHolds /\ SpendsAreOne /\ RefundsAreRight /\ AwardsAreRight /\ AwardsAreBooked

\* New entries s that keep it so.
Sound(s) ==
  /\ \A k \in 1..Len(s) :
       /\ s[k].ref # <<>> => Fits(s[k].user, s[k].source, s[k].ref)
       /\ \A l \in 1..Len(s) : s[k].ref # <<>> /\ s[k].ref = s[l].ref => k = l
       /\ s[k].source \in {"ai_usage", "ai_metered"} => s[k].delta = -1
       /\ s[k].source = "ai_refund" => \E i \in Spends : RefundOf(s[k], i)
       /\ s[k].source = "sponsor_reward" =>
            \E o \in Orders : /\ s[k].ref = <<"sponsor_order", o>>
                             /\ s[k].user = order'[o].user
                             /\ s[k].delta = order'[o].awarded
                             /\ order'[o].awarded # 0
       /\ s[k].source = "question_bounty_reward" =>
            \E q \in Questions : /\ s[k].ref = <<"question_topic", q>>
                                /\ question[q].accepted = "none"
                                /\ question'[q].accepted # "none"
  /\ \A o \in Orders :
       /\ order'[o].user = order[o].user
       /\ order'[o].awarded # order[o].awarded =>
            /\ order[o].awarded = 0
            /\ \E k \in 1..Len(s) : /\ s[k].source = "sponsor_reward"
                                   /\ s[k].ref = <<"sponsor_order", o>>

LEMMA GrownFacts ==
  ASSUME TypeOK, NEW s, Len(s) \in Nat, Adds(s)
  PROVE  /\ Len(ledger) \in Nat /\ DOMAIN ledger = 1..Len(ledger)
         /\ DOMAIN ledger' = 1..(Len(ledger) + Len(s))
         /\ \A i \in DOMAIN ledger : i \in DOMAIN ledger' /\ ledger'[i] = ledger[i]
         /\ \A i \in DOMAIN ledger' :
              i \in DOMAIN ledger \/ \E k \in 1..Len(s) : i = Len(ledger) + k /\ ledger'[i] = s[k]
         /\ \A k \in 1..Len(s) :
              Len(ledger) + k \in DOMAIN ledger' \ DOMAIN ledger /\ ledger'[Len(ledger) + k] = s[k]
<1>1. Len(ledger) \in Nat /\ DOMAIN ledger = 1..Len(ledger)
  BY LedgerFacts DEF TypeOK
<1>2. DOMAIN ledger' = 1..(Len(ledger) + Len(s))
  BY <1>1, LenProperties DEF Adds
<1>3. ASSUME NEW i \in DOMAIN ledger', i \notin DOMAIN ledger
      PROVE  \E k \in 1..Len(s) : i = Len(ledger) + k /\ ledger'[i] = s[k]
  <2>1. i - Len(ledger) \in 1..Len(s) /\ i = Len(ledger) + (i - Len(ledger))
    BY <1>1, <1>2, <1>3
  <2> QED BY <2>1 DEF Adds
<1>4. \A k \in 1..Len(s) :
        Len(ledger) + k \in DOMAIN ledger' \ DOMAIN ledger /\ ledger'[Len(ledger) + k] = s[k]
  BY <1>1, <1>2 DEF Adds
<1> QED BY <1>1, <1>2, <1>3, <1>4 DEF Adds

\* One entry is sound.
LEMMA OneIsSound ==
  ASSUME NEW e, NEW s, s = <<e>>,
         e.ref # <<>> => Fits(e.user, e.source, e.ref),
         e.source \in {"ai_usage", "ai_metered"} => e.delta = -1,
         e.source = "ai_refund" => \E i \in Spends : RefundOf(e, i),
         e.source = "sponsor_reward" =>
            \E o \in Orders : /\ e.ref = <<"sponsor_order", o>>
                             /\ e.user = order'[o].user
                             /\ e.delta = order'[o].awarded
                             /\ order'[o].awarded # 0,
         e.source = "question_bounty_reward" =>
            \E q \in Questions : /\ e.ref = <<"question_topic", q>>
                                /\ question[q].accepted = "none"
                                /\ question'[q].accepted # "none",
         \A o \in Orders :
            /\ order'[o].user = order[o].user
            /\ order'[o].awarded # order[o].awarded =>
                 /\ order[o].awarded = 0
                 /\ e.source = "sponsor_reward"
                 /\ e.ref = <<"sponsor_order", o>>
  PROVE  Sound(s) /\ Len(s) = 1
<1>1. Len(s) = 1 /\ s[1] = e /\ 1..Len(s) = {1}
  OBVIOUS
<1> QED BY <1>1 DEF Sound

LEMMA BookedIsSound ==
  ASSUME TypeOK, SpendsAreOne, Booked
  PROVE  Quiet \/ \E s : Len(s) \in Nat /\ Adds(s) /\ Sound(s)
<1>1. ASSUME NEW us \in SUBSET Users, NEW s \in SetToSeqs(us), Granting(us, s)
      PROVE  \E t : Len(t) \in Nat /\ Adds(t) /\ Sound(t)
  <2> DEFINE new == [i \in 1..Len(s) |-> Granted(s, i)]
  <2>1. Len(s) \in Nat
    BY FiniteSubsets, SeqsOf
  <2>2. Len(new) = Len(s)
    BY <2>1
  <2>3. \A k \in 1..Len(new) : new[k].ref = <<>> /\ new[k].source = "admin_grant"
    BY <2>2 DEF Granted
  <2>4. Adds(new) /\ OrdersKept
    BY <1>1 DEF Granting
  <2> HIDE DEF new
  <2>5. Sound(new)
    BY <2>3, <2>4 DEF Sound, OrdersKept
  <2> QED BY <2>1, <2>2, <2>4, <2>5
<1>2. ASSUME NEW u \in Users, NEW source \in {"ai_usage", "ai_metered"}, Charging(u, source)
      PROVE  \E t : Len(t) \in Nat /\ Adds(t) /\ Sound(t)
  <2> DEFINE e == [user |-> u, delta |-> -1, after |-> points[u] + -1,
                   source |-> source, ref |-> <<>>]
  <2>1. Adds(<<e>>) /\ OrdersKept
    BY <1>2 DEF Charging, One
  <2>2. e.ref = <<>> /\ e.delta = -1 /\ e.source \in {"ai_usage", "ai_metered"}
    OBVIOUS
  <2> HIDE DEF e
  <2>3. Sound(<<e>>) /\ Len(<<e>>) = 1
    BY <2>1, <2>2, OneIsSound DEF OrdersKept
  <2> QED BY <2>1, <2>3
<1>3. ASSUME NEW i \in Spends, Refunding(i)
      PROVE  \E t : Len(t) \in Nat /\ Adds(t) /\ Sound(t)
  <2> DEFINE d == -ledger[i].delta
             e == [user |-> ledger[i].user, delta |-> d, after |-> points[ledger[i].user] + d,
                   source |-> "ai_refund", ref |-> <<"point_ledger", i>>]
  <2>1. Adds(<<e>>) /\ OrdersKept
    BY <1>3 DEF Refunding, One
  <2>2. Fits(e.user, e.source, e.ref) /\ e.source = "ai_refund" /\ RefundOf(e, i)
    BY <1>3 DEF Refunding, RefundOf
  <2> HIDE DEF e
  <2>3. Sound(<<e>>) /\ Len(<<e>>) = 1
    BY <2>1, <2>2, OneIsSound DEF OrdersKept
  <2> QED BY <2>1, <2>3
<1>4. ASSUME NEW o \in Orders, NEW n \in Nat \ {0}, Awarding(o, n)
      PROVE  \E t : Len(t) \in Nat /\ Adds(t) /\ Sound(t)
  <2> DEFINE e == [user |-> order[o].user, delta |-> n, after |-> points[order[o].user] + n,
                   source |-> "sponsor_reward", ref |-> <<"sponsor_order", o>>]
  <2>1. Adds(<<e>>)
    BY <1>4 DEF Awarding, One
  <2>2. /\ Fits(e.user, e.source, e.ref) /\ e.source = "sponsor_reward"
        /\ e.ref = <<"sponsor_order", o>> /\ e.user = order'[o].user
        /\ e.delta = order'[o].awarded /\ order'[o].awarded # 0
    BY <1>4 DEF Awarding
  <2>3. \A p \in Orders :
            /\ order'[p].user = order[p].user
            /\ order'[p].awarded # order[p].awarded => p = o /\ order[p].awarded = 0
    BY <1>4 DEF Awarding
  <2> HIDE DEF e
  <2>4. Sound(<<e>>) /\ Len(<<e>>) = 1
    BY <2>1, <2>2, <2>3, OneIsSound
  <2> QED BY <2>1, <2>4
<1>5. ASSUME NEW os \in SUBSET Orders, NEW n \in Nat \ {0}, NEW s \in SetToSeqs(os),
             Backfilling(os, s, n)
      PROVE  \E t : Len(t) \in Nat /\ Adds(t) /\ Sound(t)
  <2> DEFINE new == [i \in 1..Len(s) |-> Backfilled(s, i, n)]
  <2>1. /\ Len(s) \in Nat
        /\ \A i \in 1..Len(s) : s[i] \in os
        /\ \A i, j \in 1..Len(s) : s[i] = s[j] => i = j
        /\ \A o \in os : \E i \in 1..Len(s) : s[i] = o
    BY FiniteSubsets, SeqsOf
  <2>2. Len(new) = Len(s)
    BY <2>1
  <2>3. \A k \in 1..Len(new) :
          /\ new[k].user = order[s[k]].user /\ new[k].delta = n
          /\ new[k].ref = <<"sponsor_order", s[k]>> /\ new[k].source = "sponsor_reward"
    BY <2>2 DEF Backfilled
  <2>4. Adds(new)
    BY <1>5 DEF Backfilling
  <2>5. /\ \A o \in os : /\ order[o].awarded = 0
                         /\ Fits(order[o].user, "sponsor_reward", <<"sponsor_order", o>>)
        /\ \A p \in Orders : /\ order'[p].user = order[p].user
                             /\ order'[p].awarded = IF p \in os THEN n ELSE order[p].awarded
    BY <1>5 DEF Backfilling
  <2> HIDE DEF new
  <2>6. ASSUME NEW k \in 1..Len(new)
        PROVE  /\ Fits(new[k].user, new[k].source, new[k].ref)
               /\ \A l \in 1..Len(new) : new[k].ref = new[l].ref => k = l
               /\ \E o \in Orders : /\ new[k].ref = <<"sponsor_order", o>>
                                   /\ new[k].user = order'[o].user
                                   /\ new[k].delta = order'[o].awarded
                                   /\ order'[o].awarded # 0
    <3>1. s[k] \in os /\ s[k] \in Orders
      BY <2>1, <2>2
    <3>2. Fits(new[k].user, new[k].source, new[k].ref)
      BY <2>3, <2>5, <3>1
    <3>3. ASSUME NEW l \in 1..Len(new), new[k].ref = new[l].ref PROVE k = l
      <4>1. s[k] = s[l]
        BY <2>3, <3>3
      <4> QED BY <2>1, <2>2, <4>1
    <3>4. /\ new[k].ref = <<"sponsor_order", s[k]>>
          /\ new[k].user = order'[s[k]].user
          /\ new[k].delta = order'[s[k]].awarded
          /\ order'[s[k]].awarded # 0
      BY <2>3, <2>5, <3>1
    <3> QED BY <3>1, <3>2, <3>3, <3>4
  <2>7. ASSUME NEW o \in Orders, order'[o].awarded # order[o].awarded
        PROVE  /\ order[o].awarded = 0
               /\ \E k \in 1..Len(new) : /\ new[k].source = "sponsor_reward"
                                        /\ new[k].ref = <<"sponsor_order", o>>
    <3>1. o \in os
      BY <2>5, <2>7
    <3>2. PICK k \in 1..Len(s) : s[k] = o
      BY <2>1, <3>1
    <3> QED BY <2>2, <2>3, <2>5, <3>1, <3>2
  <2>8. Sound(new)
    BY <2>3, <2>5, <2>6, <2>7 DEF Sound
  <2> QED BY <2>1, <2>2, <2>4, <2>8
<1>6. ASSUME NEW q \in Questions, NEW u \in Users, Rewarding(q, u)
      PROVE  \E t : Len(t) \in Nat /\ Adds(t) /\ Sound(t)
  <2> DEFINE e == [user |-> u, delta |-> Reward, after |-> points[u] + Reward,
                   source |-> "question_bounty_reward", ref |-> <<"question_topic", q>>]
  <2>1. Adds(<<e>>) /\ OrdersKept
    BY <1>6 DEF Rewarding, One
  <2>2. /\ Fits(e.user, e.source, e.ref) /\ e.source = "question_bounty_reward"
        /\ e.ref = <<"question_topic", q>>
        /\ question[q].accepted = "none" /\ question'[q].accepted # "none"
    BY <1>6, ConstantsAssumption DEF Rewarding
  <2> HIDE DEF e
  <2>3. Sound(<<e>>) /\ Len(<<e>>) = 1
    BY <2>1, <2>2, OneIsSound DEF OrdersKept
  <2> QED BY <2>1, <2>3
<1> QED BY <1>1, <1>2, <1>3, <1>4, <1>5, <1>6 DEF Booked

LEMMA SoundKeepsRight ==
  ASSUME TypeOK, EntriesAreRight, NEW s, Len(s) \in Nat, Adds(s), Sound(s),
         Spends \subseteq Spends'
  PROVE  EntriesAreRight'
<1>1. /\ Len(ledger) \in Nat
      /\ \A i \in DOMAIN ledger : i \in DOMAIN ledger' /\ ledger'[i] = ledger[i]
      /\ \A i \in DOMAIN ledger' :
           i \in DOMAIN ledger \/ \E k \in 1..Len(s) : i = Len(ledger) + k /\ ledger'[i] = s[k]
      /\ \A k \in 1..Len(s) :
           Len(ledger) + k \in DOMAIN ledger' \ DOMAIN ledger /\ ledger'[Len(ledger) + k] = s[k]
  BY GrownFacts
<1>2. KeyHolds'
  <2> SUFFICES ASSUME NEW i \in DOMAIN ledger', NEW j \in DOMAIN ledger',
                      ledger'[i].ref # <<>>,
                      ledger'[i].source = ledger'[j].source,
                      ledger'[i].user = ledger'[j].user,
                      ledger'[i].ref = ledger'[j].ref
               PROVE  i = j
    BY DEF KeyHolds
  <2>1. CASE i \in DOMAIN ledger /\ j \in DOMAIN ledger
    BY <1>1, <2>1 DEF EntriesAreRight, KeyHolds
  <2>2. ASSUME NEW a \in DOMAIN ledger, NEW k \in 1..Len(s), s[k].ref # <<>>
        PROVE  ~(/\ ledger[a].source = s[k].source
                 /\ ledger[a].user = s[k].user
                 /\ ledger[a].ref = s[k].ref)
    BY <2>2 DEF Sound, Fits
  <2>3. CASE i \in DOMAIN ledger /\ j \notin DOMAIN ledger
    BY <1>1, <2>2, <2>3
  <2>4. CASE i \notin DOMAIN ledger /\ j \in DOMAIN ledger
    <3>1. PICK k \in 1..Len(s) : ledger'[i] = s[k]
      BY <1>1, <2>4
    <3>2. s[k].ref # <<>> /\ ledger'[j] = ledger[j]
      BY <1>1, <2>4, <3>1
    <3> QED BY <2>2, <2>4, <3>1, <3>2
  <2>5. CASE i \notin DOMAIN ledger /\ j \notin DOMAIN ledger
    <3>1. PICK k \in 1..Len(s) : i = Len(ledger) + k /\ ledger'[i] = s[k]
      BY <1>1, <2>5
    <3>2. PICK l \in 1..Len(s) : j = Len(ledger) + l /\ ledger'[j] = s[l]
      BY <1>1, <2>5
    <3>3. k = l
      BY <3>1, <3>2 DEF Sound
    <3> QED BY <3>1, <3>2, <3>3
  <2> QED BY <2>1, <2>3, <2>4, <2>5
<1>3. SpendsAreOne'
  <2> SUFFICES ASSUME NEW i \in DOMAIN ledger', ledger'[i].source \in {"ai_usage", "ai_metered"}
               PROVE  ledger'[i].delta = -1
    BY DEF SpendsAreOne, Spends
  <2>1. CASE i \in DOMAIN ledger
    BY <1>1, <2>1 DEF EntriesAreRight, SpendsAreOne, Spends
  <2>2. CASE i \notin DOMAIN ledger
    BY <1>1, <2>2 DEF Sound
  <2> QED BY <2>1, <2>2
<1>4. RefundsAreRight'
  <2> SUFFICES ASSUME NEW j \in DOMAIN ledger', ledger'[j].source = "ai_refund"
               PROVE  \E i \in Spends' : RefundOf(ledger[j], i)'
    BY DEF RefundsAreRight
  <2>1. \E i \in Spends : RefundOf(ledger'[j], i)
    <3>1. CASE j \in DOMAIN ledger
      BY <1>1, <3>1 DEF EntriesAreRight, RefundsAreRight
    <3>2. CASE j \notin DOMAIN ledger
      BY <1>1, <3>2 DEF Sound
    <3> QED BY <3>1, <3>2
  <2>2. PICK i \in Spends : RefundOf(ledger'[j], i)
    BY <2>1
  <2>3. i \in DOMAIN ledger /\ ledger'[i] = ledger[i]
    BY <1>1 DEF Spends
  <2>4. RefundOf(ledger[j], i)'
    BY <2>2, <2>3 DEF RefundOf
  <2> QED BY <2>2, <2>4
<1>5. AwardsAreRight'
  <2> SUFFICES ASSUME NEW i \in DOMAIN ledger', ledger'[i].source = "sponsor_reward"
               PROVE  \E o \in Orders : /\ ledger'[i].ref = <<"sponsor_order", o>>
                                       /\ ledger'[i].user = order'[o].user
                                       /\ ledger'[i].delta = order'[o].awarded
                                       /\ order'[o].awarded # 0
    BY DEF AwardsAreRight
  <2>1. CASE i \in DOMAIN ledger
    <3>1. PICK o \in Orders : /\ ledger[i].ref = <<"sponsor_order", o>>
                             /\ ledger[i].user = order[o].user
                             /\ ledger[i].delta = order[o].awarded
                             /\ order[o].awarded # 0
      BY <1>1, <2>1 DEF EntriesAreRight, AwardsAreRight
    <3>2. order'[o].user = order[o].user /\ order'[o].awarded = order[o].awarded
      BY <3>1 DEF Sound
    <3> QED BY <1>1, <2>1, <3>1, <3>2
  <2>2. CASE i \notin DOMAIN ledger
    BY <1>1, <2>2 DEF Sound
  <2> QED BY <2>1, <2>2
<1>6. AwardsAreBooked'
  <2> SUFFICES ASSUME NEW o \in Orders, order'[o].awarded # 0
               PROVE  \E i \in DOMAIN ledger' : /\ ledger'[i].source = "sponsor_reward"
                                               /\ ledger'[i].ref = <<"sponsor_order", o>>
    BY DEF AwardsAreBooked
  <2>1. CASE order'[o].awarded = order[o].awarded
    <3>1. PICK i \in DOMAIN ledger : /\ ledger[i].source = "sponsor_reward"
                                    /\ ledger[i].ref = <<"sponsor_order", o>>
      BY <2>1 DEF EntriesAreRight, AwardsAreBooked
    <3> QED BY <1>1, <3>1
  <2>2. CASE order'[o].awarded # order[o].awarded
    <3>1. PICK k \in 1..Len(s) : /\ s[k].source = "sponsor_reward"
                                /\ s[k].ref = <<"sponsor_order", o>>
      BY <2>2 DEF Sound
    <3> QED BY <1>1, <3>1
  <2> QED BY <2>1, <2>2
<1> QED BY <1>2, <1>3, <1>4, <1>5, <1>6 DEF EntriesAreRight

LEMMA QuietKeepsRight ==
  ASSUME EntriesAreRight, Quiet
  PROVE  EntriesAreRight'
<1>1. ledger' = ledger /\ Spends' = Spends
  BY DEF Quiet, Ledger, Spends
<1>2. KeyHolds' /\ SpendsAreOne' /\ RefundsAreRight'
  BY <1>1 DEF EntriesAreRight, KeyHolds, SpendsAreOne, RefundsAreRight, RefundOf
<1>3. AwardsAreRight' /\ AwardsAreBooked'
  BY <1>1 DEF EntriesAreRight, AwardsAreRight, AwardsAreBooked, Quiet, OrdersKept
<1> QED BY <1>2, <1>3 DEF EntriesAreRight

\* The invariant of the theorems on entries.
PointsInv == TypeOK /\ CallsKnow /\ EntriesAreRight

LEMMA PointsInvHolds == Spec => []PointsInv
<1>1. Init => PointsInv
  <2> SUFFICES ASSUME Init PROVE PointsInv
    OBVIOUS
  <2>1. TypeOK
    BY EmptySeq DEF Init, TypeOK, Order, Question, Call
  <2>2. ledger = <<>> /\ DOMAIN ledger = {} /\ Spends = {}
    BY DEF Init, Spends
  <2>3. CallsKnow
    BY DEF Init, CallsKnow, Idle
  <2>4. \A o \in Orders : order[o].awarded = 0
    BY DEF Init
  <2> QED BY <2>1, <2>2, <2>3, <2>4
          DEF PointsInv, EntriesAreRight, KeyHolds, SpendsAreOne, RefundsAreRight,
              AwardsAreRight, AwardsAreBooked
<1>2. PointsInv /\ [Next]_vars => PointsInv'
  <2> SUFFICES ASSUME PointsInv, [Next]_vars PROVE PointsInv'
    OBVIOUS
  <2>1. TypeOK' /\ CallsKnow' /\ Booked /\ Spends \subseteq Spends'
    BY StepBooks, LedgerStays DEF PointsInv
  <2>2. EntriesAreRight'
    BY <2>1, BookedIsSound, SoundKeepsRight, QuietKeepsRight DEF PointsInv, EntriesAreRight
  <2> QED BY <2>1, <2>2 DEF PointsInv
<1> QED BY <1>1, <1>2, PTL DEF Spec

\* Every variable keeps its type: a handler never holds on to an order, a question or
\* an entry that it does not know, and the balances are numbers.
THEOREM TypeCorrect == Spec => []TypeOK
<1>1. PointsInv => TypeOK
  BY DEF PointsInv
<1> QED BY <1>1, PointsInvHolds, PTL

\* However often a refund is tried, from however many handlers, a refund gives back
\* what one call took, to whom it was taken from, and no call is refunded twice.
THEOREM CallsAreRefundedOnce == Spec => []RefundsUndoSpends
<1>1. PointsInv => RefundsUndoSpends
  <2> SUFFICES ASSUME PointsInv, NEW j \in DOMAIN ledger, ledger[j].source = "ai_refund"
               PROVE  \E i \in Spends : /\ Refunds(i) = {j}
                                       /\ ledger[i].user = ledger[j].user
                                       /\ ledger[i].delta = -ledger[j].delta
    BY DEF RefundsUndoSpends
  <2>1. PICK i \in Spends : RefundOf(ledger[j], i)
    BY DEF PointsInv, EntriesAreRight, RefundsAreRight
  <2>2. ledger[i].user = ledger[j].user /\ ledger[i].delta = -ledger[j].delta
    <3>1. ledger[i].delta = -1
      BY DEF PointsInv, EntriesAreRight, SpendsAreOne
    <3>2. ledger[j].delta = -ledger[i].delta /\ ledger[j].user = ledger[i].user
      BY <2>1 DEF RefundOf
    <3>3. \A a, b : b \in Int /\ a = -b => b = -a
      OBVIOUS
    <3>4. ledger[i].delta \in Int
      BY <3>1
    <3> QED BY <3>2, <3>3, <3>4
  <2>3. j \in Refunds(i)
    BY <2>1 DEF Refunds, RefundOf
  <2>4. ASSUME NEW k \in Refunds(i) PROVE k = j
    <3>1. k \in DOMAIN ledger /\ ledger[k].source = "ai_refund"
          /\ ledger[k].ref = <<"point_ledger", i>>
      BY <2>4 DEF Refunds
    <3>2. PICK l \in Spends : RefundOf(ledger[k], l)
      BY <3>1 DEF PointsInv, EntriesAreRight, RefundsAreRight
    <3>3. l = i
      BY <3>1, <3>2 DEF RefundOf
    <3>4. /\ ledger[k].user = ledger[j].user /\ ledger[k].ref = ledger[j].ref
          /\ ledger[k].ref # <<>>
      BY <2>1, <3>2, <3>3 DEF RefundOf
    <3> QED BY <3>1, <3>4 DEF PointsInv, EntriesAreRight, KeyHolds
  <2> QED BY <2>2, <2>3, <2>4
<1> QED BY <1>1, PointsInvHolds, PTL

\* Whatever order notifications, closings, administrators' changes and backfills come
\* in: an order has one award in the ledger, of the user and amount it records, or none.
THEOREM OrdersAreAwardedOnce == Spec => []AwardsMatchLedger
<1>1. PointsInv => AwardsMatchLedger
  <2> SUFFICES ASSUME PointsInv, NEW o \in Orders
               PROVE  LET es == {i \in DOMAIN ledger : /\ ledger[i].source = "sponsor_reward"
                                                      /\ ledger[i].ref = <<"sponsor_order", o>>}
                      IN IF order[o].awarded = 0 THEN es = {}
                         ELSE \E i \in es : /\ es = {i}
                                            /\ ledger[i].user = order[o].user
                                            /\ ledger[i].delta = order[o].awarded
    BY DEF AwardsMatchLedger
  <2> DEFINE es == {i \in DOMAIN ledger : /\ ledger[i].source = "sponsor_reward"
                                         /\ ledger[i].ref = <<"sponsor_order", o>>}
  <2>1. ASSUME NEW i \in es
        PROVE  /\ ledger[i].user = order[o].user /\ ledger[i].delta = order[o].awarded
               /\ order[o].awarded # 0
    <3>1. PICK p \in Orders : /\ ledger[i].ref = <<"sponsor_order", p>>
                             /\ ledger[i].user = order[p].user
                             /\ ledger[i].delta = order[p].awarded
                             /\ order[p].awarded # 0
      BY DEF PointsInv, EntriesAreRight, AwardsAreRight
    <3>2. p = o
      BY <3>1
    <3> QED BY <3>1, <3>2
  <2>2. ASSUME NEW i \in es, NEW j \in es PROVE i = j
    <3>1. ledger[i].user = ledger[j].user /\ ledger[i].ref # <<>>
      BY <2>1
    <3> QED BY <3>1 DEF PointsInv, EntriesAreRight, KeyHolds
  <2>3. order[o].awarded # 0 => es # {}
    BY DEF PointsInv, EntriesAreRight, AwardsAreBooked
  <2> HIDE DEF es
  <2>4. order[o].awarded = 0 => es = {}
    BY <2>1
  <2>5. order[o].awarded # 0 => \E i \in es : es = {i}
    BY <2>2, <2>3
  <2> QED BY <2>1, <2>4, <2>5 DEF es
<1> QED BY <1>1, PointsInvHolds, PTL

\* However many answers are accepted at once, a reward is paid for a question that had
\* no accepted answer, and has one now.
THEOREM RewardsClaimQuestions == Spec => RewardNeedsOpenQuestion
<1> DEFINE A == \A q \in Questions :
       (\E i \in DOMAIN ledger' \ DOMAIN ledger :
          /\ ledger'[i].source = "question_bounty_reward"
          /\ ledger'[i].ref = <<"question_topic", q>>)
       => question[q].accepted = "none" /\ question'[q].accepted # "none"
<1>1. PointsInv /\ [Next]_vars => [A]_vars
  <2> SUFFICES ASSUME PointsInv, [Next]_vars PROVE A
    OBVIOUS
  <2>1. Booked /\ TypeOK /\ SpendsAreOne
    BY StepBooks DEF PointsInv, EntriesAreRight
  <2>2. CASE Quiet
    BY <2>2 DEF Quiet, Ledger
  <2>3. ASSUME NEW s, Len(s) \in Nat, Adds(s), Sound(s) PROVE A
    <3> SUFFICES ASSUME NEW q \in Questions, NEW i \in DOMAIN ledger' \ DOMAIN ledger,
                        ledger'[i].source = "question_bounty_reward",
                        ledger'[i].ref = <<"question_topic", q>>
                 PROVE  question[q].accepted = "none" /\ question'[q].accepted # "none"
      OBVIOUS
    <3>1. PICK k \in 1..Len(s) : ledger'[i] = s[k]
      BY <2>1, <2>3, GrownFacts
    <3>2. PICK p \in Questions : /\ s[k].ref = <<"question_topic", p>>
                                /\ question[p].accepted = "none"
                                /\ question'[p].accepted # "none"
      BY <2>3, <3>1 DEF Sound
    <3>3. p = q
      BY <3>1, <3>2
    <3> QED BY <3>2, <3>3
  <2> QED BY <2>1, <2>2, <2>3, BookedIsSound
<1> QED BY <1>1, PointsInvHolds, PTL DEF Spec, RewardNeedsOpenQuestion

-------------------------------------------------------------------------------
(* Debts.                                                                   *)

Owed(u) == {i \in DOMAIN ledger : /\ ledger[i].user = u
                                  /\ ledger[i].source = "ai_metered"
                                  /\ Refunds(i) = {}}

LEMMA OwedFinite ==
  ASSUME TypeOK, NEW u
  PROVE  IsFiniteSet(Owed(u)) /\ Cardinality(Owed(u)) \in Nat
<1>1. Owed(u) \subseteq 1..Len(ledger) /\ IsFiniteSet(1..Len(ledger))
  BY LedgerFacts, FS_Interval DEF TypeOK, Owed
<1> QED BY <1>1, FS_Subset, FS_CardinalityType

\* Entries that neither are metered nor refund leave the debts as they are.
LEMMA OwedStays ==
  ASSUME PointsInv, NEW s, Len(s) \in Nat, Adds(s),
         \A k \in 1..Len(s) : s[k].source \notin {"ai_metered", "ai_refund"}
  PROVE  \A u : Owed(u)' = Owed(u)
<1>1. /\ \A i \in DOMAIN ledger : i \in DOMAIN ledger' /\ ledger'[i] = ledger[i]
      /\ \A i \in DOMAIN ledger' :
           i \in DOMAIN ledger \/ ledger'[i].source \notin {"ai_metered", "ai_refund"}
  BY GrownFacts DEF PointsInv
<1>2. \A i : Refunds(i)' = Refunds(i)
  BY <1>1 DEF Refunds
<1> QED BY <1>1, <1>2 DEF Owed

LEMMA OneGrows ==
  ASSUME TypeOK, NEW u, NEW delta, NEW source, NEW ref, One(u, delta, source, ref)
  PROVE  /\ Len(ledger) + 1 \in DOMAIN ledger' \ DOMAIN ledger
         /\ DOMAIN ledger' = DOMAIN ledger \cup {Len(ledger) + 1}
         /\ \A i \in DOMAIN ledger : ledger'[i] = ledger[i]
         /\ ledger'[Len(ledger) + 1].user = u
         /\ ledger'[Len(ledger) + 1].delta = delta
         /\ ledger'[Len(ledger) + 1].after = points[u] + delta
         /\ ledger'[Len(ledger) + 1].source = source
         /\ ledger'[Len(ledger) + 1].ref = ref
<1> DEFINE e == [user |-> u, delta |-> delta, after |-> points[u] + delta,
                 source |-> source, ref |-> ref]
           s == <<e>>
<1>1. Adds(s)
  BY DEF One
<1>2. Len(s) = 1 /\ s[1] = e
  OBVIOUS
<1> HIDE DEF s, e
<1>3. /\ Len(ledger) \in Nat /\ DOMAIN ledger = 1..Len(ledger)
      /\ DOMAIN ledger' = 1..(Len(ledger) + 1)
      /\ \A i \in DOMAIN ledger : ledger'[i] = ledger[i]
      /\ ledger'[Len(ledger) + 1] = e
  <2>1. Len(s) \in Nat /\ 1 \in 1..Len(s)
    BY <1>2
  <2>2. /\ Len(ledger) \in Nat /\ DOMAIN ledger = 1..Len(ledger)
        /\ DOMAIN ledger' = 1..(Len(ledger) + Len(s))
        /\ \A i \in DOMAIN ledger : ledger'[i] = ledger[i]
        /\ \A k \in 1..Len(s) : ledger'[Len(ledger) + k] = s[k]
    BY <1>1, <2>1, GrownFacts
  <2> QED BY <1>2, <2>1, <2>2
<1>4. 1..(Len(ledger) + 1) = 1..Len(ledger) \cup {Len(ledger) + 1}
  BY <1>3
<1> QED BY <1>3, <1>4 DEF e

\* A metered call is owed.
LEMMA MeteredOwes ==
  ASSUME PointsInv, DebtIsMetered, NEW u \in Users, Charging(u, "ai_metered")
  PROVE  DebtIsMetered'
<1> DEFINE L == Len(ledger) + 1
<1>1. /\ L \in DOMAIN ledger' \ DOMAIN ledger
      /\ DOMAIN ledger' = DOMAIN ledger \cup {L}
      /\ \A i \in DOMAIN ledger : ledger'[i] = ledger[i]
      /\ ledger'[L].source = "ai_metered" /\ ledger'[L].user = u
  <2>1. One(u, -1, "ai_metered", <<>>) /\ TypeOK
    BY DEF Charging, PointsInv
  <2> QED BY <2>1, OneGrows
<1>2. TypeOK /\ points' = [points EXCEPT ![u] = @ - 1]
  BY DEF Charging, One, PointsInv, TypeOK
<1> HIDE DEF L
<1>3. \A i : Refunds(i)' = Refunds(i)
  BY <1>1 DEF Refunds
<1>4. Refunds(L) = {}
  <2> SUFFICES ASSUME NEW j \in Refunds(L) PROVE FALSE
    OBVIOUS
  <2>1. /\ j \in DOMAIN ledger /\ ledger[j].source = "ai_refund"
        /\ ledger[j].ref = <<"point_ledger", L>>
    BY DEF Refunds
  <2>2. PICK i \in Spends : ledger[j].ref = <<"point_ledger", i>>
    BY <2>1 DEF PointsInv, EntriesAreRight, RefundsAreRight, RefundOf
  <2>3. i = L
    BY <2>1, <2>2
  <2> QED BY <1>1, <2>3 DEF Spends
<1>5. \A v \in Users : Owed(v)' = IF v = u THEN Owed(v) \cup {L} ELSE Owed(v)
  BY <1>1, <1>3, <1>4 DEF Owed
<1>6. L \notin Owed(u)
  BY <1>1 DEF Owed
<1>7. Cardinality(Owed(u) \cup {L}) = Cardinality(Owed(u)) + 1
  BY <1>2, <1>6, OwedFinite, FS_AddElement
<1>8. ASSUME NEW v \in Users PROVE points'[v] >= -Cardinality(Owed(v)')
  <2>1. points[v] >= -Cardinality(Owed(v)) /\ points[v] \in Int
        /\ Cardinality(Owed(v)) \in Nat
    BY <1>2, OwedFinite DEF DebtIsMetered, Owed, TypeOK
  <2>2. CASE v # u
    <3>1. points'[v] = points[v] /\ Owed(v)' = Owed(v)
      BY <1>2, <1>5, <2>2 DEF TypeOK
    <3> QED BY <2>1, <3>1
  <2>3. CASE v = u
    <3>1. points'[v] = points[v] - 1 /\ Cardinality(Owed(v)') = Cardinality(Owed(v)) + 1
      BY <1>2, <1>5, <1>7, <2>3 DEF TypeOK
    <3> QED BY <2>1, <3>1
  <2> QED BY <2>2, <2>3
<1> QED BY <1>8 DEF DebtIsMetered, Owed

\* A refund settles one call at most, and pays for it.
LEMMA RefundSettles ==
  ASSUME PointsInv, DebtIsMetered, NEW i \in Spends, Refunding(i)
  PROVE  DebtIsMetered'
<1> DEFINE L == Len(ledger) + 1
           u == ledger[i].user
<1>1. /\ L \in DOMAIN ledger' \ DOMAIN ledger
      /\ DOMAIN ledger' = DOMAIN ledger \cup {L}
      /\ \A j \in DOMAIN ledger : ledger'[j] = ledger[j]
      /\ ledger'[L].source = "ai_refund" /\ ledger'[L].ref = <<"point_ledger", i>>
  <2> DEFINE d == -ledger[i].delta
             v == ledger[i].user
             ref == <<"point_ledger", i>>
  <2>1. One(v, d, "ai_refund", ref) /\ TypeOK
    BY DEF Refunding, PointsInv
  <2> HIDE DEF d, v, ref
  <2>2. /\ L \in DOMAIN ledger' \ DOMAIN ledger
        /\ DOMAIN ledger' = DOMAIN ledger \cup {L}
        /\ \A j \in DOMAIN ledger : ledger'[j] = ledger[j]
        /\ ledger'[L].source = "ai_refund" /\ ledger'[L].ref = ref
    BY <2>1, OneGrows
  <2> QED BY <2>2 DEF ref
<1>2. /\ TypeOK /\ u \in Users /\ ledger[i].delta = -1 /\ i \in DOMAIN ledger
  BY LedgerFacts DEF PointsInv, EntriesAreRight, SpendsAreOne, Spends, TypeOK, Entry
<1>3. points' = [points EXCEPT ![u] = @ + 1]
  <2>1. points' = [points EXCEPT ![u] = @ + -ledger[i].delta]
    BY DEF Refunding, One
  <2>2. \A p, d \in Int : d + 1 = 0 => p + -d = p + 1
    OBVIOUS
  <2>3. ledger[i].delta \in Int /\ ledger[i].delta + 1 = 0
    BY <1>2
  <2>4. points[u] \in Int
    BY <1>2 DEF TypeOK
  <2>5. points[u] + -ledger[i].delta = points[u] + 1
    BY <2>2, <2>3, <2>4
  <2> QED BY <1>2, <2>1, <2>5 DEF TypeOK
<1> HIDE DEF L, u
<1>4. \A j \in DOMAIN ledger : Refunds(j)' = IF j = i THEN Refunds(j) \cup {L} ELSE Refunds(j)
  BY <1>1 DEF Refunds
<1>5. \A v : Owed(v)' = Owed(v) \ {i}
  BY <1>1, <1>4 DEF Owed
<1>6. \A v : v # u => i \notin Owed(v)
  BY DEF Owed, u
<1>7. ASSUME NEW v \in Users PROVE points'[v] >= -Cardinality(Owed(v)')
  <2>1. points[v] >= -Cardinality(Owed(v)) /\ points[v] \in Int
        /\ Cardinality(Owed(v)) \in Nat /\ IsFiniteSet(Owed(v))
    BY <1>2, OwedFinite DEF DebtIsMetered, Owed, TypeOK
  <2>2. CASE v # u
    <3>1. points'[v] = points[v] /\ Owed(v)' = Owed(v)
      BY <1>2, <1>3, <1>5, <1>6, <2>2 DEF TypeOK
    <3> QED BY <2>1, <3>1
  <2>3. CASE v = u
    <3>1. points'[v] = points[v] + 1
      BY <1>2, <1>3, <2>3 DEF TypeOK
    <3>2. /\ Cardinality(Owed(v) \ {i}) \in Nat
          /\ Cardinality(Owed(v) \ {i}) >= Cardinality(Owed(v)) - 1
      <4>1. CASE i \in Owed(v)
        BY <2>1, <4>1, FS_RemoveElement, FS_Subset, FS_CardinalityType
      <4>2. CASE i \notin Owed(v)
        <5>1. Owed(v) \ {i} = Owed(v)
          BY <4>2
        <5> QED BY <2>1, <5>1
      <4> QED BY <4>1, <4>2
    <3>3. Owed(v)' = Owed(v) \ {i}
      BY <1>5
    <3> DEFINE k == Cardinality(Owed(v) \ {i})
               m == Cardinality(Owed(v))
    <3>4. Cardinality(Owed(v)') = k
      BY <3>3
    <3> HIDE DEF k, m
    <3>5. k \in Nat /\ m \in Nat /\ k >= m - 1 /\ points[v] >= -m
      BY <2>1, <3>2 DEF k, m
    <3>6. points[v] + 1 >= -k
      BY <2>1, <3>5
    <3> QED BY <3>1, <3>4, <3>6
  <2> QED BY <2>2, <2>3
<1> QED BY <1>7 DEF DebtIsMetered, Owed

\* Without metered calls and refunds: no balance falls below what it was, or it stays
\* positive.
LEMMA OthersOweNothing ==
  ASSUME PointsInv, DebtIsMetered,
         \A u : Owed(u)' = Owed(u),
         \A u \in Users : points'[u] \in Int /\ (points'[u] >= points[u] \/ points'[u] >= 0)
  PROVE  DebtIsMetered'
<1>1. ASSUME NEW v \in Users PROVE points'[v] >= -Cardinality(Owed(v)')
  <2>1. points[v] >= -Cardinality(Owed(v)) /\ points[v] \in Int
        /\ Cardinality(Owed(v)) \in Nat
    BY OwedFinite DEF DebtIsMetered, Owed, TypeOK, PointsInv
  <2>2. Cardinality(Owed(v)') = Cardinality(Owed(v))
    OBVIOUS
  <2>3. points'[v] >= -Cardinality(Owed(v))
    BY <2>1
  <2> QED BY <2>2, <2>3
<1> QED BY <1>1 DEF DebtIsMetered, Owed

LEMMA OneRaises ==
  ASSUME PointsInv, DebtIsMetered, NEW u \in Users, NEW delta \in Int,
         delta >= 0 \/ points[u] + delta >= 0,
         NEW source, source \notin {"ai_metered", "ai_refund"}, NEW ref,
         One(u, delta, source, ref)
  PROVE  DebtIsMetered'
<1>1. \A v : Owed(v)' = Owed(v)
  <2> DEFINE e == [user |-> u, delta |-> delta, after |-> points[u] + delta,
                   source |-> source, ref |-> ref]
             s == <<e>>
  <2>1. Adds(s) /\ Len(s) = 1 /\ s[1].source = source
    BY DEF One
  <2> HIDE DEF s
  <2>2. \A k \in 1..Len(s) : s[k].source \notin {"ai_metered", "ai_refund"}
    BY <2>1
  <2> QED BY <2>1, <2>2, OwedStays
<1>2. points' = [points EXCEPT ![u] = @ + delta] /\ points \in [Users -> Int]
  BY DEF One, PointsInv, TypeOK
<1>3. \A v \in Users : points'[v] \in Int /\ (points'[v] >= points[v] \/ points'[v] >= 0)
  BY <1>2
<1> QED BY <1>1, <1>3, OthersOweNothing

LEMMA DebtStays ==
  ASSUME PointsInv, DebtIsMetered, Booked, TypeOK'
  PROVE  DebtIsMetered'
<1>1. CASE Quiet
  BY <1>1 DEF Quiet, Ledger, DebtIsMetered, Refunds
<1>2. ASSUME NEW us \in SUBSET Users, NEW s \in SetToSeqs(us), Granting(us, s)
      PROVE  DebtIsMetered'
  <2> DEFINE new == [i \in 1..Len(s) |-> Granted(s, i)]
  <2>1. Len(s) \in Nat
    BY FiniteSubsets, SeqsOf
  <2>2. Len(new) = Len(s) /\ \A k \in 1..Len(new) : new[k].source = "admin_grant"
    BY <2>1 DEF Granted
  <2>3. Adds(new)
    BY <1>2 DEF Granting
  <2> HIDE DEF new
  <2>4. \A u : Owed(u)' = Owed(u)
    BY <2>1, <2>2, <2>3, OwedStays
  <2>5. \A u \in Users : points'[u] \in Int /\ points'[u] >= points[u]
    BY <1>2 DEF Granting, PointsInv, TypeOK
  <2> QED BY <2>4, <2>5, OthersOweNothing
<1>3. ASSUME NEW u \in Users, Charging(u, "ai_usage") PROVE DebtIsMetered'
  <2>1. points[u] >= 1 /\ points[u] \in Int /\ One(u, -1, "ai_usage", <<>>)
    BY <1>3 DEF Charging, PointsInv, TypeOK
  <2>2. points[u] + -1 >= 0 /\ -1 \in Int
    BY <2>1
  <2> QED BY <2>1, <2>2, OneRaises
<1>4. ASSUME NEW o \in Orders, NEW n \in Nat \ {0}, Awarding(o, n) PROVE DebtIsMetered'
  <2>1. order[o].user \in Users
    BY DEF PointsInv, TypeOK, Order
  <2>2. One(order[o].user, n, "sponsor_reward", <<"sponsor_order", o>>)
    BY <1>4 DEF Awarding
  <2> QED BY <2>1, <2>2, OneRaises
<1>5. ASSUME NEW os \in SUBSET Orders, NEW n \in Nat \ {0}, NEW s \in SetToSeqs(os),
             Backfilling(os, s, n)
      PROVE  DebtIsMetered'
  <2> DEFINE new == [i \in 1..Len(s) |-> Backfilled(s, i, n)]
             mine(u) == {o \in os : order[o].user = u}
  <2>1. Len(s) \in Nat
    BY FiniteSubsets, SeqsOf
  <2>2. Len(new) = Len(s) /\ \A k \in 1..Len(new) : new[k].source = "sponsor_reward"
    BY <2>1 DEF Backfilled
  <2>3. Adds(new) /\ points' = [u \in Users |-> points[u] + n * Cardinality(mine(u))]
    BY <1>5 DEF Backfilling
  <2> HIDE DEF new
  <2>4. \A u : Owed(u)' = Owed(u)
    BY <2>1, <2>2, <2>3, OwedStays
  <2>5. ASSUME NEW u \in Users PROVE points'[u] \in Int /\ points'[u] >= points[u]
    <3>1. mine(u) \in SUBSET Orders
      OBVIOUS
    <3> DEFINE m == Cardinality(mine(u))
    <3>2. points'[u] = points[u] + n * m
      BY <2>3
    <3> HIDE DEF mine
    <3>3. m \in Nat
      BY <3>1, FiniteSubsets, FS_CardinalityType
    <3> HIDE DEF m
    <3>4. n * m \in Nat
      BY <3>3
    <3>5. points[u] \in Int
      BY DEF PointsInv, TypeOK
    <3> DEFINE p == n * m
    <3> HIDE DEF p
    <3>6. p \in Nat /\ points'[u] = points[u] + p
      BY <3>2, <3>4 DEF p
    <3> QED BY <3>5, <3>6
  <2> QED BY <2>4, <2>5, OthersOweNothing
<1>6. ASSUME NEW q \in Questions, NEW u \in Users, Rewarding(q, u) PROVE DebtIsMetered'
  <2>1. Reward \in Int /\ Reward >= 0
    BY ConstantsAssumption
  <2>2. One(u, Reward, "question_bounty_reward", <<"question_topic", q>>)
    BY <1>6 DEF Rewarding
  <2> QED BY <2>1, <2>2, OneRaises
<1> QED BY <1>1, <1>2, <1>3, <1>4, <1>5, <1>6, MeteredOwes, RefundSettles DEF Booked

\* Calls that are paid in advance never lead into debt, however many handlers charge
\* one user at once: below zero a balance goes by no more than the metered calls owe.
THEOREM OnlyMeteringOwes == Spec => []DebtIsMetered
<1>1. Init => DebtIsMetered
  <2> SUFFICES ASSUME Init, NEW u \in Users PROVE points[u] >= -Cardinality(Owed(u))
    BY DEF DebtIsMetered, Owed
  <2>1. Owed(u) = {} /\ points[u] = 0
    BY DEF Init, Owed
  <2> QED BY <2>1, FS_EmptySet
<1>2. PointsInv /\ DebtIsMetered /\ PointsInv' /\ [Next]_vars => DebtIsMetered'
  <2>1. PointsInv /\ [Next]_vars => Booked
    BY StepBooks DEF PointsInv
  <2> QED BY <2>1, DebtStays DEF PointsInv
<1> QED BY <1>1, <1>2, PointsInvHolds, PTL DEF Spec

-------------------------------------------------------------------------------
(* Balances.                                                                *)

\* What entry k of the new entries s starts from; after the last of them, what user
\* u has.
Starts(s, u, k) == IF k = Len(s) + 1 THEN points'[u] ELSE s[k].after - s[k].delta

\* The new entries carry the balance on.
Continues(s) ==
  \A u \in Users, k \in 1..Len(s)+1 : k = Len(s) + 1 \/ s[k].user = u =>
    /\ \A m \in 1..k-1 : s[m].user = u /\ (\A x \in m+1..k-1 : s[x].user # u)
         => Starts(s, u, k) = s[m].after
    /\ (\A m \in 1..k-1 : s[m].user # u) => Starts(s, u, k) = points[u]

\* LedgerExplainsBalance for user u at place i.
Explained(u, i) ==
  LET has == IF i = Len(ledger)+1 THEN points[u] ELSE ledger[i].after - ledger[i].delta
  IN i = Len(ledger)+1 \/ ledger[i].user = u =>
       /\ \A j \in 1..i-1 : LastBefore(u, j, i) => has = ledger[j].after
       /\ (\A j \in 1..i-1 : ledger[j].user # u) => has = 0

LEMMA ContinuesExplains ==
  ASSUME TypeOK, LedgerExplainsBalance, NEW s, Len(s) \in Nat, Adds(s), Continues(s)
  PROVE  LedgerExplainsBalance'
<1> DEFINE L == Len(ledger)
           N == Len(s)
<1>1. /\ L \in Nat /\ N \in Nat /\ Len(ledger') = L + N
      /\ \A i \in 1..L : ledger'[i] = ledger[i]
      /\ \A k \in 1..N : ledger'[L + k] = s[k]
  BY GrownFacts DEF Adds
<1>2. \A u \in Users, i \in 1..L+1 : Explained(u, i)
  BY DEF LedgerExplainsBalance, Explained
<1> SUFFICES ASSUME NEW u \in Users, NEW i \in 1..L+N+1 PROVE Explained(u, i)'
  BY <1>1 DEF LedgerExplainsBalance, Explained
<1> HIDE DEF L, N
<1>3. CASE i \in 1..L
  <2>1. i # L + 1 /\ i # L + N + 1 /\ i \in 1..L+1 /\ 1..i-1 \subseteq 1..L
    BY <1>1, <1>3
  <2>2. \A j \in 1..i-1 : \A k \in j+1..i-1 : k \in 1..L
    BY <1>1, <1>3
  <2>3. \A j \in 1..i-1 : LastBefore(u, j, i)' <=> LastBefore(u, j, i)
    BY <1>1, <2>1, <2>2 DEF LastBefore
  <2>4. ledger'[i] = ledger[i] /\ \A j \in 1..i-1 : ledger'[j] = ledger[j]
    BY <1>1, <1>3, <2>1
  <2>5. Explained(u, i)
    BY <1>2, <2>1
  <2> QED BY <1>1, <2>1, <2>3, <2>4, <2>5 DEF Explained, L
<1>4. ASSUME NEW k \in 1..N+1, i = L + k PROVE Explained(u, i)'
  <2>1. L + 1 \in 1..L+1
    BY <1>1
  <2>2. /\ \A j \in 1..L : LastBefore(u, j, L + 1) => points[u] = ledger[j].after
        /\ (\A j \in 1..L : ledger[j].user # u) => points[u] = 0
    BY <1>1, <1>2, <2>1 DEF Explained, L
  <2> DEFINE has == IF i = L + N + 1 THEN points'[u] ELSE ledger'[i].after - ledger'[i].delta
  <2>3. ASSUME i = L + N + 1 \/ ledger'[i].user = u
        PROVE  /\ has = Starts(s, u, k)
               /\ k = N + 1 \/ s[k].user = u
    <3>1. CASE k = N + 1
      <4>1. i = L + N + 1
        BY <1>1, <1>4, <3>1
      <4> QED BY <3>1, <4>1 DEF Starts, N
    <3>2. CASE k # N + 1
      <4>1. k \in 1..N /\ i # L + N + 1
        BY <1>1, <1>4, <3>2
      <4> QED BY <1>1, <1>4, <2>3, <3>2, <4>1 DEF Starts, N
    <3> QED BY <3>1, <3>2
  <2>4. ASSUME i = L + N + 1 \/ ledger'[i].user = u
        PROVE  /\ \A m \in 1..k-1 : s[m].user = u /\ (\A x \in m+1..k-1 : s[x].user # u)
                    => has = s[m].after
               /\ (\A m \in 1..k-1 : s[m].user # u) => has = points[u]
    <3>1. k \in 1..Len(s)+1
      BY DEF N
    <3> HIDE DEF has
    <3> QED BY <2>3, <2>4, <3>1 DEF Continues, N
  <2>5. ASSUME i = L + N + 1 \/ ledger'[i].user = u,
               NEW j \in 1..i-1, LastBefore(u, j, i)'
        PROVE  has = ledger'[j].after
    <3>1. ledger'[j].user = u /\ \A x \in j+1..i-1 : ledger'[x].user # u
      BY <2>5 DEF LastBefore
    <3>2. CASE j \in 1..L
      <4>1. ASSUME NEW m \in 1..k-1 PROVE s[m].user # u
        <5>1. L + m \in j+1..i-1 /\ m \in 1..N
          BY <1>1, <1>4, <3>2
        <5> QED BY <1>1, <3>1, <5>1
      <4>2. LastBefore(u, j, L + 1)
        <5>1. ASSUME NEW x \in j+1..L+1-1 PROVE ledger[x].user # u
          <6>1. x \in 1..L /\ x \in j+1..i-1
            BY <1>1, <1>4, <3>2
          <6> QED BY <1>1, <3>1, <6>1
        <5> QED BY <1>1, <3>1, <3>2, <5>1 DEF LastBefore
      <4> HIDE DEF has
      <4>3. has = points[u]
        BY <2>4, <2>5, <4>1
      <4>4. points[u] = ledger[j].after
        BY <2>2, <3>2, <4>2
      <4> QED BY <1>1, <3>2, <4>3, <4>4
    <3>3. CASE j \notin 1..L
      <4> DEFINE m == j - L
      <4>1. m \in 1..k-1 /\ m \in 1..N /\ j = L + m
        BY <1>1, <1>4, <3>3
      <4> HIDE DEF m
      <4>2. ASSUME NEW x \in m+1..k-1 PROVE s[x].user # u
        <5>1. L + x \in j+1..i-1 /\ x \in 1..N
          BY <1>1, <1>4, <4>1
        <5> QED BY <1>1, <3>1, <5>1
      <4>3. s[m].user = u /\ ledger'[j] = s[m]
        BY <1>1, <3>1, <4>1
      <4> HIDE DEF has
      <4> QED BY <2>4, <2>5, <4>1, <4>2, <4>3
    <3> QED BY <3>2, <3>3
  <2>6. ASSUME i = L + N + 1 \/ ledger'[i].user = u,
               \A j \in 1..i-1 : ledger'[j].user # u
        PROVE  has = 0
    <3>1. ASSUME NEW m \in 1..k-1 PROVE s[m].user # u
      <4>1. L + m \in 1..i-1 /\ m \in 1..N
        BY <1>1, <1>4
      <4> QED BY <1>1, <2>6, <4>1
    <3>2. ASSUME NEW j \in 1..L PROVE ledger[j].user # u
      <4>1. j \in 1..i-1
        BY <1>1, <1>4
      <4> QED BY <1>1, <2>6, <4>1
    <3> HIDE DEF has
    <3> QED BY <2>2, <2>4, <2>6, <3>1, <3>2
  <2>7. has = IF i = Len(ledger') + 1 THEN points'[u] ELSE ledger'[i].after - ledger'[i].delta
    BY <1>1
  <2> HIDE DEF has
  <2> QED BY <1>1, <2>5, <2>6, <2>7 DEF Explained
<1>5. i \in 1..L \/ \E k \in 1..N+1 : i = L + k
  <2>1. i \notin 1..L => i - L \in 1..N+1 /\ i = L + (i - L)
    BY <1>1
  <2> QED BY <2>1
<1> QED BY <1>3, <1>4, <1>5

LEMMA OneContinues ==
  ASSUME TypeOK, NEW u \in Users, NEW delta \in Int, NEW source, NEW ref,
         One(u, delta, source, ref)
  PROVE  \E s : Len(s) \in Nat /\ Adds(s) /\ Continues(s)
<1> DEFINE e == [user |-> u, delta |-> delta, after |-> points[u] + delta,
                 source |-> source, ref |-> ref]
           s == <<e>>
<1>1. Adds(s) /\ points' = [points EXCEPT ![u] = @ + delta]
  BY DEF One
<1>2. Len(s) = 1 /\ s[1].user = u /\ s[1].after = points[u] + delta /\ s[1].delta = delta
  OBVIOUS
<1> HIDE DEF s
<1>3. points[u] \in Int /\ points'[u] = points[u] + delta
      /\ \A v \in Users : v # u => points'[v] = points[v]
  BY <1>1 DEF TypeOK
<1>4. (points[u] + delta) - delta = points[u]
  BY <1>3
<1>5. Starts(s, u, 1) = points[u] /\ \A v : Starts(s, v, 2) = points'[v]
  BY <1>2, <1>4 DEF Starts
<1>6. Continues(s)
  <2> SUFFICES ASSUME NEW v \in Users, NEW k \in 1..2, k = 2 \/ s[k].user = v
               PROVE  /\ \A m \in 1..k-1 : s[m].user = v /\ (\A x \in m+1..k-1 : s[x].user # v)
                           => Starts(s, v, k) = s[m].after
                      /\ (\A m \in 1..k-1 : s[m].user # v) => Starts(s, v, k) = points[v]
    BY <1>2 DEF Continues
  <2>1. CASE k = 1
    BY <1>2, <1>5, <2>1
  <2>2. CASE k = 2
    <3>1. 1..k-1 = {1}
      BY <2>2
    <3> QED BY <1>2, <1>3, <1>5, <2>2, <3>1
  <2> QED BY <2>1, <2>2
<1> QED BY <1>1, <1>2, <1>6

LEMMA GrantContinues ==
  ASSUME TypeOK, NEW us \in SUBSET Users, NEW s \in SetToSeqs(us), Granting(us, s)
  PROVE  \E t : Len(t) \in Nat /\ Adds(t) /\ Continues(t)
<1> DEFINE t == [i \in 1..Len(s) |-> Granted(s, i)]
           N == Len(s)
<1>1. /\ N \in Nat
      /\ \A i \in 1..N : s[i] \in us
      /\ \A i, j \in 1..N : s[i] = s[j] => i = j
      /\ \A u \in us : \E i \in 1..N : s[i] = u
  BY FiniteSubsets, SeqsOf
<1>2. Len(t) = N /\ \A k \in 1..N : /\ t[k].user = s[k] /\ t[k].delta = 1
                                   /\ t[k].after = points[s[k]] + 1
  BY <1>1 DEF Granted
<1>3. Adds(t) /\ points' = [u \in Users |-> IF u \in us THEN points[u] + 1 ELSE points[u]]
  BY DEF Granting
<1> HIDE DEF t, N
<1>4. \A u \in Users : points[u] \in Int
  BY DEF TypeOK
<1>5. Continues(t)
  <2> SUFFICES ASSUME NEW u \in Users, NEW k \in 1..N+1, k = N + 1 \/ t[k].user = u
               PROVE  /\ \A m \in 1..k-1 : t[m].user = u /\ (\A x \in m+1..k-1 : t[x].user # u)
                           => Starts(t, u, k) = t[m].after
                      /\ (\A m \in 1..k-1 : t[m].user # u) => Starts(t, u, k) = points[u]
    BY <1>2 DEF Continues
  <2>1. CASE k = N + 1
    <3>1. Starts(t, u, k) = points'[u] /\ 1..k-1 = 1..N
      BY <1>1, <1>2, <2>1 DEF Starts
    <3>2. ASSUME NEW m \in 1..N, t[m].user = u PROVE points'[u] = t[m].after
      BY <1>1, <1>2, <1>3, <3>2
    <3>3. ASSUME \A m \in 1..N : t[m].user # u PROVE points'[u] = points[u]
      BY <1>1, <1>2, <1>3, <3>3
    <3> QED BY <3>1, <3>2, <3>3
  <2>2. CASE k # N + 1
    <3>1. k \in 1..N /\ s[k] = u /\ t[k].delta = 1 /\ t[k].after = points[u] + 1
      BY <1>1, <1>2, <2>2
    <3>2. ASSUME NEW m \in 1..k-1 PROVE t[m].user # u
      <4>1. m \in 1..N /\ m # k
        BY <1>1, <3>1
      <4> QED BY <1>1, <1>2, <3>1, <4>1
    <3>3. Starts(t, u, k) = points[u]
      <4>1. Starts(t, u, k) = (points[u] + 1) - 1
        BY <1>2, <2>2, <3>1 DEF Starts
      <4> QED BY <1>4, <4>1
    <3> QED BY <3>2, <3>3
  <2> QED BY <2>1, <2>2
<1> QED BY <1>1, <1>2, <1>3, <1>5

LEMMA BackfillContinues ==
  ASSUME TypeOK, NEW os \in SUBSET Orders, NEW n \in Nat \ {0}, NEW s \in SetToSeqs(os),
         Backfilling(os, s, n)
  PROVE  \E t : Len(t) \in Nat /\ Adds(t) /\ Continues(t)
<1> DEFINE t == [i \in 1..Len(s) |-> Backfilled(s, i, n)]
           N == Len(s)
           of(j) == order[s[j]].user
           C(u, k) == {j \in 1..k : of(j) = u}
           mine(u) == {o \in os : order[o].user = u}
           has(u, k) == points[u] + n * Cardinality(C(u, k))
<1>1. /\ N \in Nat
      /\ \A i \in 1..N : s[i] \in os
      /\ \A i, j \in 1..N : s[i] = s[j] => i = j
      /\ \A o \in os : \E i \in 1..N : s[i] = o
  BY FiniteSubsets, SeqsOf
<1>2. Len(t) = N /\ \A k \in 1..N : /\ t[k].user = of(k) /\ t[k].delta = n
                                   /\ t[k].after = has(of(k), k)
  <2>1. ASSUME NEW k \in 1..N
        PROVE  /\ t[k].user = of(k) /\ t[k].delta = n
               /\ t[k].after = has(of(k), k)
    <3>1. t[k] = Backfilled(s, k, n)
      OBVIOUS
    <3>2. Backfilled(s, k, n) = [user |-> of(k), delta |-> n, after |-> has(of(k), k),
                                 source |-> "sponsor_reward",
                                 ref |-> <<"sponsor_order", s[k]>>]
      BY DEF Backfilled
    <3> HIDE DEF t, of, has
    <3> QED BY <3>1, <3>2
  <2> QED BY <1>1, <2>1
<1>3. /\ Adds(t)
      /\ points' = [u \in Users |-> points[u] + n * Cardinality(mine(u))]
  BY DEF Backfilling
<1> HIDE DEF t
<1>4. ASSUME NEW u, NEW k \in 0..N
      PROVE  IsFiniteSet(C(u, k)) /\ Cardinality(C(u, k)) \in Nat
  <2>1. IsFiniteSet(1..k) /\ C(u, k) \subseteq 1..k
    BY <1>1, <1>4, FS_Interval
  <2> HIDE DEF C
  <2> QED BY <2>1, FS_Subset, FS_CardinalityType
<1>5. ASSUME NEW u PROVE Cardinality(mine(u)) = Cardinality(C(u, N))
  <2> DEFINE f == [j \in C(u, N) |-> s[j]]
  <2>1. \A j \in C(u, N) : j \in 1..N /\ f[j] \in mine(u)
    BY <1>1
  <2>2. f \in [C(u, N) -> mine(u)]
    BY <2>1
  <2>3. \A i, j \in C(u, N) : f[i] = f[j] => i = j
    BY <1>1, <2>1
  <2>4. \A o \in mine(u) : \E j \in C(u, N) : f[j] = o
    <3> SUFFICES ASSUME NEW o \in mine(u) PROVE \E j \in C(u, N) : f[j] = o
      OBVIOUS
    <3>1. PICK j \in 1..N : s[j] = o
      BY <1>1
    <3>2. j \in C(u, N)
      BY <3>1
    <3> QED BY <3>1, <3>2
  <2>5. IsFiniteSet(C(u, N))
    <3>1. N \in 0..N
      BY <1>1
    <3> HIDE DEF C
    <3> QED BY <1>4, <3>1
  <2> HIDE DEF C, mine, f
  <2>6. ExistsBijection(C(u, N), mine(u))
    BY <2>2, <2>3, <2>4 DEF ExistsBijection, Bijection, Injection, IsInjective, Surjection
  <2> QED BY <2>5, <2>6, FS_Bijection
<1>6. ASSUME NEW u \in Users PROVE points[u] \in Int /\ has(u, N) = points'[u]
  BY <1>3, <1>5 DEF TypeOK
<1>7. ASSUME NEW u \in Users, NEW k \in 1..N, of(k) = u
      PROVE  has(u, k) - n = has(u, k - 1)
  <2>1. k - 1 \in 0..N /\ C(u, k) = C(u, k - 1) \cup {k} /\ k \notin C(u, k - 1)
    BY <1>1, <1>7
  <2> DEFINE c == Cardinality(C(u, k - 1))
  <2>2. c \in Nat /\ Cardinality(C(u, k)) = c + 1
    <3> HIDE DEF C
    <3> QED BY <1>4, <2>1, FS_AddElement
  <2>3. points[u] \in Int /\ n \in Int
    BY DEF TypeOK
  <2>4. has(u, k) = points[u] + n * (c + 1) /\ has(u, k - 1) = points[u] + n * c
    BY <2>2
  <2> HIDE DEF c, has
  <2> DEFINE p == n * c
  <2>5. n * (c + 1) = p + n /\ p \in Int
    BY <2>2, <2>3
  <2>6. has(u, k) = points[u] + (p + n) /\ has(u, k - 1) = points[u] + p
    BY <2>4, <2>5
  <2> HIDE DEF p
  <2> QED BY <2>3, <2>5, <2>6
<1>8. ASSUME NEW u, NEW m \in 0..N, NEW k \in 0..N, m <= k,
             \A x \in m+1..k : of(x) # u
      PROVE  has(u, k) = has(u, m)
  <2>1. ASSUME NEW j \in C(u, k) PROVE j \in C(u, m)
    <3>1. j \in 1..k /\ of(j) = u /\ j \notin m+1..k
      BY <1>8
    <3> QED BY <1>1, <1>8, <3>1
  <2>2. C(u, m) \subseteq C(u, k)
    BY <1>1, <1>8
  <2>3. C(u, k) = C(u, m)
    <3> HIDE DEF C
    <3> QED BY <2>1, <2>2
  <2> HIDE DEF C
  <2> QED BY <2>3
<1>9. ASSUME NEW u \in Users PROVE has(u, 0) = points[u]
  <2>1. C(u, 0) = {}
    OBVIOUS
  <2> HIDE DEF C
  <2>2. Cardinality(C(u, 0)) = 0
    BY <2>1, FS_EmptySet
  <2>3. n * 0 = 0 /\ points[u] + 0 = points[u]
    BY <1>6
  <2> QED BY <2>2, <2>3
<1> HIDE DEF has, N, C
<1>10. Continues(t)
  <2> SUFFICES ASSUME NEW u \in Users, NEW k \in 1..N+1, k = N + 1 \/ t[k].user = u
               PROVE  /\ \A m \in 1..k-1 : t[m].user = u /\ (\A x \in m+1..k-1 : t[x].user # u)
                           => Starts(t, u, k) = t[m].after
                      /\ (\A m \in 1..k-1 : t[m].user # u) => Starts(t, u, k) = points[u]
    BY <1>2 DEF Continues
  <2>1. Starts(t, u, k) = has(u, k - 1)
    <3>1. CASE k = N + 1
      <4>1. k - 1 = N /\ Starts(t, u, k) = points'[u]
        BY <1>1, <1>2, <3>1 DEF Starts
      <4> QED BY <1>6, <4>1
    <3>2. CASE k # N + 1
      <4>1. k \in 1..N /\ of(k) = u
        BY <1>1, <1>2, <3>2
      <4>2. Starts(t, u, k) = has(u, k) - n
        BY <1>2, <3>2, <4>1 DEF Starts
      <4> QED BY <1>7, <4>1, <4>2
    <3> QED BY <3>1, <3>2
  <2>2. k - 1 \in 0..N /\ 1..k-1 \subseteq 1..N
    BY <1>1
  <2>3. ASSUME NEW m \in 1..k-1, t[m].user = u, \A x \in m+1..k-1 : t[x].user # u
        PROVE  Starts(t, u, k) = t[m].after
    <3>1. m \in 1..N /\ m \in 0..N /\ m <= k - 1 /\ m+1..k-1 \subseteq 1..N
      BY <1>1, <2>2
    <3>2. of(m) = u /\ \A x \in m+1..k-1 : of(x) # u
      BY <1>2, <2>3, <3>1
    <3>3. has(u, k - 1) = has(u, m)
      BY <1>8, <2>2, <3>1, <3>2
    <3> QED BY <1>2, <2>1, <3>1, <3>2, <3>3
  <2>4. ASSUME \A m \in 1..k-1 : t[m].user # u PROVE Starts(t, u, k) = points[u]
    <3>1. 0 \in 0..N /\ 0 <= k - 1 /\ 0+1..k-1 = 1..k-1
      BY <1>1, <2>2
    <3>2. \A x \in 0+1..k-1 : of(x) # u
      BY <1>2, <2>2, <2>4, <3>1
    <3>3. has(u, k - 1) = has(u, 0)
      BY <1>8, <2>2, <3>1, <3>2
    <3> QED BY <1>9, <2>1, <3>3
  <2> QED BY <2>3, <2>4
<1> QED BY <1>1, <1>2, <1>3, <1>10

LEMMA BalancesStay ==
  ASSUME PointsInv, LedgerExplainsBalance, Booked
  PROVE  LedgerExplainsBalance'
<1> USE DEF PointsInv
<1>1. CASE Quiet
  BY <1>1 DEF Quiet, Ledger, LedgerExplainsBalance, LastBefore
<1>2. ASSUME \E s : Len(s) \in Nat /\ Adds(s) /\ Continues(s)
      PROVE  LedgerExplainsBalance'
  BY <1>2, ContinuesExplains
<1>3. ASSUME NEW u \in Users, NEW delta \in Int, NEW source, NEW ref,
             One(u, delta, source, ref)
      PROVE  LedgerExplainsBalance'
  BY <1>2, <1>3, OneContinues
<1>4. ASSUME NEW us \in SUBSET Users, NEW s \in SetToSeqs(us), Granting(us, s)
      PROVE  LedgerExplainsBalance'
  BY <1>2, <1>4, GrantContinues
<1>5. ASSUME NEW u \in Users, Charging(u, "ai_usage") \/ Charging(u, "ai_metered")
      PROVE  LedgerExplainsBalance'
  BY <1>3, <1>5 DEF Charging
<1>6. ASSUME NEW i \in Spends, Refunding(i) PROVE LedgerExplainsBalance'
  <2>1. ledger[i].user \in Users /\ ledger[i].delta \in Int
    BY LedgerFacts DEF TypeOK, Spends, Entry
  <2>2. -ledger[i].delta \in Int
    BY <2>1
  <2> QED BY <1>3, <1>6, <2>1, <2>2 DEF Refunding
<1>7. ASSUME NEW o \in Orders, NEW n \in Nat \ {0}, Awarding(o, n)
      PROVE  LedgerExplainsBalance'
  <2>1. order[o].user \in Users
    BY DEF TypeOK, Order
  <2> QED BY <1>3, <1>7, <2>1 DEF Awarding
<1>8. ASSUME NEW os \in SUBSET Orders, NEW n \in Nat \ {0}, NEW s \in SetToSeqs(os),
             Backfilling(os, s, n)
      PROVE  LedgerExplainsBalance'
  BY <1>2, <1>8, BackfillContinues
<1>9. ASSUME NEW q \in Questions, NEW u \in Users, Rewarding(q, u)
      PROVE  LedgerExplainsBalance'
  <2>1. Reward \in Int
    BY ConstantsAssumption
  <2> QED BY <1>3, <1>9, <2>1 DEF Rewarding
<1> QED BY <1>1, <1>4, <1>5, <1>6, <1>7, <1>8, <1>9 DEF Booked

\* Every balance is what the ledger says, entry by entry, in whatever order handlers
\* book, and whether they book one entry or a batch.
THEOREM LedgerAccountsForBalances == Spec => []LedgerExplainsBalance
<1>1. Init => LedgerExplainsBalance
  <2> SUFFICES ASSUME Init PROVE LedgerExplainsBalance
    OBVIOUS
  <2>1. ledger = <<>> /\ Len(ledger) = 0 /\ \A u \in Users : points[u] = 0
    BY DEF Init
  <2>2. \A i \in 1..Len(ledger)+1 : i = Len(ledger) + 1 /\ 1..i-1 = {}
    BY <2>1
  <2> QED BY <2>1, <2>2 DEF LedgerExplainsBalance
<1>2. PointsInv /\ LedgerExplainsBalance /\ [Next]_vars => LedgerExplainsBalance'
  BY StepBooks, BalancesStay DEF PointsInv
<1> QED BY <1>1, <1>2, PointsInvHolds, PTL DEF Spec

===============================================================================
