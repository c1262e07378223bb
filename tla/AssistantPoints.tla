---------------------------- MODULE AssistantPoints ----------------------------
(***************************************************************************)
(* The AI points of users and their ledger (campusAssistantPoints.ts), and *)
(* what pays points in: a sponsor's order (payments.ts, sponsor.ts, the    *)
(* administrator's routes) and the bounty of a question (questionBounty.ts, *)
(* topic.ts).                                                              *)
(*                                                                         *)
(* The database runs transactions at READ COMMITTED.  What a handler reads *)
(* without a lock is a step of its own and may be stale later on.  From    *)
(* its first UPDATE a transaction holds the row until it commits, each     *)
(* UPDATE sees the row as it is, and nobody sees the rest before the       *)
(* commit, so that from there on it is one step.                           *)
(***************************************************************************)
EXTENDS Integers, Sequences, FiniteSets, SequencesExt

CONSTANTS
  Users,      \* whose points are kept; they sponsor and answer questions
  Orders,     \* sponsors' orders, of one amount each
  Questions,
  Calls,      \* handlers at work at one time, in whatever processes
  Rates,      \* points for an order, as the setting has it when the order is paid
  Reward,     \* points for an accepted answer
  Texts,      \* what an author may write into a question's metadata
  MaxEntries  \* bound: entries in the ledger

ASSUME ConstantsAssumption ==
  /\ Rates \subseteq Nat /\ Reward \in Nat \ {0} /\ MaxEntries \in Nat
  /\ IsFiniteSet(Users) /\ IsFiniteSet(Orders)
  /\ "none" \notin Users

VARIABLES
  points,    \* points[u]: the balance of user u
  ledger,    \* its entries, in the order of their ids
  order,     \* order[o]: whose it is, its status, and the points awarded
  question,  \* question[q]: its metadata
  call       \* call[c]: what handler c has read, and is about to do with it

vars == <<points, ledger, order, question, call>>

\* What the entries refer to: an order, a question, or another entry.
Refs == {<<>>} \cup {"sponsor_order"} \X Orders
               \cup {"question_topic"} \X Questions
               \cup {"point_ledger"} \X Nat

\* "ai_metered" is the part of "ai_usage" that is booked after the call.
Entry == [user : Users, delta : Int, after : Int,
          source : {"admin_grant", "sponsor_reward", "question_bounty_reward",
                    "ai_usage", "ai_metered", "ai_refund"},
          ref : Refs]

Order == [user : Users, status : {"pending", "paid", "closed"}, awarded : Nat]

\* accepted: the author of the accepted answer.
Question == [accepted : Users \cup {"none"}, text : Texts]

Idle == [op |-> "none"]

Call ==
  {Idle}
  \cup [op : {"notify"}, order : Orders]
  \cup [op : {"patch"}, order : Orders, to : {"pending", "paid", "closed"}]
  \cup [op : {"backfill"}, orders : SUBSET Orders]
  \cup [op : {"refund"}, spend : Nat]
  \cup [op : {"accept"}, question : Questions, seen : Question]
  \cup [op : {"edit"}, question : Questions, accepted : Users \cup {"none"}]

TypeOK ==
  /\ points \in [Users -> Int]
  /\ ledger \in Seq(Entry)
  /\ order \in [Orders -> Order]
  /\ question \in [Questions -> Question]
  /\ call \in [Calls -> Call]

Init ==
  /\ points = [u \in Users |-> 0]
  /\ ledger = <<>>
  /\ order \in [Orders -> [user : Users, status : {"pending"}, awarded : {0}]]
  /\ question \in [Questions -> [accepted : {"none"}, text : Texts]]
  /\ call = [c \in Calls |-> Idle]

Begin(c, op) == call[c] = Idle /\ call' = [call EXCEPT ![c] = op]

End(c) == call' = [call EXCEPT ![c] = Idle]

Ledger == <<points, ledger>>

-------------------------------------------------------------------------------
(* The ledger.                                                              *)

\* Mutants: the ledger has no key; a call that is paid in advance may take a balance
\* below what it covers; an order that is no longer paid forgets its points; the
\* running balance of a backfill starts above its entries; an answer is accepted
\* whatever happened since the question was read.
FitsAlways(u, source, ref) == TRUE

\* The key [source, referenceType, referenceId, userId]; without a reference
\* entries never clash.
Fits(u, source, ref) ==
  ref = <<>> \/ \A i \in DOMAIN ledger :
                  ~(/\ ledger[i].source = source
                    /\ ledger[i].user = u
                    /\ ledger[i].ref = ref)

\* The balance and the entry change in one transaction.
Book(u, delta, source, ref) ==
  /\ Len(ledger) < MaxEntries
  /\ points' = [points EXCEPT ![u] = @ + delta]
  /\ ledger' = Append(ledger, [user |-> u, delta |-> delta, after |-> points[u] + delta,
                               source |-> source, ref |-> ref])

\* An administrator gives a point to several users.
GrantBatch(us, s) ==
  /\ Len(ledger) + Len(s) <= MaxEntries
  /\ points' = [u \in Users |-> IF u \in us THEN points[u] + 1 ELSE points[u]]
  /\ ledger' = ledger \o
       [i \in 1..Len(s) |-> [user |-> s[i], delta |-> 1, after |-> points[s[i]] + 1,
                             source |-> "admin_grant", ref |-> <<>>]]
  /\ UNCHANGED <<order, question, call>>

SpendUnchecked(u) ==
  /\ points[u] >= 0
  /\ Book(u, -1, "ai_usage", <<>>)
  /\ UNCHANGED <<order, question, call>>

\* A call of the model is paid in advance, from a balance that covers it;
Spend(u) ==
  /\ points[u] >= 1
  /\ Book(u, -1, "ai_usage", <<>>)
  /\ UNCHANGED <<order, question, call>>

\* what the metering finds on top of that, whatever the balance.
SpendPostpaid(u) ==
  /\ Book(u, -1, "ai_metered", <<>>)
  /\ UNCHANGED <<order, question, call>>

Spends == {i \in DOMAIN ledger : ledger[i].source \in {"ai_usage", "ai_metered"}}

Refunds(i) == {j \in DOMAIN ledger : /\ ledger[j].source = "ai_refund"
                                     /\ ledger[j].ref = <<"point_ledger", i>>}

\* A call has failed.  A refund whose answer is lost is tried again, whether it took
\* place or not.
RefundRead(c, i) ==
  /\ i \in Spends /\ Refunds(i) = {}
  /\ Begin(c, [op |-> "refund", spend |-> i])
  /\ UNCHANGED <<Ledger, order, question>>

\* Another refund in between: the key of the ledger rolls this one back.
Refund(c) ==
  /\ call[c].op = "refund"
  /\ LET i == call[c].spend
         u == ledger[i].user
     IN IF Fits(u, "ai_refund", <<"point_ledger", i>>)
        THEN Book(u, -ledger[i].delta, "ai_refund", <<"point_ledger", i>>)
        ELSE UNCHANGED Ledger
  /\ End(c)
  /\ UNCHANGED <<order, question>>

-------------------------------------------------------------------------------
(* Sponsors' orders.                                                        *)

AwardForgets(o, status, n) ==
  LET u == order[o].user
      claims == status = "paid" /\ n > 0 /\ order[o].awarded = 0
  IN IF claims /\ ~Fits(u, "sponsor_reward", <<"sponsor_order", o>>)
     THEN UNCHANGED <<Ledger, order>>
     ELSE /\ order' = [order EXCEPT ![o].status = status,
                                    ![o].awarded = IF claims THEN n ELSE IF status = "paid" THEN @ ELSE 0]
          /\ IF claims THEN Book(u, n, "sponsor_reward", <<"sponsor_order", o>>)
             ELSE UNCHANGED Ledger

\* The order takes a status; if that pays it, its points are claimed by the first
\* that finds none awarded.
Award(o, status, n) ==
  LET u == order[o].user
      claims == status = "paid" /\ n > 0 /\ order[o].awarded = 0
  IN IF claims /\ ~Fits(u, "sponsor_reward", <<"sponsor_order", o>>)
     THEN UNCHANGED <<Ledger, order>>
     ELSE /\ order' = [order EXCEPT ![o].status = status,
                                    ![o].awarded = IF claims THEN n ELSE @]
          /\ IF claims THEN Book(u, n, "sponsor_reward", <<"sponsor_order", o>>)
             ELSE UNCHANGED Ledger

\* The payment provider says, any number of times, that the order has been paid.
NotifyRead(c, o) ==
  /\ order[o].status # "paid"
  /\ Begin(c, [op |-> "notify", order |-> o])
  /\ UNCHANGED <<Ledger, order, question>>

Notify(c, n) ==
  /\ call[c].op = "notify"
  /\ IF order[call[c].order].status # "paid"
     THEN Award(call[c].order, "paid", n)
     ELSE UNCHANGED <<Ledger, order>>
  /\ End(c)
  /\ UNCHANGED question

\* The sponsor closes the order, or looks at it when its time is over.  It is then
\* closed by its id alone, which is what Patch does with it.
CloseRead(c, o) ==
  /\ order[o].status = "pending"
  /\ Begin(c, [op |-> "patch", order |-> o, to |-> "closed"])
  /\ UNCHANGED <<Ledger, order, question>>

\* The sweep of expired orders, one UPDATE.
Sweep(os) ==
  /\ os # {} /\ \A o \in os : order[o].status = "pending"
  /\ order' = [o \in Orders |-> IF o \in os THEN [order[o] EXCEPT !.status = "closed"]
                                ELSE order[o]]
  /\ UNCHANGED <<Ledger, question, call>>

\* An administrator sets the status, by the order's id too.
PatchRead(c, o, to) ==
  /\ to # order[o].status
  /\ Begin(c, [op |-> "patch", order |-> o, to |-> to])
  /\ UNCHANGED <<Ledger, order, question>>

Patch(c, n) ==
  /\ call[c].op = "patch"
  /\ Award(call[c].order, call[c].to, n)
  /\ End(c)
  /\ UNCHANGED question

\* Points for orders that were paid without.
BackfillRead(c) ==
  LET missed == {o \in Orders : order[o].status = "paid" /\ order[o].awarded = 0} IN
  /\ missed # {}
  /\ Begin(c, [op |-> "backfill", orders |-> missed])
  /\ UNCHANGED <<Ledger, order, question>>

Unawarded(os) == {o \in os : order[o].status = "paid" /\ order[o].awarded = 0}

BackfilledAbove(s, i, n) ==
  LET u == order[s[i]].user IN
  [user |-> u, delta |-> n,
   after |-> points[u] + n * (Cardinality({j \in 1..Len(s) : order[s[j]].user = u}) + i),
   source |-> "sponsor_reward", ref |-> <<"sponsor_order", s[i]>>]

\* Entry i for the orders s: the balance runs through the orders of the user.
Backfilled(s, i, n) ==
  LET u == order[s[i]].user IN
  [user |-> u, delta |-> n,
   after |-> points[u] + n * Cardinality({j \in 1..i : order[s[j]].user = u}),
   source |-> "sponsor_reward", ref |-> <<"sponsor_order", s[i]>>]

Backfill(c, n) ==
  /\ call[c].op = "backfill" /\ n > 0
  /\ LET claimed == Unawarded(call[c].orders)
         mine(u) == {o \in claimed : order[o].user = u}
     IN IF \A o \in claimed : Fits(order[o].user, "sponsor_reward", <<"sponsor_order", o>>)
        THEN /\ Len(ledger) + Cardinality(claimed) <= MaxEntries
             /\ order' = [o \in Orders |->
                            IF o \in claimed THEN [order[o] EXCEPT !.awarded = n] ELSE order[o]]
             /\ points' = [u \in Users |-> points[u] + n * Cardinality(mine(u))]
             /\ \E s \in SetToSeqs(claimed) :
                  ledger' = ledger \o [i \in 1..Len(s) |-> Backfilled(s, i, n)]
        ELSE UNCHANGED <<Ledger, order>>
  /\ End(c)
  /\ UNCHANGED question

-------------------------------------------------------------------------------
(* Questions.                                                               *)

\* The asker accepts an answer.  (A hidden question takes none, and an edit may hide
\* it until it is reviewed: that only takes steps away, and is left out.)
AcceptRead(c, q) ==
  /\ question[q].accepted = "none"
  /\ Begin(c, [op |-> "accept", question |-> q, seen |-> question[q]])
  /\ UNCHANGED <<Ledger, order, question>>

AcceptUnclaimed(c, u) ==
  /\ call[c].op = "accept"
  /\ LET q == call[c].question
     IN IF Fits(u, "question_bounty_reward", <<"question_topic", q>>)
        THEN /\ question' = [question EXCEPT ![q].accepted = u]
             /\ Book(u, Reward, "question_bounty_reward", <<"question_topic", q>>)
        ELSE UNCHANGED <<Ledger, question>>
  /\ End(c)
  /\ UNCHANGED order

\* The answer of user u; the question is claimed by the metadata that was read.
Accept(c, u) ==
  /\ call[c].op = "accept"
  /\ LET q == call[c].question
     IN IF /\ question[q] = call[c].seen
           /\ Fits(u, "question_bounty_reward", <<"question_topic", q>>)
        THEN /\ question' = [question EXCEPT ![q].accepted = u]
             /\ Book(u, Reward, "question_bounty_reward", <<"question_topic", q>>)
        ELSE UNCHANGED <<Ledger, question>>
  /\ End(c)
  /\ UNCHANGED order

\* The author edits the question.
EditRead(c, q) ==
  /\ Begin(c, [op |-> "edit", question |-> q, accepted |-> question[q].accepted])
  /\ UNCHANGED <<Ledger, order, question>>

\* New metadata keep the acceptance that was read, and are written by the question's
\* id alone; an edit of the rest writes none.
Edit(c) ==
  /\ call[c].op = "edit"
  /\ LET q == call[c].question IN
       \/ UNCHANGED question
       \/ \E t \in Texts :
            question' = [question EXCEPT ![q] = [accepted |-> call[c].accepted, text |-> t]]
  /\ End(c)
  /\ UNCHANGED <<Ledger, order>>

-------------------------------------------------------------------------------
\* A handler dies, or its transaction is rolled back.
Abort(c) ==
  /\ call[c] # Idle
  /\ End(c)
  /\ UNCHANGED <<Ledger, order, question>>

Next ==
  \/ \E us \in (SUBSET Users) \ {{}} : \E s \in SetToSeqs(us) : GrantBatch(us, s)
  \/ \E u \in Users : Spend(u) \/ SpendPostpaid(u)
  \/ \E os \in SUBSET Orders : Sweep(os)
  \/ \E c \in Calls :
       \/ \E i \in DOMAIN ledger : RefundRead(c, i)
       \/ \E o \in Orders : \/ NotifyRead(c, o) \/ CloseRead(c, o)
                            \/ \E to \in {"pending", "paid", "closed"} : PatchRead(c, o, to)
       \/ BackfillRead(c)
       \/ \E q \in Questions : AcceptRead(c, q) \/ EditRead(c, q)
       \/ \E u \in Users : Accept(c, u)
       \/ \E n \in Rates : Notify(c, n) \/ Patch(c, n) \/ Backfill(c, n)
       \/ Refund(c) \/ Edit(c) \/ Abort(c)

Spec == Init /\ [][Next]_vars

-------------------------------------------------------------------------------
(* Properties.                                                              *)

\* Entry j is the last of user u before place i of the ledger.
LastBefore(u, j, i) ==
  ledger[j].user = u /\ \A k \in j+1..i-1 : ledger[k].user # u

\* What user u has is what the last entry says, and what an entry starts from is
\* what the user's entry before it says: the ledger accounts for the balance, entry
\* by entry.
LedgerExplainsBalance ==
  \A u \in Users, i \in 1..Len(ledger)+1 :
    LET has == IF i = Len(ledger)+1 THEN points[u] ELSE ledger[i].after - ledger[i].delta
    IN i = Len(ledger)+1 \/ ledger[i].user = u =>
         /\ \A j \in 1..i-1 : LastBefore(u, j, i) => has = ledger[j].after
         /\ (\A j \in 1..i-1 : ledger[j].user # u) => has = 0

\* A refund gives back what one call took, to whom it was taken from, and once.
RefundsUndoSpends ==
  \A j \in DOMAIN ledger : ledger[j].source = "ai_refund" =>
    \E i \in Spends : /\ Refunds(i) = {j}
                      /\ ledger[i].user = ledger[j].user
                      /\ ledger[i].delta = -ledger[j].delta

\* A balance is below zero by no more than what metered calls still owe: calls that
\* are paid in advance never lead into debt, however many run at once.
DebtIsMetered ==
  \A u \in Users :
    points[u] >= -Cardinality({i \in DOMAIN ledger : /\ ledger[i].user = u
                                                     /\ ledger[i].source = "ai_metered"
                                                     /\ Refunds(i) = {}})

\* An order knows what the ledger has for it, so that a later payment or backfill
\* neither pays twice nor trips over the ledger's key, which would undo the payment.
AwardsMatchLedger ==
  \A o \in Orders :
    LET es == {i \in DOMAIN ledger : /\ ledger[i].source = "sponsor_reward"
                                     /\ ledger[i].ref = <<"sponsor_order", o>>}
    IN IF order[o].awarded = 0 THEN es = {}
       ELSE \E i \in es : /\ es = {i}
                          /\ ledger[i].user = order[o].user
                          /\ ledger[i].delta = order[o].awarded

\* Of answers that are accepted at once only one is rewarded: a reward is paid for
\* a question that had no accepted answer until then.
RewardNeedsOpenQuestion ==
  [][\A q \in Questions :
       (\E i \in DOMAIN ledger' \ DOMAIN ledger :
          /\ ledger'[i].source = "question_bounty_reward"
          /\ ledger'[i].ref = <<"question_topic", q>>)
       => question[q].accepted = "none" /\ question'[q].accepted # "none"]_vars

\* One answer of a question is rewarded, and editing the question changes nothing
\* about that.
OneAnswerIsRewarded ==
  \A i, j \in DOMAIN ledger :
    /\ ledger[i].source = "question_bounty_reward"
    /\ ledger[j].source = "question_bounty_reward"
    /\ ledger[i].ref = ledger[j].ref
    => i = j

===============================================================================
