------------------------------ MODULE FairPermits ------------------------------
(***************************************************************************)
(* What a limiter of concurrent work promises, whichever way it is built:  *)
(* at most Limit callers hold a permit, the others wait in the order in    *)
(* which they came or give up, and a permit that is given back while       *)
(* somebody waits goes to the first of them in the same step.              *)
(***************************************************************************)
EXTENDS Naturals, FiniteSets, SequencesExt

CONSTANTS Callers, Limit

VARIABLES
  holders,  \* the callers that hold a permit
  waiting   \* those that wait for one, in the order in which they came

Init == holders = {} /\ waiting = <<>>

Free(c) == c \in Callers \ (holders \cup ToSet(waiting))

Enter(c) ==
  /\ Free(c)
  /\ waiting = <<>> /\ Cardinality(holders) < Limit
  /\ holders' = holders \cup {c}
  /\ UNCHANGED waiting

Join(c) ==
  /\ Free(c)
  /\ Cardinality(holders) = Limit
  /\ waiting' = Append(waiting, c)
  /\ UNCHANGED holders

Leave(c) ==
  /\ c \in holders
  /\ \/ waiting = <<>> /\ holders' = holders \ {c} /\ UNCHANGED waiting
     \/ /\ waiting # <<>>
        /\ holders' = (holders \ {c}) \cup {Head(waiting)}
        /\ waiting' = Tail(waiting)

GiveUp(c) ==
  /\ \E i \in DOMAIN waiting : waiting[i] = c /\ waiting' = RemoveAt(waiting, i)
  /\ UNCHANGED holders

Next == \E c \in Callers : Enter(c) \/ Join(c) \/ Leave(c) \/ GiveUp(c)

Spec == Init /\ [][Next]_<<holders, waiting>>

===============================================================================
