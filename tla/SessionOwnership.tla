--------------------------- MODULE SessionOwnership ---------------------------
(***************************************************************************)
(* What the replica store promises about one JWXT session, whatever        *)
(* processes, saves and takeovers are in flight: at any moment the session *)
(* has at most one owner, ownership changes hands only by moving one epoch *)
(* forward from the owner of the moment, and a session whose record was    *)
(* dropped either starts again at epoch 1 or continues from exactly the    *)
(* owner and epoch it had (a save that had already read the record).       *)
(***************************************************************************)
EXTENDS Naturals

CONSTANTS Agents, NoOwner

VARIABLES
  current,   \* NoOwner, or the owner and the epoch of the session
  last       \* the value of current when it was last dropped

Tenure == [owner : Agents, epoch : Nat \ {0}]

TypeOK ==
  /\ current \in Tenure \cup {NoOwner}
  /\ last \in Tenure \cup {NoOwner}

Init ==
  /\ current = NoOwner
  /\ last = NoOwner

\* The tenure that follows t when agent a holds the session next.
After(t, a) ==
  [owner |-> a, epoch |-> IF a = t.owner THEN t.epoch ELSE t.epoch + 1]

Claim(a) ==
  /\ current = NoOwner
  /\ current' = [owner |-> a, epoch |-> 1]
  /\ UNCHANGED last

Move(a) ==
  /\ current # NoOwner
  /\ current' = After(current, a)
  /\ UNCHANGED last

Drop ==
  /\ current # NoOwner
  /\ current' = NoOwner
  /\ last' = current

Resume(a) ==
  /\ current = NoOwner
  /\ last # NoOwner
  /\ current' = After(last, a)
  /\ UNCHANGED last

Next == (\E a \in Agents : Claim(a) \/ Move(a) \/ Resume(a)) \/ Drop

Spec == Init /\ [][Next]_<<current, last>>
===============================================================================
