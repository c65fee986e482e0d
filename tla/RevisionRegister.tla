-------------------------- MODULE RevisionRegister --------------------------
(* What a Context promises about its revisions, as one atomic register per  *)
(* storage incarnation: publications append to a history, a freeze pins the *)
(* current revision for good, and a new incarnation starts empty.           *)
EXTENDS Integers, Sequences

CONSTANTS Entries, None

VARIABLES uid, current, frozen, history

register == <<uid, current, frozen, history>>

Init == uid = 0 /\ current = None /\ frozen = None /\ history = <<>>

\* A new incarnation never reuses the identity of an earlier one: the least
\* the register can say without remembering them is that it is not 0.
Create ==
  /\ uid = 0 /\ uid' \in Nat \ {0}
  /\ UNCHANGED <<current, frozen, history>>

Publish(entry) ==
  /\ uid # 0 /\ frozen = None
  /\ current' = entry.id
  /\ history' = IF entry.id = current THEN history ELSE Append(history, entry)
  /\ UNCHANGED <<uid, frozen>>

Freeze ==
  /\ uid # 0 /\ frozen = None
  /\ current # None
  /\ frozen' = current
  /\ UNCHANGED <<uid, current, history>>

Delete ==
  /\ uid # 0 /\ uid' = 0
  /\ current' = None /\ frozen' = None /\ history' = <<>>

Next == Create \/ Delete \/ Freeze \/ \E entry \in Entries : Publish(entry)

Spec == Init /\ [][Next]_register
=============================================================================
