-------------------------- MODULE AssignmentSlots --------------------------
(***************************************************************************)
(* What shared/admin_assignment.py promises its callers, without saying    *)
(* how an admin is chosen: every stage of every request is one slot, which *)
(* at any moment is free, on offer to one admin, or held by one admin.     *)
(* The relay's handlers rely on nothing else.  AdminAssignment implements  *)
(* this specification.                                                     *)
(***************************************************************************)
CONSTANTS Requests,  \* request codes
          Stages,    \* pipeline stages: "levi", "senku", "gojo"
          Admins     \* Telegram ids of the staff

VARIABLE slot        \* [Requests \X Stages -> Slot]

Free == [state |-> "free"]
OnOffer(a) == [state |-> "on_offer", admin |-> a]
HeldBy(a) == [state |-> "held", admin |-> a]

Slot == {Free} \cup {OnOffer(a) : a \in Admins} \cup {HeldBy(a) : a \in Admins}

SlotTypeOK == slot \in [Requests \X Stages -> Slot]

SlotInit == slot = [k \in Requests \X Stages |-> Free]

Becomes(k, from, to) ==
  /\ slot[k] = from
  /\ slot' = [slot EXCEPT ![k] = to]

\* The ladder gives the task outright, or asks an admin first.
Give(k, a)  == Becomes(k, Free, HeldBy(a))
Offer(k, a) == Becomes(k, Free, OnOffer(a))

\* The one admin who was asked answers, or stays silent for an hour.
AcceptOffer(k, a)  == Becomes(k, OnOffer(a), HeldBy(a))
DeclineOffer(k, a) == Becomes(k, OnOffer(a), Free)

\* The owner points a held task at someone else; the holder finishes it.
HandOver(k, a, b) == Becomes(k, HeldBy(a), HeldBy(b))
Finish(k, a)      == Becomes(k, HeldBy(a), Free)

\* One sweep may withdraw several silent offers in one transaction.
Withdraw(ks) ==
  /\ \A k \in ks : slot[k].state = "on_offer"
  /\ slot' = [k \in Requests \X Stages |-> IF k \in ks THEN Free ELSE slot[k]]

SlotNext ==
  \/ \E k \in Requests \X Stages, a \in Admins :
        \/ Give(k, a) \/ Offer(k, a)
        \/ AcceptOffer(k, a) \/ DeclineOffer(k, a)
        \/ Finish(k, a)
        \/ \E b \in Admins : HandOver(k, a, b)
  \/ \E ks \in SUBSET (Requests \X Stages) : Withdraw(ks)

SlotSpec == SlotInit /\ [][SlotNext]_slot

=============================================================================
