------------------------------- MODULE Mailbox -------------------------------
(***************************************************************************)
(* What the processes around the message queue may rely on: a box that     *)
(* refuses mail when it is full and keeps what it has accepted, in order,  *)
(* until it is delivered, once.  It is cleared only on a demand that was   *)
(* delivered since it was cleared last.                                    *)
(***************************************************************************)
EXTENDS Naturals, Sequences

CONSTANTS
  Mails,      (* each is accepted once at most                              *)
  Demands,    (* those that ask for the box to be cleared                   *)
  Capacity

VARIABLES
  box,        (* accepted and not delivered, oldest first                   *)
  delivered,  (* in the order of delivery                                   *)
  demanded    (* a demand was delivered, and the box not cleared since      *)

Init == box = <<>> /\ delivered = <<>> /\ demanded = FALSE

Known == {box[k] : k \in DOMAIN box} \cup {delivered[k] : k \in DOMAIN delivered}

Accept(m) ==
  /\ m \notin Known /\ Len(box) < Capacity
  /\ box' = Append(box, m)
  /\ UNCHANGED <<delivered, demanded>>

Deliver ==
  /\ box # <<>>
  /\ delivered' = Append(delivered, Head(box))
  /\ demanded' = (demanded \/ Head(box) \in Demands)
  /\ box' = Tail(box)

Clear ==
  /\ demanded /\ demanded' = FALSE
  /\ box' = <<>>
  /\ UNCHANGED delivered

Next == Deliver \/ Clear \/ \E m \in Mails : Accept(m)

Spec == Init /\ [][Next]_<<box, delivered, demanded>>
=============================================================================
