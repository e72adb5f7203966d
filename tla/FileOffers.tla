---------------------------- MODULE FileOffers ----------------------------
(***************************************************************************)
(* What a file transfer is to an application of lib-im-msnp.  A transfer   *)
(* is offered to its FileTransferListener, the application may accept it,  *)
(* and it ends once: finished, if it was accepted, or cancelled.  Nothing  *)
(* is promised of an identifier that something else has come to share,     *)
(* before the offer or at any time after it.                               *)
(***************************************************************************)
CONSTANT Ids    \* identifiers the transfers are offered under

VARIABLE offer

Init == offer = [i \in Ids |-> "none"]

Move(i, from, to) == offer[i] \in from /\ offer' = [offer EXCEPT ![i] = to]

Offer(i)  == Move(i, {"none"}, "offered")
Accept(i) == Move(i, {"offered"}, "accepted")
Finish(i) == Move(i, {"accepted"}, "finished")
Cancel(i) == Move(i, {"offered", "accepted"}, "cancelled")
Share(i)  == Move(i, {"none", "offered", "accepted", "finished", "cancelled"}, "shared")

Next == \E i \in Ids : Offer(i) \/ Accept(i) \/ Finish(i) \/ Cancel(i) \/ Share(i)

Spec == Init /\ [][Next]_offer
=============================================================================
