------------------------------ MODULE Payments ------------------------------
(***************************************************************************)
(* What the owner of the outputs is promised, whatever happens to the      *)
(* calls between him and the chain: an output is spent once, each payment  *)
(* is made at most once, and what he is told of it is so and stays so.     *)
(* A payment he was told nothing certain about may be made or not, and may *)
(* still be made later.                                                    *)
(***************************************************************************)
CONSTANTS Payment, Id, NoPayment

VARIABLES
  spentBy,      (* the payment that spent an output, or NoPayment           *)
  told          (* "nothing", "made", "not made" or "unknown"               *)

Made(p) == \E id \in Id : spentBy[id] = p

Init ==
  /\ spentBy = [id \in Id |-> NoPayment]
  /\ told = [p \in Payment |-> "nothing"]

Make(p, id) ==
  /\ told[p] \in {"nothing", "unknown"}
  /\ ~Made(p)
  /\ spentBy[id] = NoPayment
  /\ spentBy' = [spentBy EXCEPT ![id] = p]
  /\ UNCHANGED told

Tell(p, what) ==
  /\ told[p] = "nothing"
  /\ what = "made" => Made(p)
  /\ what = "not made" => ~Made(p)
  /\ told' = [told EXCEPT ![p] = what]
  /\ UNCHANGED spentBy

Next ==
  \E p \in Payment :
    \/ \E id \in Id : Make(p, id)
    \/ \E what \in {"made", "not made", "unknown"} : Tell(p, what)

Spec == Init /\ [][Next]_<<spentBy, told>>
=============================================================================
