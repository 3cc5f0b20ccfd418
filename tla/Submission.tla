------------------------------ MODULE Submission ------------------------------
(***************************************************************************)
(* What the API promises of a call that submits a signed action, whatever  *)
(* the network does: the server receives the action at most once, and the  *)
(* caller learns that it was refused before it was sent, or that the       *)
(* server has it, or is left in doubt.                                     *)
(***************************************************************************)
EXTENDS Naturals

VARIABLES stage,      \* "open" while the call runs
          delivered,  \* how often the server received the action
          outcome     \* what the caller has learnt

submission == <<stage, delivered, outcome>>

None == stage = "idle" /\ delivered = 0 /\ outcome = "none"

(* The application goes on with other calls. *)
Forget == stage = "idle" /\ None'

Ask ==
    /\ stage = "idle"
    /\ stage' = "open" /\ delivered' = 0 /\ outcome' = "none"

RefuseAtOnce ==
    /\ stage = "idle"
    /\ stage' = "idle" /\ delivered' = 0 /\ outcome' = "refused"

Deliver ==
    /\ stage = "open" /\ delivered = 0
    /\ delivered' = 1
    /\ UNCHANGED <<stage, outcome>>

End(what) ==
    /\ stage = "open"
    /\ stage' = "idle" /\ outcome' = what
    /\ UNCHANGED delivered

Refuse  == delivered = 0 /\ End("refused")
Doubt   == End("doubt")
Confirm == delivered = 1 /\ End("confirmed")

Next == Forget \/ Ask \/ RefuseAtOnce \/ Deliver \/ Refuse \/ Doubt \/ Confirm

Spec == None /\ [][Next]_submission

===============================================================================
