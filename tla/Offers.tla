------------------------------- MODULE Offers -------------------------------
(***************************************************************************)
(* What the negotiation of a subscriber promises, whoever negotiates and   *)
(* however its flags are read and written: an offer is made of everything  *)
(* added so far, only when the one before it was answered, and each offer  *)
(* is answered, unless the handler of the client's requests has ended.     *)
(* That every change is offered is not promised: see the run               *)
(* Negotiation_race.                                                       *)
(***************************************************************************)
CONSTANT Changes  \* what may be added to the connection

VARIABLES
    added,       \* the changes made
    offered,     \* those the last offer was made of
    unanswered,  \* whether it has still to be answered
    ended        \* the handler has ended

vars == <<added, offered, unanswered, ended>>

Init ==
    /\ added = {}
    /\ offered = {}
    /\ unanswered = FALSE
    /\ ended = FALSE

Add(change) ==
    /\ change \notin added
    /\ added' = added \cup {change}
    /\ UNCHANGED <<offered, unanswered, ended>>

Offer ==
    /\ ~unanswered
    /\ unanswered' = TRUE
    /\ offered' = added
    /\ UNCHANGED <<added, ended>>

Answer ==
    /\ unanswered
    /\ ~ended
    /\ unanswered' = FALSE
    /\ UNCHANGED <<added, offered, ended>>

End ==
    /\ ~ended
    /\ ended' = TRUE
    /\ UNCHANGED <<added, offered, unanswered>>

Next == (\E change \in Changes : Add(change)) \/ Offer \/ Answer \/ End

Spec == Init /\ [][Next]_vars /\ WF_vars(Answer)
=============================================================================
