------------------------------ MODULE OneShot ------------------------------
(***************************************************************************)
(* What an asynchronous request promises (create_offer, create_answer,     *)
(* set_local_description, set_remote_description and the three get_stats): *)
(* a request that is refused never answers; one that is accepted answers   *)
(* once, with success or with failure, to whichever handler of the two the *)
(* caller gave, and then never again (PeerConnection.cc:74-75, 112-113).   *)
(***************************************************************************)
EXTENDS Sequences

CONSTANT Requests

VARIABLES
    stage,      \* "unused", "open", "refused" or "answered"
    listens,    \* the handlers the caller gave
    heard       \* the handlers that were called

vars == <<stage, listens, heard>>

Outcomes == {"success", "failure"}

Init ==
    /\ stage = [r \in Requests |-> "unused"]
    /\ listens = [r \in Requests |-> {}]
    /\ heard = [r \in Requests |-> <<>>]

Enter(r, s) == stage[r] = "unused" /\ stage' = [stage EXCEPT ![r] = s]
Hands(r) == \E l \in SUBSET Outcomes : listens' = [listens EXCEPT ![r] = l]

Accept(r) == Enter(r, "open") /\ Hands(r) /\ UNCHANGED heard
Refuse(r) == Enter(r, "refused") /\ Hands(r) /\ UNCHANGED heard

Answer(r) ==
    /\ stage[r] = "open"
    /\ stage' = [stage EXCEPT ![r] = "answered"]
    /\ \E o \in Outcomes :
          heard' = IF o \in listens[r] THEN [heard EXCEPT ![r] = <<o>>] ELSE heard
    /\ UNCHANGED listens

Next == \E r \in Requests : Accept(r) \/ Refuse(r) \/ Answer(r)

Spec == Init /\ [][Next]_vars
=============================================================================
