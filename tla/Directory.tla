----------------------------- MODULE Directory -----------------------------
(***************************************************************************)
(* What the directory of a tenant promises its administrators: a person    *)
(* comes in by an invitation, becomes active by accepting one, and is      *)
(* suspended and reinstated afterwards; nobody is reinstated who never     *)
(* accepted, and nobody disappears.  Members implements it with rows,      *)
(* locks and transactions.                                                 *)
(***************************************************************************)
CONSTANTS People, Founder

VARIABLES
  status,   \* of everybody who was ever invited
  earned    \* those who accepted an invitation

vars == <<status, earned>>

Init ==
  /\ status = [p \in {Founder} |-> "invited"]
  /\ earned = {}

Invite(p) ==
  /\ p \notin DOMAIN status
  /\ status' = [q \in DOMAIN status \cup {p} |->
                  IF q = p THEN "invited" ELSE status[q]]
  /\ UNCHANGED earned

\* Also of somebody suspended since the link was looked up.
Accept(p) ==
  /\ p \in DOMAIN status
  /\ status' = [status EXCEPT ![p] = "active"]
  /\ earned' = earned \cup {p}

Suspend(p) ==
  /\ p \in DOMAIN status
  /\ status' = [status EXCEPT ![p] = "disabled"]
  /\ UNCHANGED earned

Reinstate(p) ==
  /\ p \in earned
  /\ status' = [status EXCEPT ![p] = "active"]
  /\ UNCHANGED earned

Next == \E p \in People : Invite(p) \/ Accept(p) \/ Suspend(p) \/ Reinstate(p)

Spec == Init /\ [][Next]_vars

-----------------------------------------------------------------------------
\* Nobody is lost, and nobody who was active or suspended is invited anew.
RowsRemain ==
  \A p \in DOMAIN status :
    p \in DOMAIN status' /\ (status'[p] = "invited" => status[p] = "invited")

NobodyIsLost == [][RowsRemain]_vars
=============================================================================
