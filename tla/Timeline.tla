------------------------------ MODULE Timeline ------------------------------
(***************************************************************************)
(* What the history of a proposal (StatusHistory, shown to the candidate   *)
(* and to the staff) promises, whoever works on the proposal:              *)
(* nothing is taken out of it, the status changes only together with an    *)
(* entry that names the new one, and no entry tells of a status that the   *)
(* proposal never had.                                                     *)
(***************************************************************************)
EXTENDS Sequences, Cadastro

CONSTANT Proposals

VARIABLES
  status,   (* Proposal.status                                             *)
  log       (* its StatusHistory, oldest entry first                       *)

vars == <<status, log>>

(* from is "NONE" where the code writes null. *)
Entry == [from : ProposalStatus \cup {"NONE"}, to : ProposalStatus]

(* The statuses that a history tells of. *)
Past(history) == { history[i].to : i \in DOMAIN history }

Init ==
  /\ status = [p \in Proposals |-> "SUBMITTED"]
  /\ log = [p \in Proposals |-> <<[from |-> "NONE", to |-> "SUBMITTED"]>>]

(* One more entry: a change of the status, or a note that leaves it alone. *)
Told(p) ==
  \E en \in Entry :
    /\ en.from \in Past(log[p]) \cup {"NONE"}
    /\ log'[p] = Append(log[p], en)
    /\ \/ status'[p] = en.to
       \/ status'[p] = status[p] /\ en.to = en.from

Untouched(p) == status'[p] = status[p] /\ log'[p] = log[p]

Next == \A p \in Proposals : Told(p) \/ Untouched(p)

Spec == Init /\ [][Next]_vars

=============================================================================
