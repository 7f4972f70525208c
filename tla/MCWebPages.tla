------------------------------ MODULE MCWebPages ------------------------------
(* Two proposals, one to a page, in two orders; a search that finds one.
   Accounts with either of two roles.  Two proposals of one candidate. *)
EXTENDS WebPages, TLC

CONSTANTS p1, p2

MCOrders == [s \in Sorts \ {"sla"} |->
               [p \in Proposals |-> IF (p = p1) = (s = "createdAt") THEN 1 ELSE 2]]
MCNamed == [p \in Proposals |-> IF p = p1 THEN {"ana"} ELSE {}]
MCFilters == {{}, {"SUBMITTED"}}

MCRoleSets == {{"ADMIN"}, {"ANALYST"}}

(* Accounts are interchangeable; proposals are not, by MCOrders. *)
Symmetry == Permutations(Accounts)
=============================================================================
