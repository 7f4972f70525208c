----------------------------- MODULE EventInbox -----------------------------
(***************************************************************************)
(* What a webhook endpoint owes to the sender of events, whatever the      *)
(* events are about: an event that is on record is never offered again, so *)
(* it goes on record only when nothing is left to be done for it.          *)
(*                                                                         *)
(* An event that calls for effects has them at least once, or is missed    *)
(* for good because its subject is unknown; it is put on record afterwards *)
(* and stays there.  The endpoint does not promise "at most once".         *)
(***************************************************************************)
CONSTANTS
  Event,      (* events                                                    *)
  Effective   (* those that call for effects                               *)

VARIABLES
  offered,    (* events the sender has delivered at least once             *)
  outcome,    (* what an event has led to                                  *)
  recorded    (* events on record                                          *)

vars == <<offered, outcome, recorded>>

TypeOK ==
  /\ offered \subseteq Event
  /\ outcome \in [Event -> {"none", "missed", "once", "again"}]
  /\ recorded \subseteq Event

Init ==
  /\ offered = {}
  /\ outcome = [ev \in Event |-> "none"]
  /\ recorded = {}

(* The sender has something to say. *)
Offer ==
  \E evs \in SUBSET Event :
    /\ offered' = offered \cup evs
    /\ UNCHANGED <<outcome, recorded>>

(* The effects take place, possibly not for the first time, and possibly   *)
(* after a twin of this delivery has put the event on record.              *)
Apply(ev) ==
  /\ ev \in offered \cap Effective
  /\ outcome' = [outcome EXCEPT ![ev] = IF @ \in {"once", "again"} THEN "again" ELSE "once"]
  /\ UNCHANGED <<offered, recorded>>

(* The subject is unknown: the event is given up. *)
Miss(ev) ==
  /\ ev \in offered
  /\ outcome' = [outcome EXCEPT ![ev] = IF @ = "none" THEN "missed" ELSE @]
  /\ recorded' = recorded \cup {ev}
  /\ UNCHANGED offered

Record(ev) ==
  /\ ev \in offered
  /\ ev \in Effective => outcome[ev] # "none"
  /\ recorded' = recorded \cup {ev}
  /\ UNCHANGED <<offered, outcome>>

Next == Offer \/ \E ev \in Event : Apply(ev) \/ Miss(ev) \/ Record(ev)

Spec == Init /\ [][Next]_vars

(* The sender repeats what is not on record, so it ends up there. *)
EveryOfferIsRecorded == \A ev \in Event : ev \in offered ~> ev \in recorded

=============================================================================
