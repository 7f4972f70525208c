----------------------------- MODULE MCSchedules -----------------------------
(***************************************************************************)
(* The scheduled programs of the API that tell people of a term: the       *)
(* triage and the reminders of a signature.  The one looks at proposals    *)
(* under analysis and the other at those that wait for a signature; they   *)
(* share no row, so each is followed with the other at rest.               *)
(***************************************************************************)
EXTENDS Triage, Reminders, TLC

VARIABLE followed

scheduleVars == <<followed, vars, reminderVars>>

TriageAtRest ==
  /\ now = 0
  /\ status = [p \in Proposals |-> "none"]
  /\ submitted = [p \in Proposals |-> -1] /\ due = submitted /\ breached = submitted
  /\ analyst = [p \in Proposals |-> Nobody] /\ active = {}
  /\ told = [p \in Proposals |-> 0]
  /\ run = [r \in Runs |-> IdleRun]
  /\ crossed = FALSE /\ moves = 0

SchedulesInit ==
  \/ followed = "triage" /\ Init /\ RemindersInit
  \/ followed = "reminders" /\ RemindersInit /\ TriageAtRest

SchedulesNext ==
  \/ followed = "triage" /\ Next /\ UNCHANGED <<followed, reminderVars>>
  \/ followed = "reminders" /\ RemindersNext /\ UNCHANGED <<followed, vars>>

SchedulesSpec == SchedulesInit /\ [][SchedulesNext]_scheduleVars

(* Proposals, analysts, runs and envelopes are interchangeable, as nothing *)
(* that lasts is checked; those that wait are not (NoEnvelope chooses one).*)
Symmetry ==
  Permutations(Proposals) \cup Permutations(Analysts) \cup Permutations(Runs)
    \cup Permutations(Envelopes)
=============================================================================
