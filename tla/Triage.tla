------------------------------- MODULE Triage -------------------------------
(***************************************************************************)
(* The triage that runs every five minutes (ProposalTriageService): the    *)
(* term (SLA) of every proposal under analysis is computed and a breach    *)
(* noted, the team is warned of a term that nears, and proposals nobody    *)
(* has are shared out among the analysts.  Meanwhile the staff assigns and *)
(* moves proposals, analysts are deactivated, and applicants erase.        *)
(*                                                                         *)
(* A run is a chain of awaits over what it listed before, and the next run *)
(* does not wait for it.  Time is counted in units of which a run takes    *)
(* none.                                                                   *)
(***************************************************************************)
EXTENDS Integers, FiniteSets, FiniteSetsExt

CONSTANTS
  Proposals,
  Analysts,    (* users with the role ANALYST                              *)
  Nobody,      (* assignedAnalystId is null                                *)
  Runs,        (* runs that may be under way at a time (a bound)           *)
  Term,        (* SLA_DAYS, in units of time                               *)
  Soon,        (* SLA_DUE_SOON_HOURS, in units of time                     *)
  MaxNow,      (* bound on time                                            *)
  MaxMoves     (* bound on what staff and applicants do                    *)

ASSUME NobodyAssumption == Nobody \notin Analysts
ASSUME TermAssumption   == Term \in Nat /\ Soon \in Nat
ASSUME BoundsAssumption == MaxNow \in Nat /\ MaxMoves \in Nat
ASSUME FiniteAssumption ==
  IsFiniteSet(Proposals) /\ IsFiniteSet(Analysts) /\ IsFiniteSet(Runs)

VARIABLES
  now,         (* the clock                                                *)
  status,      (* Proposal.status, as far as the triage tells them apart:  *)
               (* "other" is every status not under analysis               *)
  submitted,   (* Proposal.submittedAt, -1 before                          *)
  due,         (* Proposal.slaDueAt, -1 if null                            *)
  breached,    (* Proposal.slaBreachedAt, -1 if null                       *)
  analyst,     (* Proposal.assignedAnalystId                               *)
  active,      (* analysts whose isActive is set                           *)
  told,        (* warnings of a term that nears, per proposal              *)
  run,         (* the runs under way                                       *)
  crossed,     (* history variable: two runs have been under way at once   *)
  moves        (* moves of staff and applicants so far                     *)

vars == <<now, status, submitted, due, breached, analyst, active, told, run, crossed, moves>>
terms == <<submitted, due, breached>>

UnderAnalysis == {"SUBMITTED", "UNDER_REVIEW"}

(* todo: the proposals listed and not dealt with yet.  seen: whether a     *)
(* listed one had a breach on record.  telling: the one being warned of.   *)
(* load: proposals per analyst as the run counts them.  History: fresh are *)
(* those assigned by others since the run listed them; kept, those under   *)
(* analysis ever since the run started; undisturbed, whether nothing else  *)
(* has moved since the run counted.                                        *)
Run ==
  [ step : {"idle", "sla", "soon", "count", "list", "assign"},
    todo : SUBSET Proposals, dueSeen : SUBSET Proposals, breachSeen : SUBSET Proposals,
    telling : SUBSET Proposals, pool : SUBSET Analysts,
    load : [Analysts -> 0 .. 2 * Cardinality(Proposals)],
    fresh : SUBSET Proposals, kept : SUBSET Proposals,
    undisturbed : BOOLEAN, gap : 0 .. Cardinality(Proposals) ]

IdleRun ==
  [ step |-> "idle", todo |-> {}, dueSeen |-> {}, breachSeen |-> {}, telling |-> {},
    pool |-> {}, load |-> [a \in Analysts |-> 0],
    fresh |-> {}, kept |-> {}, undisturbed |-> FALSE, gap |-> 0 ]

TypeOK ==
  /\ now \in 0 .. MaxNow
  /\ status \in [Proposals -> {"none", "other", "gone"} \cup UnderAnalysis]
  /\ submitted \in [Proposals -> -1 .. MaxNow]
  /\ due \in [Proposals -> -1 .. MaxNow + Term]
  /\ breached \in [Proposals -> -1 .. MaxNow]
  /\ analyst \in [Proposals -> Analysts \cup {Nobody}]
  /\ active \subseteq Analysts
  /\ told \in [Proposals -> 0 .. Cardinality(Runs)]
  /\ run \in [Runs -> Run]
  /\ crossed \in BOOLEAN
  /\ moves \in 0 .. MaxMoves

Init ==
  /\ now = 0
  /\ status \in [Proposals -> {"none", "SUBMITTED"}]
  /\ submitted = [p \in Proposals |-> IF status[p] = "none" THEN -1 ELSE 0]
  /\ due = [p \in Proposals |-> -1]
  /\ breached = [p \in Proposals |-> -1]
  /\ analyst = [p \in Proposals |-> Nobody]
  /\ active = Analysts
  /\ told = [p \in Proposals |-> 0]
  /\ run = [r \in Runs |-> IdleRun]
  /\ crossed = FALSE
  /\ moves = 0

-----------------------------------------------------------------------------
(* Shorthands *)

Busy == { r \in Runs : run[r].step # "idle" }
IsAt(r, step) == run[r].step = step
Open(p) == status[p] \in UnderAnalysis
There(p) == status[p] \notin {"none", "gone"}

(* Proposals under analysis per analyst, and how far apart the loads are.  *)
LoadOf(a) == Cardinality({ p \in Proposals : Open(p) /\ analyst[p] = a })

Spread(load, pool) ==
  IF pool = {} THEN 0
  ELSE Max({ load[a] : a \in pool }) - Min({ load[a] : a \in pool })

(* What others do is news to every run under way. *)
Disturbed(assigned, moved) ==
  run' = [r \in Runs |->
    [run[r] EXCEPT !.undisturbed = FALSE,
                   !.kept = @ \ moved,
                   !.fresh = IF IsAt(r, "assign") THEN @ \cup assigned ELSE @]]

-----------------------------------------------------------------------------
(* Staff, applicants and time *)

Moves == moves < MaxMoves /\ moves' = moves + 1

Submits(p) ==
  /\ status[p] = "none" /\ Moves
  /\ status' = [status EXCEPT ![p] = "SUBMITTED"]
  /\ submitted' = [submitted EXCEPT ![p] = now]
  /\ Disturbed({}, {})
  /\ UNCHANGED <<now, due, breached, analyst, active, told, crossed>>

(* The review starts, is put off for want of documents or ends (other      *)
(* statuses), or is resumed.                                               *)
IsMoved(p, to) ==
  /\ There(p) /\ Moves
  /\ <<status[p], to>> \in
       {"SUBMITTED", "other"} \X {"UNDER_REVIEW"} \cup UnderAnalysis \X {"other"}
  /\ status' = [status EXCEPT ![p] = to]
  /\ Disturbed({}, {p})
  /\ UNCHANGED <<now, terms, analyst, active, told, crossed>>

(* PublicService.deleteProposal. *)
IsErased(p) ==
  /\ There(p) /\ Moves
  /\ status' = [status EXCEPT ![p] = "gone"]
  /\ Disturbed({}, {p})
  /\ UNCHANGED <<now, terms, analyst, active, told, crossed>>

(* AdminProposalsService.assign, bulkAssign: to any analyst, one that has  *)
(* been deactivated included.                                              *)
IsAssigned(ps, a) ==
  /\ ps # {} /\ \A p \in ps : There(p)
  /\ Moves
  /\ analyst' = [p \in Proposals |-> IF p \in ps THEN a ELSE analyst[p]]
  /\ Disturbed(ps, {})
  /\ UNCHANGED <<now, status, terms, active, told, crossed>>

(* AdminUsersService.deactivate: his proposals stay his. *)
IsDeactivated(a) ==
  /\ a \in active /\ Moves
  /\ active' = active \ {a}
  /\ Disturbed({}, {})
  /\ UNCHANGED <<now, status, terms, analyst, told, crossed>>

Ticks ==
  /\ Busy = {} /\ now < MaxNow
  /\ now' = now + 1
  /\ UNCHANGED <<status, terms, analyst, active, told, run, crossed, moves>>

-----------------------------------------------------------------------------
(* recalculateSla *)

(* The run starts, whether or not the one before has ended, and lists what *)
(* is under analysis.                                                      *)
Starts(r) ==
  /\ IsAt(r, "idle")
  /\ run' = [run EXCEPT ![r] =
       [ IdleRun EXCEPT
           !.step = "sla",
           !.todo = { p \in Proposals : Open(p) },
           !.kept = { p \in Proposals : Open(p) },
           !.dueSeen = { p \in Proposals : due[p] # -1 },
           !.breachSeen = { p \in Proposals : breached[p] # -1 } ]]
  /\ crossed' = (crossed \/ Busy # {})
  /\ UNCHANGED <<now, status, terms, analyst, active, told, moves>>

DueOf(p) == submitted[p] + Term

(* Mutant: a term that has been computed is not looked at again.           *)
MustUpdateOnce(r, p) == p \notin run[r].dueSeen

(* shouldUpdate, from the copy: no term yet, or a breach not yet on record *)
(* (a term, once there, differs only if the configuration has changed).    *)
MustUpdate(r, p) ==
  \/ p \notin run[r].dueSeen
  \/ p \notin run[r].breachSeen /\ DueOf(p) < now

Recalculates(r, p) ==
  /\ IsAt(r, "sla") /\ p \in run[r].todo
  /\ ~MustUpdate(r, p) \/ There(p)
  /\ IF MustUpdate(r, p)
       THEN /\ due' = [due EXCEPT ![p] = DueOf(p)]
            /\ breached' = [breached EXCEPT ![p] =
                 IF DueOf(p) < now THEN now ELSE IF p \in run[r].breachSeen THEN @ ELSE -1]
       ELSE UNCHANGED <<due, breached>>
  /\ run' = [run EXCEPT ![r].todo = @ \ {p}]
  /\ UNCHANGED <<now, status, submitted, analyst, active, told, crossed, moves>>

(* An update of a proposal that is gone throws: the run is over, with all  *)
(* that it had still to do.                                                *)
Throws(r) ==
  /\ \/ IsAt(r, "sla") /\ \E p \in run[r].todo : MustUpdate(r, p) /\ ~There(p)
     \/ \E p \in run[r].telling : ~There(p)
     \/ IsAt(r, "assign") /\ \E p \in run[r].todo : ~There(p)
  /\ run' = [run EXCEPT ![r] = IdleRun]
  /\ UNCHANGED <<now, status, terms, analyst, active, told, crossed, moves>>

-----------------------------------------------------------------------------
(* notifySlaDueSoon *)

Nears(p) ==
  Open(p) /\ due[p] # -1 /\ now <= due[p] /\ due[p] <= now + Soon /\ breached[p] = -1

ListsNearing(r) ==
  /\ IsAt(r, "sla") /\ run[r].todo = {}
  /\ run' = [run EXCEPT ![r] =
       [ IdleRun EXCEPT !.step = "soon", !.kept = run[r].kept,
                        !.todo = { p \in Proposals : Nears(p) } ]]
  /\ UNCHANGED <<now, status, terms, analyst, active, told, crossed, moves>>

(* findFirst over the notices of the proposal with this template. *)
LooksUp(r, p) ==
  /\ IsAt(r, "soon") /\ p \in run[r].todo /\ run[r].telling = {}
  /\ run' = [run EXCEPT ![r].todo = @ \ {p},
                        ![r].telling = IF told[p] > 0 THEN {} ELSE {p}]
  /\ UNCHANGED <<now, status, terms, analyst, active, told, crossed, moves>>

(* notifyInternalSlaDue, whatever has become of the proposal. *)
Warns(r) ==
  \E p \in run[r].telling :
    /\ There(p)
    /\ told' = [told EXCEPT ![p] = @ + 1]
    /\ run' = [run EXCEPT ![r].telling = {}]
    /\ UNCHANGED <<now, status, terms, analyst, active, crossed, moves>>

-----------------------------------------------------------------------------
(* autoAssignAnalysts, where AUTO_ASSIGN_ANALYST is set *)

(* Analysts that are active, and their loads. *)
Counts(r) ==
  /\ IsAt(r, "soon") /\ run[r].todo = {} /\ run[r].telling = {}
  /\ run' = [run EXCEPT
       ![r].step = IF active = {} THEN "idle" ELSE "list",
       ![r].pool = active,
       ![r].load = [a \in Analysts |-> LoadOf(a)],
       ![r].undisturbed = TRUE,
       ![r].gap = Spread([a \in Analysts |-> LoadOf(a)], active)]
  /\ UNCHANGED <<now, status, terms, analyst, active, told, crossed, moves>>

(* Mutant: what is submitted is shared out, assigned or not.               *)
ToShareAll == { p \in Proposals : status[p] = "SUBMITTED" }

ToShare == { p \in Proposals : status[p] = "SUBMITTED" /\ analyst[p] = Nobody }

ListsUnassigned(r) ==
  /\ IsAt(r, "list")
  /\ run' = [run EXCEPT ![r].step = "assign", ![r].todo = ToShare]
  /\ UNCHANGED <<now, status, terms, analyst, active, told, crossed, moves>>

LoadWith(r, a) == [run[r].load EXCEPT ![a] = @ + 1]

(* The next proposal goes to an analyst with the least load, by the run's  *)
(* own count, whoever may have it by now.                                  *)
Assigns(r, p, a) ==
  /\ IsAt(r, "assign") /\ p \in run[r].todo /\ There(p)
  /\ a \in run[r].pool /\ \A b \in run[r].pool : run[r].load[a] <= run[r].load[b]
  /\ analyst' = [analyst EXCEPT ![p] = a]
  /\ run' = [s \in Runs |->
       IF s = r THEN [run[r] EXCEPT !.todo = @ \ {p}, !.load = LoadWith(r, a)]
       ELSE [run[s] EXCEPT !.undisturbed = FALSE,
                           !.fresh = IF IsAt(s, "assign") THEN @ \cup {p} ELSE @]]
  /\ UNCHANGED <<now, status, terms, active, told, crossed, moves>>

Ends(r) ==
  /\ IsAt(r, "assign") /\ run[r].todo = {}
  /\ run' = [run EXCEPT ![r] = IdleRun]
  /\ UNCHANGED <<now, status, terms, analyst, active, told, crossed, moves>>

-----------------------------------------------------------------------------
Others ==
  \/ \E p \in Proposals :
       Submits(p) \/ IsErased(p) \/ \E to \in {"UNDER_REVIEW", "other"} : IsMoved(p, to)
  \/ \E a \in Analysts : IsDeactivated(a) \/ \E ps \in SUBSET Proposals : IsAssigned(ps, a)
  \/ Ticks

Goes(r) ==
  \/ Throws(r) \/ ListsNearing(r) \/ Warns(r) \/ Counts(r) \/ ListsUnassigned(r) \/ Ends(r)
  \/ \E p \in Proposals :
       Recalculates(r, p) \/ LooksUp(r, p) \/ \E a \in Analysts : Assigns(r, p, a)

Next == Others \/ \E r \in Runs : Starts(r) \/ Goes(r)

Spec == Init /\ [][Next]_vars

-----------------------------------------------------------------------------
(* The team is warned of a term once, unless two runs were under way at    *)
(* once: both may have looked before either had written (notifySlaDueSoon).*)
WarnedOnce == \A p \in Proposals : told[p] > 1 => crossed

(* What a person has assigned is not reassigned by the triage: a run that  *)
(* overwrites an analyst does so only where the assignment came after the  *)
(* run had listed the proposal as nobody's (autoAssignAnalysts).           *)
AssignmentStands ==
  [][ \A r \in Runs, p \in Proposals :
        (IsAt(r, "assign") /\ p \in run[r].todo \ run'[r].todo /\ analyst[p] # Nobody)
          => p \in run[r].fresh ]_vars

(* A run that nothing interferes with evens the loads out: the analysts    *)
(* are no further apart than before, or by one at most.                    *)
AssigningEvensOut ==
  \A r \in Runs :
    (IsAt(r, "assign") /\ run[r].undisturbed) =>
      Spread([a \in Analysts |-> LoadOf(a)], run[r].pool) <= Max({1, run[r].gap})

(* applySlaFilter: the three choices of the back office's list. *)
InBreached(p) == breached[p] # -1 \/ (due[p] # -1 /\ due[p] < now)
InDueSoon(p) == due[p] # -1 /\ now <= due[p] /\ due[p] <= now + Soon /\ breached[p] = -1

InOk(p) == due[p] = -1 \/ due[p] > now + Soon

(* Each proposal is found under one of the three and no other: a breach on *)
(* record never goes with a term that lies ahead.                          *)
OneFilterShows ==
  \A p \in Proposals :
    Cardinality({ f \in {"BREACHED", "DUE_SOON", "OK"} :
      \/ f = "BREACHED" /\ InBreached(p)
      \/ f = "DUE_SOON" /\ InDueSoon(p)
      \/ f = "OK" /\ InOk(p) }) = 1

(* A run leaves no breach unrecorded: what was under analysis all along    *)
(* and is past its term has its breach on record once the run is past that *)
(* phase, though runs overlap and each writes from a copy; a run that      *)
(* throws over another proposal, erased meanwhile, does not get there      *)
(* (recalculateSla).                                                       *)
Overdue(p) == submitted[p] + Term < now

BreachIsRecorded ==
  \A r \in Runs, p \in Proposals :
    (run[r].step \notin {"idle", "sla"} /\ p \in run[r].kept /\ Overdue(p))
      => breached[p] # -1

(* A proposal that is there was submitted, its term is counted from then,  *)
(* and a breach is of a term that has passed.                              *)
TermsAreSound ==
  \A p \in Proposals :
    /\ status[p] # "none" => submitted[p] # -1
    /\ due[p] # -1 => status[p] # "none" /\ due[p] = DueOf(p)
    /\ breached[p] # -1 => due[p] # -1 /\ due[p] < now

(* A run works on what was there when it started; what it does not update  *)
(* needs none, though another run may have written since.                  *)
RecalculationIsSound ==
  \A r \in Runs :
    /\ \A p \in run[r].todo \cup run[r].kept : status[p] # "none"
    /\ IsAt(r, "sla") =>
         /\ \A p \in run[r].breachSeen : p \in run[r].dueSeen /\ breached[p] # -1
         /\ \A p \in run[r].kept \ run[r].todo : Overdue(p) => breached[p] # -1

(* One proposal is warned of at a time, only in its phase, and unless runs *)
(* crossed it has not been warned of before.                               *)
Tellers(p) == { r \in Runs : p \in run[r].telling }

WarningsAreSound ==
  /\ \A r \in Runs : run[r].telling # {} => IsAt(r, "soon")
  /\ \A r \in Runs : \A p, q \in run[r].telling : p = q
  /\ ~crossed => /\ \A r, s \in Busy : r = s
                 /\ \A r \in Runs : \A p \in run[r].telling : told[p] = 0
  /\ \A p \in Proposals : told[p] + Cardinality(Tellers(p)) <= Cardinality(Runs)

(* A run nothing interferes with counts as the database would, and what it *)
(* has still to assign is nobody's.                                        *)
CountIsSound ==
  \A r \in Runs :
    /\ IsAt(r, "list") => \A a \in Analysts : run[r].load[a] <= Cardinality(Proposals)
    /\ IsAt(r, "assign") => \A a \in Analysts :
         run[r].load[a] + Cardinality(run[r].todo) <= 2 * Cardinality(Proposals)
    /\ run[r].step \in {"list", "assign"} /\ run[r].undisturbed =>
         /\ \A a \in Analysts : run[r].load[a] = LoadOf(a)
         /\ Spread(run[r].load, run[r].pool) <= Max({1, run[r].gap})
    /\ IsAt(r, "assign") => \A p \in run[r].todo :
         /\ analyst[p] = Nobody \/ p \in run[r].fresh
         /\ run[r].undisturbed => Open(p) /\ analyst[p] = Nobody

(* The invariants of the triage: one warning, even loads, each proposal    *)
(* under one filter, no breach unrecorded; with what makes it so, the      *)
(* invariant is inductive (Schedules_proofs).                              *)
TriageInv ==
  /\ TypeOK /\ TermsAreSound /\ RecalculationIsSound /\ WarningsAreSound /\ CountIsSound
  /\ WarnedOnce /\ AssigningEvensOut /\ OneFilterShows /\ BreachIsRecorded

=============================================================================
