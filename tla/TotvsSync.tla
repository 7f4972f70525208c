------------------------------ MODULE TotvsSync ------------------------------
(***************************************************************************)
(* Registering the signed member in the TOTVS ERP: the totvs.sync job of   *)
(* the worker, the reprocess button of the back office, and the webhook by *)
(* which TOTVS reports the member's status.                                *)
(*                                                                         *)
(* The job reads the proposal once and then works from that copy; three    *)
(* writes (sync row, proposal, notifications) follow the answer of the ERP *)
(* with an await between each, and any of them may be the last one done.   *)
(***************************************************************************)
EXTENDS Naturals, Cadastro

CONSTANTS
  Proposals,
  JobIds,        (* ids of jobs of the totvs-jobs queue (a bound)          *)
  Requests,      (* reprocess requests and TOTVS callbacks (a bound)       *)
  MaxAttempts,   (* "attempts" of totvs.sync: 3 in the code                *)
  MaxCrashes,    (* bound on attempts cut short between two writes         *)
  MaxSignings,   (* signed events per proposal that reach the system       *)
  ReturnsId,     (* TOTVS puts the member's id in every answer it gives    *)
  Earlier,       (* proposals whose CPF TOTVS has as a member beforehand   *)
  StaffStatus    (* statuses other components may write meanwhile          *)

ASSUME IdAssumption       == JobIds \subseteq Nat
ASSUME AttemptsAssumption == MaxAttempts \in Nat \ {0}
ASSUME CrashAssumption    == MaxCrashes \in Nat
ASSUME SigningAssumption  == MaxSignings \in Nat
ASSUME ReturnsAssumption  == ReturnsId \in BOOLEAN
ASSUME EarlierAssumption  == Earlier \subseteq Proposals
ASSUME StaffAssumption    == StaffStatus \subseteq ProposalStatus \ {"SIGNED", "APPROVED"}

VARIABLES
  status,     (* Proposal.status                                           *)
  sync,       (* TotvsSync.status, "NONE" if there is no row               *)
  known,      (* whether TotvsSync.externalId is set                       *)
  jobs,       (* the totvs-jobs queue                                      *)
  reqs,       (* reprocess requests and TOTVS callbacks in flight          *)
  asked,      (* those made so far (bounds the model)                      *)
  member,     (* the ERP holds the member (external)                       *)
  signings,   (* history variable: signed events booked on the proposal    *)
  crashes     (* attempts cut short so far                                 *)

syncVars == <<status, sync, known, jobs, reqs, asked, member, signings, crashes>>

Job ==
  [ id : JobIds, p : Proposals, seen : ProposalStatus, answerHasId : BOOLEAN,
    step : {"read", "pending", "post", "synced", "failed", "approve", "notify", "dead"},
    tries : 0 .. MaxAttempts ]

(* A request of the staff is at "enqueue" between its two effects, a       *)
(* callback at "status"; "to" is the status that the callback reports (of  *)
(* no meaning for a request of the staff).                                 *)
Request ==
  [ id : Requests, p : Proposals, step : {"enqueue", "status"},
    to : {"APPROVED", "CANCELED"} ]

SyncTypeOK ==
  /\ status \in [Proposals -> ProposalStatus]
  /\ sync \in [Proposals -> TotvsSyncStatus \cup {"NONE"}]
  /\ known \in [Proposals -> BOOLEAN]
  /\ jobs \subseteq Job
  /\ reqs \subseteq Request
  /\ asked \subseteq Requests
  /\ member \in [Proposals -> BOOLEAN]
  /\ signings \in [Proposals -> 0 .. MaxSignings]
  /\ crashes \in 0 .. MaxCrashes

SyncInit ==
  /\ status = [p \in Proposals |-> "PENDING_SIGNATURE"]
  /\ sync = [p \in Proposals |-> "NONE"]
  /\ known = [p \in Proposals |-> FALSE]
  /\ jobs = {}
  /\ reqs = {}
  /\ asked = {}
  /\ member = [p \in Proposals |-> p \in Earlier]
  /\ signings = [p \in Proposals |-> 0]
  /\ crashes = 0

-----------------------------------------------------------------------------
Used(recs) == { r.id : r \in recs }

IsFreshJob(i) ==
  /\ i \in JobIds \ Used(jobs)
  /\ \A k \in JobIds : k < i => k \in Used(jobs)

NewJob(i, p) ==
  [id |-> i, p |-> p, seen |-> "SIGNED", answerHasId |-> FALSE, step |-> "read", tries |-> 0]

Without(recs, r) == recs \ {r}
Moved(recs, r, to) == Without(recs, r) \cup {[r EXCEPT !.step = to]}

(* The job after an attempt that threw: back to its first line, or to the  *)
(* failed set.                                                             *)
NextAttempt(j) ==
  [ NewJob(j.id, j.p) EXCEPT
      !.tries = j.tries + 1,
      !.step = IF j.tries + 1 < MaxAttempts THEN "read" ELSE "dead" ]

AfterFailure(j) == Without(jobs, j) \cup {NextAttempt(j)}

-----------------------------------------------------------------------------
(* Where totvs.sync jobs come from. *)

(* The Clicksign webhook books a signature: the proposal becomes SIGNED    *)
(* whatever it was and a job is queued, once per signed event.             *)
Signed(p, i) ==
  /\ signings[p] < MaxSignings
  /\ signings' = [signings EXCEPT ![p] = @ + 1]
  /\ status' = [status EXCEPT ![p] = "SIGNED"]
  /\ IsFreshJob(i)
  /\ jobs' = jobs \cup {NewJob(i, p)}
  /\ UNCHANGED <<sync, known, reqs, asked, member, crashes>>

(* AdminProposalsService.reprocessTotvs: the row is PENDING, whatever the  *)
(* proposal's status and whatever the row was; then the job is queued.     *)
ReprocessMark(r, p) ==
  /\ r \notin asked
  /\ asked' = asked \cup {r}
  /\ sync' = [sync EXCEPT ![p] = "PENDING"]
  /\ reqs' = reqs \cup {[id |-> r, p |-> p, step |-> "enqueue", to |-> "APPROVED"]}
  /\ UNCHANGED <<status, known, jobs, member, signings, crashes>>

ReprocessEnqueue(r, i) ==
  /\ r.step = "enqueue"
  /\ IsFreshJob(i)
  /\ jobs' = jobs \cup {NewJob(i, r.p)}
  /\ reqs' = Without(reqs, r)
  /\ UNCHANGED <<status, sync, known, asked, member, signings, crashes>>

-----------------------------------------------------------------------------
(* TotvsWorker.handleJob *)

(* totvs.already_synced, totvs.skip_status: the job is done, nothing is    *)
(* written.                                                                *)
Skip(j) ==
  /\ j.step = "read"
  /\ sync[j.p] = "SYNCED" \/ status[j.p] \notin SyncableStatus
  /\ jobs' = Without(jobs, j)
  /\ UNCHANGED <<status, sync, known, reqs, asked, member, signings, crashes>>

(* Mutant: the status is not looked at. *)
ReadAnyStatus(j) ==
  /\ j.step = "read"
  /\ sync[j.p] # "SYNCED"
  /\ jobs' = Without(jobs, j) \cup {[j EXCEPT !.step = "pending", !.seen = status[j.p]]}
  /\ UNCHANGED <<status, sync, known, reqs, asked, member, signings, crashes>>

Read(j) ==
  /\ j.step = "read"
  /\ sync[j.p] # "SYNCED"
  /\ status[j.p] \in SyncableStatus
  /\ jobs' = Without(jobs, j) \cup {[j EXCEPT !.step = "pending", !.seen = status[j.p]]}
  /\ UNCHANGED <<status, sync, known, reqs, asked, member, signings, crashes>>

MarkPending(j) ==
  /\ j.step = "pending"
  /\ sync' = [sync EXCEPT ![j.p] = "PENDING"]
  /\ jobs' = Moved(jobs, j, "post")
  /\ UNCHANGED <<status, known, reqs, asked, member, signings, crashes>>

(* 2xx, or 409 when the ERP has the CPF already. *)
PostAccepted(j) ==
  /\ j.step = "post"
  /\ member' = [member EXCEPT ![j.p] = TRUE]
  /\ \E hasId \in IF ReturnsId THEN {TRUE} ELSE BOOLEAN :
       jobs' = Without(jobs, j) \cup {[j EXCEPT !.step = "synced", !.answerHasId = hasId]}
  /\ UNCHANGED <<status, sync, known, reqs, asked, signings, crashes>>

(* Mutant: any answer of the ERP is taken for a success. *)
PostRejectedUnseen(j) ==
  /\ j.step = "post"
  /\ jobs' = Moved(jobs, j, "synced")
  /\ UNCHANGED <<status, sync, known, reqs, asked, member, signings, crashes>>

PostRejected(j) ==
  /\ j.step = "post"
  /\ jobs' = Moved(jobs, j, "failed")
  /\ UNCHANGED <<status, sync, known, reqs, asked, member, signings, crashes>>

(* Mutant: no answer in time is taken for a success. *)
PostTimesOutSynced(j) ==
  /\ j.step = "post"
  /\ \E got \in BOOLEAN : member' = [member EXCEPT ![j.p] = @ \/ got]
  /\ jobs' = Moved(jobs, j, "approve")
  /\ UNCHANGED <<status, sync, known, reqs, asked, signings, crashes>>

(* The abort timer or the network: fetch throws, and the ERP may have got  *)
(* the request all the same.  No row is written.                           *)
PostTimesOut(j) ==
  /\ j.step = "post"
  /\ \E got \in BOOLEAN : member' = [member EXCEPT ![j.p] = @ \/ got]
  /\ jobs' = AfterFailure(j)
  /\ UNCHANGED <<status, sync, known, reqs, asked, signings, crashes>>

(* externalId is overwritten even with null. *)
MarkSynced(j) ==
  /\ j.step = "synced"
  /\ sync' = [sync EXCEPT ![j.p] = "SYNCED"]
  /\ known' = [known EXCEPT ![j.p] = j.answerHasId]
  /\ jobs' = Moved(jobs, j, "approve")
  /\ UNCHANGED <<status, reqs, asked, member, signings, crashes>>

(* The status that was read decides, not the present one. *)
Approve(j) ==
  /\ j.step = "approve"
  /\ status' = [status EXCEPT ![j.p] = IF j.seen # "APPROVED" THEN "APPROVED" ELSE @]
  /\ jobs' = Moved(jobs, j, "notify")
  /\ UNCHANGED <<sync, known, reqs, asked, member, signings, crashes>>

Notify(j) ==
  /\ j.step = "notify"
  /\ jobs' = Without(jobs, j)
  /\ UNCHANGED <<status, sync, known, reqs, asked, member, signings, crashes>>

MarkFailed(j) ==
  /\ j.step = "failed"
  /\ sync' = [sync EXCEPT ![j.p] = "FAILED"]
  /\ jobs' = AfterFailure(j)
  /\ UNCHANGED <<status, known, reqs, asked, member, signings, crashes>>

(* The worker dies or the database refuses a write between two effects.    *)
JobCrashes(j) ==
  /\ j.step # "dead"
  /\ crashes < MaxCrashes
  /\ crashes' = crashes + 1
  /\ jobs' = AfterFailure(j)
  /\ UNCHANGED <<status, sync, known, reqs, asked, member, signings>>

-----------------------------------------------------------------------------
(* TotvsWebhookService.handle.  TOTVS reports on its members only; the     *)
(* report finds the proposal by the id or by the CPF.                      *)

Reported == {"APPROVED", "CANCELED"}

(* With an id in the report the row is created SYNCED, or gets the id and  *)
(* keeps its status.  A report on other data has no status to write.       *)
CallbackRow(r, p) ==
  /\ r \notin asked
  /\ member[p]
  /\ asked' = asked \cup {r}
  /\ \E hasId \in IF ReturnsId THEN {TRUE} ELSE BOOLEAN :
       /\ sync' = [sync EXCEPT ![p] = IF hasId /\ @ = "NONE" THEN "SYNCED" ELSE @]
       /\ known' = [known EXCEPT ![p] = @ \/ hasId]
  /\ \/ UNCHANGED reqs
     \/ \E to \in Reported :
          reqs' = reqs \cup {[id |-> r, p |-> p, step |-> "status", to |-> to]}
  /\ UNCHANGED <<status, jobs, member, signings, crashes>>

CallbackStatus(r) ==
  /\ r.step = "status"
  /\ status' = [status EXCEPT ![r.p] = r.to]
  /\ reqs' = Without(reqs, r)
  /\ UNCHANGED <<sync, known, jobs, asked, member, signings, crashes>>

(* Any request stops at an await. *)
RequestStops(r) ==
  /\ crashes < MaxCrashes
  /\ crashes' = crashes + 1
  /\ reqs' = Without(reqs, r)
  /\ UNCHANGED <<status, sync, known, jobs, asked, member, signings>>

StatusElsewhere(p, s) ==
  /\ s \in StaffStatus
  /\ s # status[p]
  /\ status' = [status EXCEPT ![p] = s]
  /\ UNCHANGED <<sync, known, jobs, reqs, asked, member, signings, crashes>>

-----------------------------------------------------------------------------
JobAdvances(j) ==
  \/ Skip(j) \/ Read(j) \/ MarkPending(j)
  \/ PostAccepted(j) \/ PostRejected(j) \/ PostTimesOut(j)
  \/ MarkSynced(j) \/ Approve(j) \/ Notify(j) \/ MarkFailed(j)

Worker == \E j \in jobs : JobAdvances(j) \/ JobCrashes(j)

Api ==
  \/ \E r \in Requests, p \in Proposals :
       ReprocessMark(r, p) \/ CallbackRow(r, p)
  \/ \E r \in reqs :
       CallbackStatus(r) \/ RequestStops(r) \/ \E i \in JobIds : ReprocessEnqueue(r, i)

Elsewhere ==
  \E p \in Proposals :
    \/ \E i \in JobIds : Signed(p, i)
    \/ \E s \in StaffStatus : StatusElsewhere(p, s)

SyncNext == Worker \/ Api \/ Elsewhere

SyncSpec == SyncInit /\ [][SyncNext]_syncVars

(* BullMQ runs a job as long as one can run, and an API request goes on.   *)
Fairness ==
  /\ WF_syncVars(\E j \in jobs : JobAdvances(j))
  /\ WF_syncVars(\E r \in reqs : CallbackStatus(r) \/ \E i \in JobIds : ReprocessEnqueue(r, i))

FairSpec == SyncSpec /\ Fairness

-----------------------------------------------------------------------------
(* Safety. *)

(* What the back office shows as synchronised or approved is a member in   *)
(* the ERP, and the ERP got no one who never signed: neither an attempt    *)
(* that is repeated, nor a copy of the proposal gone stale, nor a callback *)
(* between two writes of the worker brings the two systems apart.          *)
SyncedIsMember ==
  \A p \in Proposals : sync[p] = "SYNCED" \/ status[p] = "APPROVED" => member[p]

MemberHasSigned ==
  \A p \in Proposals : member[p] /\ p \notin Earlier => signings[p] > 0

(* A row that says SYNCED has the id by which later reports of TOTVS find  *)
(* the proposal (docs/TOTVS_INTEGRATION.md:322-336), provided TOTVS        *)
(* answers every request, and the 409 in particular, with the id.          *)
SyncedHasId ==
  \A p \in Proposals : sync[p] = "SYNCED" => known[p]

(* What these rest on.  Together with them it is inductive.                *)

Answered == {"synced", "approve", "notify"}

JobsAreSound ==
  \A j \in jobs :
    /\ j.step # "dead" => j.tries < MaxAttempts
    /\ j.step \in Answered => member[j.p]
    /\ j.step \notin {"read", "dead"} /\ j.p \notin Earlier => signings[j.p] > 0
    /\ j.step = "synced" /\ ReturnsId => j.answerHasId

ReportsAreSound == \A r \in reqs : r.step = "status" => member[r.p]

SignedIsBooked == \A p \in Proposals : status[p] = "SIGNED" => signings[p] > 0

SyncInv ==
  /\ SyncTypeOK
  /\ JobsAreSound
  /\ ReportsAreSound
  /\ SignedIsBooked
  /\ SyncedIsMember
  /\ MemberHasSigned
  /\ ReturnsId => SyncedHasId

-----------------------------------------------------------------------------
(* Liveness, under FairSpec. *)

(* docs/TOTVS_INTEGRATION.md:288-295: a signed proposal gets APPROVED (or  *)
(* is taken elsewhere by the staff or by TOTVS), or its job ends in the    *)
(* failed set, unless an attempt was cut short between its writes (the     *)
(* next one sees SYNCED and stops) or the proposal was signed again.  The  *)
(* CPF was not a member before (Earlier is empty).                         *)
SignedIsSettled ==
  \A p \in Proposals :
    status[p] = "SIGNED" ~>
      \/ status[p] # "SIGNED" \/ \E j \in jobs : j.p = p /\ j.step = "dead"
      \/ crashes > 0 \/ signings[p] > 1

=============================================================================
