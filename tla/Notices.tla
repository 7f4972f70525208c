------------------------------ MODULE Notices -------------------------------
(***************************************************************************)
(* Telling people about a proposal: the row of a notice, the job that      *)
(* sends it, the provider (SendGrid, Twilio or a browser's push service)   *)
(* and the reports by which a provider says what became of a message.      *)
(*                                                                         *)
(* A caller writes the row and then queues the job, one notice after       *)
(* another; the worker calls the provider and then writes the row; the     *)
(* reports find the row by the message's id, which is there only after     *)
(* that.  The proposal may be erased, with its rows, at any point.         *)
(***************************************************************************)
EXTENDS Naturals, FiniteSets

CONSTANTS
  MaxNotices,    (* notices one caller sends, in this order (a bound)      *)
  Channels,      (* channels that occur                                    *)
  MaxAttempts,   (* "attempts" of the notify jobs: 3 in the code           *)
  MaxFaults      (* bound on errors, lost answers and processes that stop  *)

ASSUME NoticesAssumption  == MaxNotices \in Nat \ {0}
ASSUME ChannelsAssumption == Channels \subseteq {"EMAIL", "SMS", "WHATSAPP", "PUSH"}
ASSUME AttemptsAssumption == MaxAttempts \in Nat \ {0}
ASSUME FaultsAssumption   == MaxFaults \in Nat

VARIABLES
  next,      (* the caller: the notice it is at, and what it does next     *)
  row,       (* Notification.status                                        *)
  msg,       (* Notification.providerMessageId: which of the notice's      *)
             (* messages it names, 0 if it is null                         *)
  about,     (* the channel of a notice and whether its reader opted in    *)
  job,       (* the notify job                                             *)
  device,    (* PushSubscription.isActive of the team's device             *)
  erased,    (* the proposal and all its rows are deleted                  *)
  sent,      (* messages the provider has taken for a notice (external)    *)
  arrived,   (* messages that reached their reader (external)              *)
  refused,   (* history variable: notices that were refused for good       *)
  lost,      (* history variable: messages taken by an attempt that did    *)
             (* not get as far as ending its job                           *)
  faults     (* faults so far                                              *)

vars == <<next, row, msg, about, job, device, erased, sent, arrived, refused, lost, faults>>
rows == <<row, msg>>
outside == <<sent, arrived>>

Notices == 1 .. MaxNotices

(* Every attempt takes one message at most, and a fault may make the queue *)
(* hand the job out once more.                                             *)
MaxSent == MaxAttempts + MaxFaults

Report == {"DELIVERED", "FAILED"}

JobStep == { "none", "waiting", "calling", "recording", "ending",
             "erred", "refused", "gone", "done", "failed" }

TypeOK ==
  /\ next \in [at : 1 .. MaxNotices + 1, step : {"row", "job", "stopped"}]
  /\ row \in [Notices -> {"none", "PENDING", "SENT", "DELIVERED", "FAILED", "gone"}]
  /\ msg \in [Notices -> 0 .. MaxSent]
  /\ about \in [Notices -> [channel : Channels, optIn : BOOLEAN]]
  /\ job \in [Notices -> [step : JobStep, tries : 0 .. MaxAttempts]]
  /\ device \in BOOLEAN
  /\ erased \in BOOLEAN
  /\ sent \in [Notices -> 0 .. MaxSent]
  /\ arrived \in [Notices -> SUBSET (1 .. MaxSent)]
  /\ refused \subseteq Notices
  /\ lost \in [Notices -> 0 .. MaxSent]
  /\ faults \in 0 .. MaxFaults

(* What a notice is about is drawn beforehand. *)
Init ==
  /\ next = [at |-> 1, step |-> "row"]
  /\ row = [n \in Notices |-> "none"]
  /\ msg = [n \in Notices |-> 0]
  /\ about \in [Notices -> { a \in [channel : Channels, optIn : BOOLEAN] :
                               a.channel # "WHATSAPP" => a.optIn }]
  /\ job = [n \in Notices |-> [step |-> "none", tries |-> 0]]
  /\ device = TRUE
  /\ erased = FALSE
  /\ sent = [n \in Notices |-> 0]
  /\ arrived = [n \in Notices |-> {}]
  /\ refused = {}
  /\ lost = [n \in Notices |-> 0]
  /\ faults = 0

-----------------------------------------------------------------------------
(* Shorthands *)

Exists(n) == row[n] \notin {"none", "gone"}
IsPush(n) == about[n].channel = "PUSH"
At(n, step) == job[n].step = step
JobGoes(n, step) == job' = [job EXCEPT ![n].step = step]
Fault == faults < MaxFaults /\ faults' = faults + 1
Loses(n) == lost' = [lost EXCEPT ![n] = @ + 1]

-----------------------------------------------------------------------------
(* The caller: NotificationsService.enqueue, or queueNotification of the   *)
(* signature worker, for each channel in turn; sendPushToTeam for devices. *)

(* The row is created PENDING; the foreign key refuses it if the proposal  *)
(* is gone, and the caller throws.                                         *)
CreatesRow(n) ==
  /\ next = [at |-> n, step |-> "row"]
  /\ IsPush(n) => device
  /\ IF erased
       THEN next' = [next EXCEPT !.step = "stopped"] /\ UNCHANGED row
       ELSE next' = [next EXCEPT !.step = "job"] /\ row' = [row EXCEPT ![n] = "PENDING"]
  /\ UNCHANGED <<msg, about, job, device, erased, outside, refused, lost, faults>>

(* sendPushToTeam finds no active subscription. *)
NobodyListens(n) ==
  /\ next = [at |-> n, step |-> "row"]
  /\ IsPush(n) /\ ~device
  /\ next' = [next EXCEPT !.at = n + 1]
  /\ UNCHANGED <<rows, about, job, device, erased, outside, refused, lost, faults>>

QueuesJob(n) ==
  /\ next = [at |-> n, step |-> "job"]
  /\ JobGoes(n, "waiting")
  /\ next' = [at |-> n + 1, step |-> "row"]
  /\ UNCHANGED <<rows, about, device, erased, outside, refused, lost, faults>>

(* The database or the queue fails the caller, or its process stops: what  *)
(* it has done stays, the notices after it are never written.              *)
CallerStops ==
  /\ next.at \in Notices /\ next.step # "stopped"
  /\ Fault
  /\ next' = [next EXCEPT !.step = "stopped"]
  /\ UNCHANGED <<rows, about, job, device, erased, outside, refused, lost>>

-----------------------------------------------------------------------------
(* The provider (external) *)

Takes(n) == sent[n] < MaxSent /\ sent' = [sent EXCEPT ![n] = @ + 1]

(* whatsapp.service.ts refuses by itself what needs an opt-in. *)
MayBeTaken(n) == about[n].optIn

(* The provider takes the message and its answer arrives. *)
Accepts(n) ==
  /\ At(n, "calling") /\ MayBeTaken(n)
  /\ Takes(n)
  /\ JobGoes(n, "recording")
  /\ UNCHANGED <<next, rows, about, device, erased, arrived, refused, lost, faults>>

(* The provider takes the message and its answer is lost. *)
AnswerIsLost(n) ==
  /\ At(n, "calling") /\ MayBeTaken(n)
  /\ Fault
  /\ Takes(n) /\ Loses(n)
  /\ JobGoes(n, "erred")
  /\ UNCHANGED <<next, rows, about, device, erased, arrived, refused>>

(* isPermanentError: the provider refuses for good, or the opt-in lacks.   *)
(* For a push only a subscription that is gone is permanent.               *)
Refuses(n) ==
  /\ At(n, "calling")
  /\ JobGoes(n, IF IsPush(n) THEN "gone" ELSE "refused")
  /\ refused' = refused \cup {n}
  /\ UNCHANGED <<next, rows, about, device, erased, outside, lost, faults>>

(* Anything else that goes wrong. *)
Errs(n) ==
  /\ At(n, "calling") /\ MayBeTaken(n)
  /\ Fault
  /\ JobGoes(n, "erred")
  /\ UNCHANGED <<next, rows, about, device, erased, outside, refused, lost>>

(* A message reaches its reader.                                           *)
Arrives(n, k) ==
  /\ ~IsPush(n)
  /\ k <= sent[n]
  /\ arrived' = [arrived EXCEPT ![n] = @ \cup {k}]
  /\ UNCHANGED <<next, rows, about, job, device, erased, sent, refused, lost, faults>>

-----------------------------------------------------------------------------
(* NotificationWorker *)

Starts(n) ==
  /\ At(n, "waiting")
  /\ JobGoes(n, "calling")
  /\ UNCHANGED <<next, rows, about, device, erased, outside, refused, lost, faults>>

(* notification.update after the send: a row that is gone makes it throw,  *)
(* which is no permanent error.                                            *)
Records(n) ==
  /\ At(n, "recording")
  /\ IF Exists(n)
       THEN /\ row' = [row EXCEPT ![n] = "SENT"]
            /\ msg' = [msg EXCEPT ![n] = sent[n]]
            /\ JobGoes(n, "ending")
            /\ UNCHANGED lost
       ELSE /\ JobGoes(n, "erred")
            /\ Loses(n)
            /\ UNCHANGED rows
  /\ UNCHANGED <<next, about, device, erased, outside, refused, faults>>

(* The same update fails for want of the database. *)
RecordFails(n) ==
  /\ At(n, "recording") /\ Exists(n)
  /\ Fault
  /\ JobGoes(n, "erred")
  /\ Loses(n)
  /\ UNCHANGED <<next, rows, about, device, erased, outside, refused>>

Ends(n) ==
  /\ At(n, "ending")
  /\ JobGoes(n, "done")
  /\ UNCHANGED <<next, rows, about, device, erased, outside, refused, lost, faults>>

(* Mutant: the attempts are not counted. *)
WaitsAgain(n) == job' = [job EXCEPT ![n].step = "waiting"]

(* The queue's reaction to an attempt that threw. *)
Retries(n) ==
  job' = [job EXCEPT ![n] =
            [ tries |-> @.tries + 1,
              step  |-> IF @.tries + 1 < MaxAttempts THEN "waiting" ELSE "failed" ]]

MarksFailed(n) == row' = [row EXCEPT ![n] = IF Exists(n) THEN "FAILED" ELSE @]

(* The catch block after an error that is not permanent: the row of a push *)
(* is marked before the next attempt, every other one stays as it is.      *)
Fails(n) ==
  /\ At(n, "erred")
  /\ IF IsPush(n) THEN MarksFailed(n) ELSE UNCHANGED row
  /\ Retries(n)
  /\ UNCHANGED <<next, msg, about, device, erased, outside, refused, lost, faults>>

(* The catch block after a permanent one.  A row that is gone makes its    *)
(* update throw before UnrecoverableError: the job is tried again.         *)
GivesUp(n) ==
  /\ At(n, "refused") \/ At(n, "gone")
  /\ device' = (device /\ ~At(n, "gone"))
  /\ MarksFailed(n)
  /\ IF Exists(n) THEN JobGoes(n, "failed") ELSE Retries(n)
  /\ UNCHANGED <<next, msg, about, erased, outside, refused, lost, faults>>

(* The database fails either catch block. *)
CatchFails(n) ==
  /\ At(n, "erred") \/ At(n, "refused") \/ At(n, "gone")
  /\ Fault
  /\ Retries(n)
  /\ UNCHANGED <<next, rows, about, device, erased, outside, refused, lost>>

(* The worker stops: the queue finds the job stalled and hands it out      *)
(* again, or gives it up if that has happened before.                      *)
WorkerStops(n) ==
  /\ job[n].step \notin {"none", "waiting", "done", "failed"}
  /\ Fault
  /\ \/ JobGoes(n, "waiting")
     \/ JobGoes(n, "failed")
  /\ IF At(n, "recording") \/ At(n, "ending") THEN Loses(n) ELSE UNCHANGED lost
  /\ UNCHANGED <<next, rows, about, device, erased, outside, refused>>

-----------------------------------------------------------------------------
(* SendgridWebhookService, TwilioWebhookService *)

(* What a provider may say of a message it took: a push service says       *)
(* nothing, the others say "delivered" of what arrived, and "failed" at    *)
(* any time, of a message that arrived too (a complaint of its reader).    *)
Says(n, k, says) ==
  /\ ~IsPush(n)
  /\ k <= sent[n]
  /\ says = "DELIVERED" => k \in arrived[n]

(* Mutant: a report finds its notice by a reference sent along with the    *)
(* message, not by the message's id.                                       *)
ReportsByNotice(n, k, says) ==
  /\ Says(n, k, says)
  /\ Exists(n)
  /\ row' = [row EXCEPT ![n] = says]
  /\ UNCHANGED <<next, msg, about, job, device, erased, outside, refused, lost, faults>>

(* A report arrives, once or often, in whatever order: the row that names  *)
(* the message takes the status reported; if none does, it is dropped.     *)
Reports(n, k, says) ==
  /\ Says(n, k, says)
  /\ Exists(n) /\ msg[n] = k
  /\ row' = [row EXCEPT ![n] = says]
  /\ UNCHANGED <<next, msg, about, job, device, erased, outside, refused, lost, faults>>

-----------------------------------------------------------------------------
(* The rest of the system *)

(* AdminPushService.register and unregister. *)
Listens ==
  /\ device' \in BOOLEAN
  /\ UNCHANGED <<next, rows, about, job, erased, outside, refused, lost, faults>>

(* PublicService.deleteProposal: the rows go with the proposal, the jobs   *)
(* stay queued.                                                            *)
Erases ==
  /\ ~erased
  /\ erased' = TRUE
  /\ row' = [n \in Notices |-> IF Exists(n) THEN "gone" ELSE row[n]]
  /\ UNCHANGED <<next, msg, about, job, device, outside, refused, lost, faults>>

(* maintenance.cleanup deletes a row that is old enough; its job is over   *)
(* by then, or was never queued.                                           *)
Expires(n) ==
  /\ Exists(n)
  /\ At(n, "done") \/ At(n, "failed") \/ (At(n, "none") /\ next.step = "stopped")
  /\ row' = [row EXCEPT ![n] = "gone"]
  /\ UNCHANGED <<next, msg, about, job, device, erased, outside, refused, lost, faults>>

-----------------------------------------------------------------------------
Call(n) == CreatesRow(n) \/ NobodyListens(n) \/ QueuesJob(n)

Provider(n) ==
  \/ Accepts(n) \/ AnswerIsLost(n) \/ Refuses(n) \/ Errs(n)
  \/ \E k \in 1 .. MaxSent : Arrives(n, k)

Work(n) ==
  \/ Starts(n) \/ Records(n) \/ RecordFails(n) \/ Ends(n)
  \/ Fails(n) \/ GivesUp(n) \/ CatchFails(n) \/ WorkerStops(n)

Webhook(n) == \E k \in 1 .. MaxSent, says \in Report : Reports(n, k, says)

Next ==
  \/ \E n \in Notices : Call(n) \/ Provider(n) \/ Work(n) \/ Webhook(n) \/ Expires(n)
  \/ CallerStops \/ Listens \/ Erases

(* The queue hands a job that waits to a worker, and a call to a provider  *)
(* ends in one way or another.                                             *)
Answers(n) == Accepts(n) \/ Refuses(n) \/ Errs(n) \/ AnswerIsLost(n)

Fairness ==
  /\ \A n \in Notices : WF_vars(Starts(n) \/ Answers(n) \/ Records(n) \/ Ends(n) \/ Fails(n) \/ GivesUp(n))

Spec == Init /\ [][Next]_vars
FairSpec == Spec /\ Fairness

-----------------------------------------------------------------------------
(* Nobody is told twice unless a message got lost between the provider and *)
(* the end of the job: a job is never run again after its message was      *)
(* taken and booked, and no two attempts send without the first having     *)
(* failed after the fact (processNotification, processPush).               *)
SecondMessageNeedsALoss ==
  \A n \in Notices : sent[n] <= 1 + lost[n]

(* What the back office shows of a notice is founded: SENT names a message *)
(* that was taken; DELIVERED, that the very message the row names reached  *)
(* its reader, though reports may be late, repeated, out of order or ahead *)
(* of the row; FAILED, that the provider had that message and reported on  *)
(* it, or refused the notice (a push is also marked after an error).       *)
StatusIsFounded ==
  \A n \in Notices :
    /\ row[n] = "SENT" => msg[n] \in 1 .. sent[n]
    /\ row[n] = "DELIVERED" => msg[n] \in arrived[n]
    /\ row[n] = "FAILED" => msg[n] \in 1 .. sent[n] \/ n \in refused \/ IsPush(n)

(* A job that is queued comes to an end, whatever fails on the way and     *)
(* though its row may be gone: it ends, or uses up its attempts.           *)
EveryJobEnds ==
  \A n \in Notices : At(n, "waiting") ~> (At(n, "done") \/ At(n, "failed"))

(* Every message the provider took is accounted for: it is the one that    *)
(* the job is booking or has booked, or an attempt lost it on its way.     *)
(* This is the ledger behind SecondMessageNeedsALoss.                      *)
Books(n) == job[n].step \in {"recording", "ending", "done"}

SentIsAccountedFor ==
  \A n \in Notices : sent[n] = lost[n] + (IF Books(n) THEN 1 ELSE 0)

(* A job that is not over has an attempt left; the caller queues each job  *)
(* once, in turn; the worker gives up only what was refused (the queue's   *)
(* "attempts", enqueue, isPermanentError).                                 *)
JobsAreSound ==
  \A n \in Notices :
    /\ job[n].step \notin {"done", "failed"} => job[n].tries < MaxAttempts
    /\ n >= next.at => At(n, "none")
    /\ At(n, "refused") \/ At(n, "gone") => n \in refused

(* The invariants of a notice: nobody is told twice without a loss, and    *)
(* what the back office shows is founded; with what makes it so, the       *)
(* invariant is inductive (Notices_proofs).                                *)
NoticesInv ==
  /\ TypeOK
  /\ SentIsAccountedFor /\ JobsAreSound
  /\ SecondMessageNeedsALoss /\ StatusIsFounded

=============================================================================
