--------------------------- MODULE Notices_proofs ---------------------------
(***************************************************************************)
(* Proofs about Notices, for any number of notices, channels, attempts and *)
(* faults.                                                                 *)
(*                                                                         *)
(* NoticesInv is inductive.  Two parts are there for the others' sake:     *)
(* SentIsAccountedFor, the ledger of messages from which                   *)
(* SecondMessageNeedsALoss follows, and JobsAreSound, which bounds the     *)
(* attempts and says that no job is queued twice.                          *)
(***************************************************************************)
EXTENDS Notices, TLAPS

USE NoticesAssumption, ChannelsAssumption, AttemptsAssumption, FaultsAssumption

LEMMA Bounds == MaxSent \in Nat \ {0} /\ MaxAttempts \in Nat \ {0} /\ MaxFaults \in Nat
  BY DEF MaxSent

-----------------------------------------------------------------------------
(* The ledger of messages *)

(* A step that takes no message, loses none and does not end the booking   *)
(* of one leaves the ledger as it is.                                      *)
LEMMA LedgerOfMove ==
  ASSUME TypeOK, SentIsAccountedFor, NEW n \in Notices, NEW step \in JobStep,
         UNCHANGED <<sent, lost>>,
         \/ JobGoes(n, step) \/ (Retries(n) /\ step = "waiting"),
         Books(n) <=> step \in {"recording", "ending", "done"}
  PROVE  SentIsAccountedFor'
<1> USE DEF TypeOK
<1>1. \A m \in Notices : m # n => job'[m] = job[m]
  BY DEF JobGoes, Retries
<1>2. job'[n].step = step \/ (step = "waiting" /\ job'[n].step = "failed")
  BY DEF JobGoes, Retries
<1> QED
  BY <1>1, <1>2 DEF SentIsAccountedFor, Books

LEMMA LedgerKept ==
  ASSUME TypeOK, SentIsAccountedFor, JobsAreSound, [Next]_vars
  PROVE  SentIsAccountedFor'
<1> USE DEF TypeOK, JobStep
<1>1. ASSUME UNCHANGED <<job, sent, lost>> PROVE SentIsAccountedFor'
  BY <1>1 DEF SentIsAccountedFor, Books
<1>2. ASSUME NEW n \in Notices, CreatesRow(n) \/ NobodyListens(n) \/ Webhook(n) \/ Expires(n)
      PROVE  SentIsAccountedFor'
  BY <1>1, <1>2 DEF CreatesRow, NobodyListens, Webhook, Reports, Expires, outside
<1>3. ASSUME CallerStops \/ Listens \/ Erases \/ UNCHANGED vars PROVE SentIsAccountedFor'
  BY <1>1, <1>3 DEF CallerStops, Listens, Erases, outside, vars
<1>4. ASSUME NEW n \in Notices, QueuesJob(n) PROVE SentIsAccountedFor'
  <2>1. At(n, "none")
    BY <1>4 DEF QueuesJob, JobsAreSound, Notices
  <2> QED
    BY <1>4, <2>1, LedgerOfMove DEF QueuesJob, Books, At, outside
<1>5. ASSUME NEW n \in Notices, Accepts(n) PROVE SentIsAccountedFor'
  BY <1>5 DEF Accepts, SentIsAccountedFor, Books, At, Takes, JobGoes
<1>6. ASSUME NEW n \in Notices, AnswerIsLost(n) PROVE SentIsAccountedFor'
  BY <1>6 DEF AnswerIsLost, SentIsAccountedFor, Books, At, Takes, Loses, JobGoes
<1>7. ASSUME NEW n \in Notices, Refuses(n) PROVE SentIsAccountedFor'
  <2>1. CASE IsPush(n)
    BY <1>7, <2>1, LedgerOfMove DEF Refuses, Books, At, outside
  <2>2. CASE ~IsPush(n)
    BY <1>7, <2>2, LedgerOfMove DEF Refuses, Books, At, outside
  <2> QED
    BY <2>1, <2>2
<1>8. ASSUME NEW n \in Notices, Errs(n) PROVE SentIsAccountedFor'
  BY <1>8, LedgerOfMove DEF Errs, Books, At, outside
<1>9. ASSUME NEW n \in Notices, NEW k \in 1 .. MaxSent, Arrives(n, k) PROVE SentIsAccountedFor'
  BY <1>1, <1>9 DEF Arrives
<1>10. ASSUME NEW n \in Notices, Starts(n) PROVE SentIsAccountedFor'
  BY <1>10, LedgerOfMove DEF Starts, Books, At, outside
<1>11. ASSUME NEW n \in Notices, Ends(n) PROVE SentIsAccountedFor'
  BY <1>11, LedgerOfMove DEF Ends, Books, At, outside
<1>12. ASSUME NEW n \in Notices, Books(n), ~Books(n)', Loses(n), UNCHANGED sent,
              \A m \in Notices : m # n => job'[m] = job[m]
       PROVE  SentIsAccountedFor'
  BY <1>12 DEF SentIsAccountedFor, Books, Loses
<1>13. ASSUME NEW n \in Notices, Records(n) PROVE SentIsAccountedFor'
  <2>1. CASE Exists(n)
    BY <1>13, <2>1, LedgerOfMove DEF Records, Books, At, outside
  <2>2. CASE ~Exists(n)
    BY <1>12, <1>13, <2>2 DEF Records, Books, At, JobGoes, outside
  <2> QED
    BY <2>1, <2>2
<1>14. ASSUME NEW n \in Notices, RecordFails(n) PROVE SentIsAccountedFor'
  BY <1>12, <1>14 DEF RecordFails, Books, At, JobGoes, outside
<1>15. ASSUME NEW n \in Notices, Fails(n) \/ CatchFails(n) PROVE SentIsAccountedFor'
  BY <1>15, LedgerOfMove DEF Fails, CatchFails, Books, At, outside
<1>16. ASSUME NEW n \in Notices, GivesUp(n) PROVE SentIsAccountedFor'
  <2>1. CASE Exists(n)
    BY <1>16, <2>1, LedgerOfMove DEF GivesUp, Books, At, outside
  <2>2. CASE ~Exists(n)
    BY <1>16, <2>2, LedgerOfMove DEF GivesUp, Books, At, outside
  <2> QED
    BY <2>1, <2>2
<1>17. ASSUME NEW n \in Notices, WorkerStops(n) PROVE SentIsAccountedFor'
  <2>1. PICK step \in {"waiting", "failed"} : JobGoes(n, step)
    BY <1>17 DEF WorkerStops
  <2>2. CASE At(n, "recording") \/ At(n, "ending")
    <3>1. Loses(n) /\ UNCHANGED sent
      BY <1>17, <2>2 DEF WorkerStops, outside
    <3>2. Books(n) /\ ~Books(n)' /\ \A m \in Notices : m # n => job'[m] = job[m]
      BY <2>1, <2>2 DEF Books, At, JobGoes
    <3> QED
      BY <1>12, <3>1, <3>2
  <2>3. CASE ~(At(n, "recording") \/ At(n, "ending"))
    BY <1>17, <2>1, <2>3, LedgerOfMove DEF WorkerStops, Books, At, outside
  <2> QED
    BY <2>2, <2>3
<1> QED
  BY <1>2, <1>3, <1>4, <1>5, <1>6, <1>7, <1>8, <1>9, <1>10, <1>11, <1>13, <1>14, <1>15,
     <1>16, <1>17 DEF Next, Call, Provider, Work

-----------------------------------------------------------------------------
(* The types *)

(* A job that goes to another step, or is tried again, is still a job.     *)
LEMMA JobKeepsType ==
  ASSUME TypeOK, NEW n \in Notices, NEW step \in JobStep,
         JobGoes(n, step) \/ (Retries(n) /\ job[n].tries < MaxAttempts)
  PROVE  job' \in [Notices -> [step : JobStep, tries : 0 .. MaxAttempts]]
<1>1. CASE JobGoes(n, step)
  <2>1. [job[n] EXCEPT !.step = step] \in [step : JobStep, tries : 0 .. MaxAttempts]
    BY DEF TypeOK
  <2> QED
    BY <1>1, <2>1 DEF TypeOK, JobGoes
<1>2. CASE Retries(n) /\ job[n].tries < MaxAttempts
  <2>1. job[n].tries + 1 \in 0 .. MaxAttempts
    BY <1>2 DEF TypeOK
  <2> QED
    BY <1>2, <2>1 DEF TypeOK, Retries, JobStep
<1> QED
  BY <1>1, <1>2

(* The ledger keeps the messages lost from outgrowing those sent. *)
LEMMA LostKeepsType ==
  ASSUME TypeOK, SentIsAccountedFor, NEW n \in Notices, Loses(n),
         Takes(n) \/ (Books(n) /\ UNCHANGED sent)
  PROVE  sent' \in [Notices -> 0 .. MaxSent] /\ lost' \in [Notices -> 0 .. MaxSent]
<1>1. lost[n] < MaxSent
  BY Bounds DEF TypeOK, SentIsAccountedFor, Takes
<1> QED
  BY <1>1, Bounds DEF TypeOK, Takes, Loses

LEMMA TypeKept ==
  ASSUME TypeOK, SentIsAccountedFor, JobsAreSound, [Next]_vars
  PROVE  TypeOK'
<1> USE Bounds DEF Fault, rows, outside
<1> HIDE NoticesAssumption
<1>1. ASSUME NEW n \in Notices, CreatesRow(n) \/ NobodyListens(n) PROVE TypeOK'
  <2>1. n + 1 \in 1 .. MaxNotices + 1
    BY NoticesAssumption DEF Notices
  <2>2. next' \in [at : 1 .. MaxNotices + 1, step : {"row", "job", "stopped"}]
    BY <1>1, <2>1 DEF CreatesRow, NobodyListens, TypeOK
  <2> QED
    BY <1>1, <2>2 DEF CreatesRow, NobodyListens, TypeOK
<1>2. ASSUME NEW n \in Notices, QueuesJob(n) PROVE TypeOK'
  <2>1. n + 1 \in 1 .. MaxNotices + 1
    BY NoticesAssumption DEF Notices
  <2>2. job' \in [Notices -> [step : JobStep, tries : 0 .. MaxAttempts]]
    BY <1>2, JobKeepsType DEF QueuesJob, JobStep
  <2> QED
    BY <1>2, <2>1, <2>2 DEF QueuesJob, TypeOK
<1>3. ASSUME NEW n \in Notices, Accepts(n) PROVE TypeOK'
  <2>1. job' \in [Notices -> [step : JobStep, tries : 0 .. MaxAttempts]]
    BY <1>3, JobKeepsType DEF Accepts, JobStep
  <2>2. sent' \in [Notices -> 0 .. MaxSent]
    BY <1>3 DEF Accepts, Takes, TypeOK
  <2> QED
    BY <1>3, <2>1, <2>2 DEF Accepts, TypeOK
<1>4. ASSUME NEW n \in Notices, AnswerIsLost(n) PROVE TypeOK'
  <2>1. job' \in [Notices -> [step : JobStep, tries : 0 .. MaxAttempts]]
    BY <1>4, JobKeepsType DEF AnswerIsLost, JobStep
  <2>2. sent' \in [Notices -> 0 .. MaxSent] /\ lost' \in [Notices -> 0 .. MaxSent]
    BY <1>4, LostKeepsType DEF AnswerIsLost
  <2> QED
    BY <1>4, <2>1, <2>2 DEF AnswerIsLost, TypeOK
<1>5. ASSUME NEW n \in Notices, Refuses(n) \/ Errs(n) \/ Starts(n) \/ Ends(n) PROVE TypeOK'
  <2>1. job' \in [Notices -> [step : JobStep, tries : 0 .. MaxAttempts]]
    BY <1>5, JobKeepsType DEF Refuses, Errs, Starts, Ends, JobStep
  <2> QED
    BY <1>5, <2>1 DEF Refuses, Errs, Starts, Ends, TypeOK
<1>6. ASSUME NEW n \in Notices, NEW k \in 1 .. MaxSent, Arrives(n, k) PROVE TypeOK'
  BY <1>6 DEF Arrives, TypeOK
<1>7. ASSUME NEW n \in Notices, Records(n) \/ RecordFails(n) PROVE TypeOK'
  <2>1. job' \in [Notices -> [step : JobStep, tries : 0 .. MaxAttempts]]
    BY <1>7, JobKeepsType DEF Records, RecordFails, JobStep
  <2>2. lost' \in [Notices -> 0 .. MaxSent]
    <3>1. Books(n) /\ UNCHANGED sent
      BY <1>7 DEF Records, RecordFails, Books, At
    <3>2. Loses(n) \/ UNCHANGED lost
      BY <1>7 DEF Records, RecordFails
    <3> QED
      BY <3>1, <3>2, LostKeepsType DEF TypeOK
  <2>3. row' \in [Notices -> {"none", "PENDING", "SENT", "DELIVERED", "FAILED", "gone"}]
        /\ msg' \in [Notices -> 0 .. MaxSent]
    <3>1. CASE UNCHANGED <<row, msg>>
      BY <3>1 DEF TypeOK
    <3>2. CASE row' = [row EXCEPT ![n] = "SENT"] /\ msg' = [msg EXCEPT ![n] = sent[n]]
      BY <3>2 DEF TypeOK
    <3> QED
      BY <1>7, <3>1, <3>2 DEF Records, RecordFails
  <2> QED
    BY <1>7, <2>1, <2>2, <2>3 DEF Records, RecordFails, TypeOK
<1>8. ASSUME NEW n \in Notices, Fails(n) \/ GivesUp(n) \/ CatchFails(n) PROVE TypeOK'
  <2>1. job[n].tries < MaxAttempts
    BY <1>8 DEF Fails, GivesUp, CatchFails, At, JobsAreSound
  <2>2. job' \in [Notices -> [step : JobStep, tries : 0 .. MaxAttempts]]
    BY <1>8, <2>1, JobKeepsType DEF Fails, GivesUp, CatchFails, JobStep
  <2>3. row' \in [Notices -> {"none", "PENDING", "SENT", "DELIVERED", "FAILED", "gone"}]
    BY <1>8 DEF Fails, GivesUp, CatchFails, MarksFailed, TypeOK
  <2>4. device' \in BOOLEAN
    BY <1>8 DEF Fails, GivesUp, CatchFails, TypeOK
  <2> QED
    BY <1>8, <2>2, <2>3, <2>4 DEF Fails, GivesUp, CatchFails, TypeOK
<1>9. ASSUME NEW n \in Notices, WorkerStops(n) PROVE TypeOK'
  <2>1. job' \in [Notices -> [step : JobStep, tries : 0 .. MaxAttempts]]
    BY <1>9, JobKeepsType DEF WorkerStops, JobStep
  <2>2. lost' \in [Notices -> 0 .. MaxSent]
    <3>1. UNCHANGED sent /\ (UNCHANGED lost \/ (Loses(n) /\ Books(n)))
      BY <1>9 DEF WorkerStops, Books, At
    <3> QED
      BY <3>1, LostKeepsType DEF TypeOK
  <2> QED
    BY <1>9, <2>1, <2>2 DEF WorkerStops, TypeOK
<1>10. ASSUME NEW n \in Notices, Webhook(n) PROVE TypeOK'
  BY <1>10 DEF Webhook, Reports, Report, TypeOK
<1>11. ASSUME NEW n \in Notices, Expires(n) PROVE TypeOK'
  BY <1>11 DEF Expires, TypeOK
<1>12. ASSUME CallerStops \/ Listens PROVE TypeOK'
  BY <1>12 DEF CallerStops, Listens, TypeOK
<1>13. ASSUME Erases \/ UNCHANGED vars PROVE TypeOK'
  BY <1>13 DEF Erases, TypeOK, vars
<1> QED
  BY <1>1, <1>2, <1>3, <1>4, <1>5, <1>6, <1>7, <1>8, <1>9, <1>10, <1>11, <1>12,
     <1>13
     DEF Next, Call, Provider, Work

-----------------------------------------------------------------------------
(* The jobs *)

LEMMA JobsKept ==
  ASSUME TypeOK, JobsAreSound, [Next]_vars
  PROVE  JobsAreSound'
<1> USE DEF TypeOK
<1>a. \A m \in Notices : m \in Nat
  BY DEF Notices
<1>1. ASSUME UNCHANGED job, refused \subseteq refused', next'.at \in {next.at, next.at + 1}
      PROVE  JobsAreSound'
  BY <1>1, <1>a DEF JobsAreSound, At
<1>2. ASSUME NEW n \in Notices, CreatesRow(n) \/ NobodyListens(n) PROVE JobsAreSound'
  <2>1. next'.at \in {next.at, next.at + 1}
    BY <1>2 DEF CreatesRow, NobodyListens
  <2> QED
    BY <1>1, <1>2, <2>1 DEF CreatesRow, NobodyListens
<1>3. ASSUME CallerStops \/ Listens \/ Erases \/ UNCHANGED vars PROVE JobsAreSound'
  <2>1. next'.at = next.at
    BY <1>3 DEF CallerStops, Listens, Erases, vars
  <2> QED
    BY <1>1, <1>3, <2>1 DEF CallerStops, Listens, Erases, vars
<1>4. ASSUME NEW n \in Notices,
             Webhook(n) \/ Expires(n) \/ \E k \in 1 .. MaxSent : Arrives(n, k)
      PROVE  JobsAreSound'
  <2>1. UNCHANGED <<job, refused, next>>
    BY <1>4 DEF Webhook, Reports, Expires, Arrives
  <2> QED
    BY <1>1, <2>1
<1>5. ASSUME NEW n \in Notices, QueuesJob(n) PROVE JobsAreSound'
  <2>1. next.at = n /\ next'.at = n + 1 /\ UNCHANGED refused
    BY <1>5 DEF QueuesJob
  <2>2. At(n, "none") /\ job[n].tries < MaxAttempts
    BY <2>1, <1>a DEF JobsAreSound, At
  <2>3. job'[n].step = "waiting" /\ job'[n].tries = job[n].tries
        /\ \A m \in Notices : m # n => job'[m] = job[m]
    BY <1>5 DEF QueuesJob, JobGoes
  <2> QED
    BY <1>a, <2>1, <2>2, <2>3 DEF JobsAreSound, At
<1>6. ASSUME NEW n \in Notices, ~At(n, "none"), job[n].tries < MaxAttempts,
             UNCHANGED next, refused \subseteq refused',
             \A m \in Notices : m # n => job'[m] = job[m],
             job'[n].step \notin {"done", "failed"} => job'[n].tries < MaxAttempts,
             job'[n].step \in {"refused", "gone"} => n \in refused'
      PROVE  JobsAreSound'
  BY <1>6, <1>a DEF JobsAreSound, At
<1>7. ASSUME NEW n \in Notices, Provider(n) PROVE JobsAreSound'
  <2>1. CASE Accepts(n) \/ AnswerIsLost(n) \/ Refuses(n) \/ Errs(n)
    <3>1. At(n, "calling") /\ UNCHANGED next /\ refused \subseteq refused'
      BY <2>1 DEF Accepts, AnswerIsLost, Refuses, Errs
    <3>2. job[n].tries < MaxAttempts
      BY <3>1 DEF JobsAreSound, At
    <3>3. /\ \A m \in Notices : m # n => job'[m] = job[m]
          /\ job'[n].tries = job[n].tries
          /\ job'[n].step \in {"refused", "gone"} => n \in refused'
      BY <2>1 DEF Accepts, AnswerIsLost, Refuses, Errs, JobGoes
    <3> QED
      BY <1>6, <3>1, <3>2, <3>3 DEF At
  <2>2. CASE \E k \in 1 .. MaxSent : Arrives(n, k)
    BY <1>4, <2>2
  <2> QED
    BY <1>7, <2>1, <2>2 DEF Provider
<1>8. ASSUME NEW n \in Notices, Starts(n) \/ Records(n) \/ RecordFails(n) \/ Ends(n)
      PROVE  JobsAreSound'
  <2>1. job[n].step \in {"waiting", "recording", "ending"} /\ UNCHANGED <<next, refused>>
    BY <1>8 DEF Starts, Records, RecordFails, Ends, At
  <2>2. job[n].tries < MaxAttempts
    BY <2>1 DEF JobsAreSound
  <2>3. /\ \A m \in Notices : m # n => job'[m] = job[m]
        /\ job'[n].tries = job[n].tries
        /\ job'[n].step \notin {"refused", "gone"}
    BY <1>8 DEF Starts, Records, RecordFails, Ends, JobGoes
  <2> QED
    BY <1>6, <2>1, <2>2, <2>3 DEF At
<1>9. ASSUME NEW n \in Notices, Retries(n), job[n].step \in {"erred", "refused", "gone"},
             UNCHANGED <<next, refused>>
      PROVE  JobsAreSound'
  <2>1. job[n].tries < MaxAttempts
    BY <1>9 DEF JobsAreSound
  <2>2. /\ \A m \in Notices : m # n => job'[m] = job[m]
        /\ job'[n].tries = job[n].tries + 1
        /\ job'[n].step \in {"waiting", "failed"}
        /\ job'[n].step # "failed" => job[n].tries + 1 < MaxAttempts
    BY <1>9 DEF Retries
  <2> QED
    BY <1>6, <1>9, <2>1, <2>2 DEF At
<1>10. ASSUME NEW n \in Notices, Fails(n) \/ CatchFails(n) PROVE JobsAreSound'
  BY <1>9, <1>10 DEF Fails, CatchFails, At
<1>11. ASSUME NEW n \in Notices, JobGoes(n, "failed") \/ JobGoes(n, "waiting"),
              job[n].step \notin {"none", "done", "failed"}, UNCHANGED <<next, refused>>
       PROVE  JobsAreSound'
  <2>1. job[n].tries < MaxAttempts
    BY <1>11 DEF JobsAreSound
  <2>2. /\ \A m \in Notices : m # n => job'[m] = job[m]
        /\ job'[n].tries = job[n].tries
        /\ job'[n].step \in {"waiting", "failed"}
    BY <1>11 DEF JobGoes
  <2> QED
    BY <1>6, <1>11, <2>1, <2>2 DEF At
<1>12. ASSUME NEW n \in Notices, GivesUp(n) PROVE JobsAreSound'
  BY <1>9, <1>11, <1>12 DEF GivesUp, At
<1>13. ASSUME NEW n \in Notices, WorkerStops(n) PROVE JobsAreSound'
  BY <1>11, <1>13 DEF WorkerStops
<1> QED
  BY <1>2, <1>3, <1>4, <1>5, <1>7, <1>8, <1>10, <1>12, <1>13 DEF Next, Call, Work

-----------------------------------------------------------------------------
(* What the back office shows *)

(* A row that keeps its status and its message stays founded, for what a   *)
(* status rests on only grows.                                             *)
LEMMA StatusStays ==
  ASSUME TypeOK, StatusIsFounded, UNCHANGED about,
         \A n \in Notices : sent[n] <= sent'[n] /\ sent'[n] \in Nat /\ arrived[n] \subseteq arrived'[n],
         refused \subseteq refused', NEW n \in Notices,
         \/ row'[n] = row[n] /\ msg'[n] = msg[n]
         \/ row'[n] \in {"none", "PENDING", "gone"}
  PROVE  /\ row'[n] = "SENT" => msg'[n] \in 1 .. sent'[n]
         /\ row'[n] = "DELIVERED" => msg'[n] \in arrived'[n]
         /\ row'[n] = "FAILED" => msg'[n] \in 1 .. sent'[n] \/ n \in refused' \/ IsPush(n)'
  BY DEF TypeOK, StatusIsFounded, IsPush

LEMMA StatusKept ==
  ASSUME TypeOK, SentIsAccountedFor, JobsAreSound, StatusIsFounded, [Next]_vars
  PROVE  StatusIsFounded'
<1> DEFINE Founded(n) ==
      /\ row'[n] = "SENT" => msg'[n] \in 1 .. sent'[n]
      /\ row'[n] = "DELIVERED" => msg'[n] \in arrived'[n]
      /\ row'[n] = "FAILED" => msg'[n] \in 1 .. sent'[n] \/ n \in refused' \/ IsPush(n)'
<1> SUFFICES \A n \in Notices : Founded(n)
  BY DEF StatusIsFounded
<1>1. ASSUME UNCHANGED <<row, msg, about>>, refused \subseteq refused',
             \A n \in Notices : sent[n] <= sent'[n] /\ sent'[n] \in Nat
                                /\ arrived[n] \subseteq arrived'[n]
      PROVE  \A n \in Notices : Founded(n)
  BY <1>1, StatusStays
<1>2. \A n \in Notices : sent[n] \in Nat /\ sent[n] <= sent[n]
  BY Bounds DEF TypeOK
<1>3. ASSUME NEW n \in Notices,
             \/ NobodyListens(n) \/ QueuesJob(n) \/ Refuses(n) \/ Errs(n) \/ Starts(n)
             \/ RecordFails(n) \/ Ends(n) \/ CatchFails(n) \/ WorkerStops(n)
      PROVE  \A m \in Notices : Founded(m)
  <2>1. UNCHANGED <<row, msg, about, sent, arrived>> /\ refused \subseteq refused'
    BY <1>3 DEF NobodyListens, QueuesJob, Refuses, Errs, Starts, RecordFails, Ends, CatchFails,
       WorkerStops, rows, outside
  <2> QED
    BY <1>1, <1>2, <2>1
<1>4. ASSUME NEW n \in Notices, Accepts(n) \/ AnswerIsLost(n) PROVE \A m \in Notices : Founded(m)
  <2>1. UNCHANGED <<row, msg, about, arrived, refused>>
    BY <1>4 DEF Accepts, AnswerIsLost, rows
  <2>2. \A m \in Notices : sent[m] <= sent'[m] /\ sent'[m] \in Nat
    BY <1>2, <1>4 DEF Accepts, AnswerIsLost, Takes, TypeOK
  <2> QED
    BY <1>1, <2>1, <2>2
<1>5. ASSUME NEW n \in Notices, NEW k \in 1 .. MaxSent, Arrives(n, k)
      PROVE  \A m \in Notices : Founded(m)
  <2>1. UNCHANGED <<row, msg, about, sent, refused>>
    BY <1>5 DEF Arrives, rows
  <2>2. \A m \in Notices : arrived[m] \subseteq arrived'[m]
    BY <1>5 DEF Arrives, TypeOK
  <2> QED
    BY <1>1, <1>2, <2>1, <2>2
<1>6. ASSUME CallerStops \/ Listens \/ UNCHANGED vars PROVE \A m \in Notices : Founded(m)
  <2>1. UNCHANGED <<row, msg, about, sent, arrived, refused>>
    BY <1>6 DEF CallerStops, Listens, vars, rows, outside
  <2> QED
    BY <1>1, <1>2, <2>1
<1>7. ASSUME UNCHANGED <<about, sent, arrived, refused>>, NEW n \in Notices,
             \A m \in Notices : m # n => row'[m] = row[m] /\ msg'[m] = msg[m],
             Founded(n)
      PROVE  \A m \in Notices : Founded(m)
  <2> HIDE DEF Founded
  <2>1. ASSUME NEW m \in Notices, m # n PROVE Founded(m)
    BY <1>2, <1>7, <2>1, StatusStays DEF Founded
  <2> QED
    BY <1>7, <2>1
<1>8. ASSUME NEW n \in Notices, CreatesRow(n) \/ Expires(n) PROVE \A m \in Notices : Founded(m)
  <2>1. /\ UNCHANGED <<about, sent, arrived, refused, msg>>
        /\ \A m \in Notices : m # n => row'[m] = row[m]
        /\ row'[n] \in {row[n], "PENDING", "gone"}
    BY <1>8 DEF CreatesRow, Expires, TypeOK, outside
  <2>2. Founded(n)
    BY <1>2, <2>1, StatusStays
  <2> QED
    BY <1>7, <2>1, <2>2
<1>9. ASSUME Erases PROVE \A m \in Notices : Founded(m)
  <2>1. /\ UNCHANGED <<about, sent, arrived, refused, msg>>
        /\ \A m \in Notices : row'[m] \in {row[m], "gone"}
    BY <1>9 DEF Erases, TypeOK, outside
  <2> QED
    BY <1>2, <2>1, StatusStays
<1>10. ASSUME NEW n \in Notices, Records(n) PROVE \A m \in Notices : Founded(m)
  <2>1. UNCHANGED <<about, sent, arrived, refused>>
    BY <1>10 DEF Records, outside
  <2>2. CASE ~Exists(n)
    BY <1>1, <1>2, <1>10, <2>1, <2>2 DEF Records, rows
  <2>3. CASE Exists(n)
    <3>1. sent[n] = lost[n] + 1 /\ lost[n] \in Nat
      BY <1>10, Bounds DEF Records, At, SentIsAccountedFor, Books, TypeOK
    <3>2. row'[n] = "SENT" /\ msg'[n] = sent'[n]
          /\ \A m \in Notices : m # n => row'[m] = row[m] /\ msg'[m] = msg[m]
      BY <1>10, <2>1, <2>3 DEF Records, TypeOK
    <3>3. msg'[n] \in 1 .. sent'[n]
      BY <2>1, <3>1, <3>2
    <3> QED
      BY <1>7, <2>1, <3>2, <3>3
  <2> QED
    BY <2>2, <2>3
<1>11. ASSUME NEW n \in Notices, Fails(n) \/ GivesUp(n) PROVE \A m \in Notices : Founded(m)
  <2>1. UNCHANGED <<about, sent, arrived, refused, msg>>
    BY <1>11 DEF Fails, GivesUp, outside
  <2>2. /\ row'[n] \in {row[n], "FAILED"}
        /\ \A m \in Notices : m # n => row'[m] = row[m]
        /\ row'[n] # row[n] => IsPush(n)' \/ n \in refused'
    BY <1>11, <2>1 DEF Fails, GivesUp, MarksFailed, TypeOK, JobsAreSound, IsPush
  <2>3. Founded(n)
    BY <1>2, <2>1, <2>2, StatusStays
  <2> QED
    BY <1>7, <2>1, <2>2, <2>3
<1>12. ASSUME NEW n \in Notices, NEW k \in 1 .. MaxSent, NEW says \in Report, Reports(n, k, says)
       PROVE  \A m \in Notices : Founded(m)
  <2>1. UNCHANGED <<about, sent, arrived, refused, msg>>
    BY <1>12 DEF Reports, outside
  <2>2. /\ row'[n] = says /\ \A m \in Notices : m # n => row'[m] = row[m]
        /\ k <= sent[n] /\ (says = "DELIVERED" => k \in arrived[n]) /\ msg[n] = k
    BY <1>12 DEF Reports, Says, TypeOK
  <2>3. msg'[n] \in 1 .. sent'[n]
    BY <1>2, <2>1, <2>2, Bounds
  <2>4. Founded(n)
    BY <2>1, <2>2, <2>3 DEF Report
  <2> QED
    BY <1>7, <2>1, <2>2, <2>4
<1> HIDE DEF Founded
<1> QED
  BY <1>3, <1>4, <1>5, <1>6, <1>8, <1>9, <1>10, <1>11, <1>12
     DEF Next, Call, Provider, Work, Webhook

-----------------------------------------------------------------------------
(* Nobody is told twice without a loss, and what the back office shows of  *)
(* a notice is founded (processNotification, the two webhook services).    *)
THEOREM NoticesAreSafe == Spec => []NoticesInv
<1>1. Init => NoticesInv
  <2> SUFFICES ASSUME Init PROVE NoticesInv
    OBVIOUS
  <2>1. TypeOK
    <3>1. 1 \in 1 .. MaxNotices + 1 /\ 0 \in 0 .. MaxSent /\ 0 \in 0 .. MaxAttempts
          /\ 0 \in 0 .. MaxFaults
      BY Bounds
    <3>2. about \in [Notices -> [channel : Channels, optIn : BOOLEAN]]
      BY DEF Init
    <3> QED
      BY <3>1, <3>2 DEF Init, TypeOK, JobStep
  <2>2. SentIsAccountedFor /\ JobsAreSound
    BY Bounds DEF Init, SentIsAccountedFor, JobsAreSound, Books, At
  <2>3. SecondMessageNeedsALoss /\ StatusIsFounded
    BY DEF Init, SecondMessageNeedsALoss, StatusIsFounded
  <2> QED
    BY <2>1, <2>2, <2>3 DEF NoticesInv
<1>2. NoticesInv /\ [Next]_vars => NoticesInv'
  <2> SUFFICES ASSUME NoticesInv, [Next]_vars PROVE NoticesInv'
    OBVIOUS
  <2>1. TypeOK' /\ SentIsAccountedFor' /\ JobsAreSound' /\ StatusIsFounded'
    BY TypeKept, LedgerKept, JobsKept, StatusKept DEF NoticesInv
  <2>2. SecondMessageNeedsALoss'
    BY <2>1, Bounds DEF TypeOK, SentIsAccountedFor, SecondMessageNeedsALoss
  <2> QED
    BY <2>1, <2>2 DEF NoticesInv
<1> QED
  BY <1>1, <1>2, PTL DEF Spec

=============================================================================
