------------------------------ MODULE Reminders ------------------------------
(***************************************************************************)
(* The reminders of a signature that is waited for                         *)
(* (SignatureReminderService): at nine each day the envelopes that are out *)
(* are listed, and those three and six days old are reminded of, once for  *)
(* each proposal.  Envelopes are sent and replaced, contracts signed,      *)
(* proposals moved and erased at any hour; a day's run that is missed or   *)
(* cut short is not made up for.                                           *)
(***************************************************************************)
EXTENDS Integers, FiniteSets, Sequences

CONSTANTS
  Waiting,     (* proposals that may wait for a signature                  *)
  Envelopes,   (* envelopes that may be sent                               *)
  MaxDay,      (* bound on the days                                        *)
  MaxTurnings, (* bound on what staff, candidates and others do            *)
  MaxMissed    (* bound on the runs that are missed or cut short           *)

ASSUME ReminderBoundsAssumption ==
  MaxDay \in Nat /\ MaxTurnings \in Nat /\ MaxMissed \in Nat
ASSUME WaitingAssumption == Waiting # {}

VARIABLES
  day,         (* runs that have been due, one each morning                *)
  place,       (* Proposal.status, as far as the reminders tell them apart *)
  envelope,    (* the rows of the envelopes                                *)
  reminded,    (* rows of notices by proposal, template and channel        *)
  round,       (* the run of the day                                       *)
  missed,      (* history variable: days whose run did not get to its end  *)
  strayed,     (* history variable: proposals that have left the status    *)
               (* PENDING_SIGNATURE with an envelope still out             *)
  turnings     (* what others have done so far                             *)

reminderVars == <<day, place, envelope, reminded, round, missed, strayed, turnings>>

(* What notifySignatureReminder writes, in order. *)
Channel == <<"EMAIL", "SMS", "WHATSAPP">>

(* Ages in days that are reminded of; they name the templates.             *)
Steps == {3, 6}

NoEnvelope == [state |-> "none", of |-> CHOOSE p \in Waiting : TRUE, created |-> 0]

(* todo: envelopes listed and not dealt with yet.  telling: the one that   *)
(* is being reminded of.  at: its next channel.                            *)
Round == [step : {"idle", "list", "each"}, todo : SUBSET Envelopes,
          telling : SUBSET Envelopes, at : 1 .. Len(Channel)]

NoRound == [step |-> "idle", todo |-> {}, telling |-> {}, at |-> 1]

RemindersTypeOK ==
  /\ day \in 0 .. MaxDay
  /\ place \in [Waiting -> {"waiting", "other", "gone"}]
  /\ envelope \in [Envelopes -> [state : {"none", "SENT", "over"},
                                 of : Waiting, created : 0 .. MaxDay]]
  /\ reminded \in [Waiting -> [Steps -> [1 .. Len(Channel) -> Nat]]]
  /\ round \in Round
  /\ missed \subseteq 1 .. MaxDay
  /\ strayed \subseteq Waiting
  /\ turnings \in 0 .. MaxTurnings

NobodyTold == [p \in Waiting |-> [s \in Steps |-> [c \in 1 .. Len(Channel) |-> 0]]]

RemindersInit ==
  /\ day = 0
  /\ place = [p \in Waiting |-> "waiting"]
  /\ envelope = [e \in Envelopes |-> NoEnvelope]
  /\ reminded = NobodyTold
  /\ round = NoRound
  /\ missed = {} /\ strayed = {} /\ turnings = 0

-----------------------------------------------------------------------------
(* Shorthands *)

IsOut(e) == envelope[e].state = "SENT"
RowsOf(p) == { e \in Envelopes : envelope[e].state # "none" /\ envelope[e].of = p }
Turns == turnings < MaxTurnings /\ turnings' = turnings + 1
DayMissed == missed' = missed \cup {day} /\ Cardinality(missed) < MaxMissed

(* An envelope that is sent on one day, after nine, is zero days old at    *)
(* nine the next morning (Math.floor).                                     *)
AgeOn(e, d) == d - envelope[e].created - 1
Age(e) == AgeOn(e, day)

-----------------------------------------------------------------------------
(* Others *)

(* signature.create writes the row of an envelope it has sent, for a       *)
(* contract that was approved or is sent again.                            *)
IsSent(e, p) ==
  /\ envelope[e].state = "none" /\ place[p] # "gone" /\ Turns
  /\ envelope' = [envelope EXCEPT ![e] = [state |-> "SENT", of |-> p, created |-> day]]
  /\ UNCHANGED <<day, place, reminded, round, missed, strayed>>

(* The resend writes CANCELED over the newest envelope (resendSignatureLink). *)
IsReplaced(e) ==
  /\ IsOut(e) /\ Turns
  /\ \A f \in RowsOf(envelope[e].of) : envelope[f].created <= envelope[e].created
  /\ envelope' = [envelope EXCEPT ![e].state = "over"]
  /\ UNCHANGED <<day, place, reminded, round, missed, strayed>>

(* The webhook's SIGNED: the row, and the proposal's status. *)
IsSigned(e) ==
  /\ IsOut(e) /\ Turns
  /\ envelope' = [envelope EXCEPT ![e].state = "over"]
  /\ place' = [place EXCEPT ![envelope[e].of] = "other"]
  /\ strayed' = strayed \cup {envelope[e].of}
  /\ UNCHANGED <<day, reminded, round, missed>>

(* The staff takes a proposal out of PENDING_SIGNATURE, its envelope out   *)
(* all the same, or brings one into it.                                    *)
IsTaken(p, to) ==
  /\ <<place[p], to>> \in {<<"waiting", "other">>, <<"other", "waiting">>} /\ Turns
  /\ place' = [place EXCEPT ![p] = to]
  /\ strayed' = strayed \cup {p}
  /\ UNCHANGED <<day, envelope, reminded, round, missed>>

(* deleteProposal, with the rows of its envelopes and of its notices. *)
IsDeleted(p) ==
  /\ place[p] # "gone" /\ Turns
  /\ place' = [place EXCEPT ![p] = "gone"]
  /\ envelope' = [e \in Envelopes |->
       IF envelope[e].of = p /\ IsOut(e) THEN [envelope[e] EXCEPT !.state = "over"]
       ELSE envelope[e]]
  /\ reminded' = [reminded EXCEPT ![p] = NobodyTold[p]]
  /\ UNCHANGED <<day, round, missed, strayed>>

-----------------------------------------------------------------------------
(* runDaily *)

(* Nine in the morning: the run starts, or nobody is there to start it.    *)
DayBreaks ==
  /\ day < MaxDay /\ round = NoRound
  /\ day' = day + 1
  /\ \/ /\ round' = [round EXCEPT !.step = "list"]
        /\ UNCHANGED missed
     \/ /\ missed' = missed \cup {day + 1} /\ Cardinality(missed) < MaxMissed
        /\ UNCHANGED round
  /\ UNCHANGED <<place, envelope, reminded, strayed, turnings>>

(* The query, and the ages that are passed over. *)
ListsWaiting ==
  /\ round.step = "list"
  /\ round' = [round EXCEPT !.step = "each",
       !.todo = { e \in Envelopes :
                    IsOut(e) /\ place[envelope[e].of] = "waiting" /\ Age(e) \in Steps }]
  /\ UNCHANGED <<day, place, envelope, reminded, missed, strayed, turnings>>

TemplateOf(age) == IF age = 3 THEN 3 ELSE 6

(* Mutant: any reminder counts, whichever its template. *)
HasAnyNotice(p, s) == \E t \in Steps, c \in DOMAIN Channel : reminded[p][t][c] > 0

(* Whether the proposal has a notice of the template, in any channel. *)
HasNotice(p, s) == \E c \in DOMAIN Channel : reminded[p][s][c] > 0

LooksForNotice(e) ==
  /\ round.step = "each" /\ e \in round.todo /\ round.telling = {}
  /\ round' = [round EXCEPT
       !.todo = @ \ {e}, !.at = 1,
       !.telling = IF HasNotice(envelope[e].of, TemplateOf(Age(e))) THEN {} ELSE {e}]
  /\ UNCHANGED <<day, place, envelope, reminded, missed, strayed, turnings>>

(* enqueue, one channel after another, by the copy: whether the envelope   *)
(* is still out and the proposal still waiting is not asked again.         *)
Reminds ==
  \E e \in round.telling :
    /\ place[envelope[e].of] # "gone"
    /\ reminded' = [reminded EXCEPT ![envelope[e].of][TemplateOf(Age(e))][round.at] = @ + 1]
    /\ round' = IF round.at = Len(Channel) THEN [round EXCEPT !.telling = {}, !.at = 1]
                ELSE [round EXCEPT !.at = @ + 1]
    /\ UNCHANGED <<day, place, envelope, missed, strayed, turnings>>

RoundEnds ==
  /\ round.step = "each" /\ round.todo = {} /\ round.telling = {}
  /\ round' = NoRound
  /\ UNCHANGED <<day, place, envelope, reminded, missed, strayed, turnings>>

(* Something throws, or the process stops: the rest of the list is not     *)
(* looked at on another day.  A notice for a proposal that is gone always  *)
(* throws; a row may be there though its job could not be queued.          *)
RoundIsCutShort ==
  /\ round.step # "idle"
  /\ \/ DayMissed
     \/ \E e \in round.telling : place[envelope[e].of] = "gone" /\ missed' = missed \cup {day}
  /\ round' = NoRound
  /\ \/ UNCHANGED reminded
     \/ \E e \in round.telling :
          /\ place[envelope[e].of] # "gone"
          /\ reminded' = [reminded EXCEPT ![envelope[e].of][TemplateOf(Age(e))][round.at] = @ + 1]
  /\ UNCHANGED <<day, place, envelope, strayed, turnings>>

-----------------------------------------------------------------------------
RemindersNext ==
  \/ \E e \in Envelopes : IsReplaced(e) \/ IsSigned(e) \/ \E p \in Waiting : IsSent(e, p)
  \/ \E p \in Waiting : IsDeleted(p) \/ \E to \in {"waiting", "other"} : IsTaken(p, to)
  \/ DayBreaks \/ ListsWaiting \/ Reminds \/ RoundEnds \/ RoundIsCutShort
  \/ \E e \in Envelopes : LooksForNotice(e)

RemindersSpec == RemindersInit /\ [][RemindersNext]_reminderVars

-----------------------------------------------------------------------------
(* A candidate gets each reminder once in each channel, however many of    *)
(* his envelopes are out, and though a run that was cut short may have     *)
(* reminded him in some channels only (runDaily).                          *)
RemindedOnce ==
  \A p \in Waiting, s \in Steps, c \in DOMAIN Channel : reminded[p][s][c] <= 1

WasReminded(p, s) == \E c \in DOMAIN Channel : reminded[p][s][c] > 0

(* An envelope that has been out for three or six days at nine, of a       *)
(* proposal that waited all the time, has been reminded of by the next     *)
(* morning, unless the run of that very day was missed or cut short; where *)
(* an earlier envelope of the proposal had its reminder, that one counts   *)
(* (docs/NOTIFICATIONS_IMPROVEMENTS.md: three days and six after the link).*)
ReminderIsSent ==
  \A e \in Envelopes, s \in Steps :
    (/\ IsOut(e) /\ envelope[e].of \notin strayed
     /\ AgeOn(e, day) >= s /\ (AgeOn(e, day) = s => round = NoRound)
     /\ envelope[e].created + 1 + s \notin missed)
      => WasReminded(envelope[e].of, s)

(* The last reminder does not come before the first, but where a day was   *)
(* missed or the proposal did not wait all the time; envelopes that were   *)
(* replaced or are out together change nothing in that (runDaily).         *)
FinalIsNotFirst ==
  \A p \in Waiting :
    WasReminded(p, 6) => WasReminded(p, 3) \/ p \in strayed \/ missed # {}

(* An envelope is out only of a proposal that is there, and one that has   *)
(* not strayed waits.                                                      *)
PlacesAreSound ==
  /\ \A e \in Envelopes : IsOut(e) => place[envelope[e].of] # "gone"
  /\ \A p \in Waiting : place[p] = "other" => p \in strayed

(* The list of a run is of its day.  One at a time is reminded of, and the *)
(* channels that are still to come have no row of that reminder.           *)
RoundIsSound ==
  /\ round.step # "each" => round.todo = {} /\ round.telling = {} /\ round.at = 1
  /\ round.step # "idle" => day >= 1
  /\ \A e \in round.todo \cup round.telling : envelope[e].state # "none" /\ Age(e) \in Steps
  /\ \A e, f \in round.telling : e = f
  /\ \A e \in round.telling, c \in round.at .. Len(Channel) :
       reminded[envelope[e].of][TemplateOf(Age(e))][c] = 0

(* What a run has taken off its list has its reminder.                     *)
ListIsWorkedOff ==
  \A e \in Envelopes :
    (round.step = "each" /\ IsOut(e) /\ envelope[e].of \notin strayed /\ Age(e) \in Steps)
      => e \in round.todo \cup round.telling \/ WasReminded(envelope[e].of, Age(e))

(* Who is on the list for the last reminder has had the first.             *)
FinalsAreDue ==
  \A e \in round.todo \cup round.telling :
    LET p == envelope[e].of IN
    Age(e) = 6 => place[p] = "gone" \/ WasReminded(p, 3) \/ p \in strayed \/ missed # {}

(* The invariants of the reminders: each once, on its day, in its order;   *)
(* with what makes it so, the invariant is inductive (Schedules_proofs).   *)
RemindersInv ==
  /\ RemindersTypeOK /\ PlacesAreSound /\ RoundIsSound /\ ListIsWorkedOff /\ FinalsAreDue
  /\ RemindedOnce /\ ReminderIsSent /\ FinalIsNotFirst

=============================================================================
