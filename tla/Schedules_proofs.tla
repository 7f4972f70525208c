-------------------------- MODULE Schedules_proofs --------------------------
(***************************************************************************)
(* Proofs about the scheduled programs, Triage and Reminders, for any      *)
(* number of proposals, analysts, runs at a time, envelopes and days.      *)
(*                                                                         *)
(* Both invariants are inductive.  That of the reminders follows the list  *)
(* of a run: what left it has its reminder (ListIsWorkedOff), and what is  *)
(* on it for the last has had the first (FinalsAreDue).  That of the       *)
(* triage rests on what a step of one run leaves of another (Steady): what *)
(* a run may go by is what no other can take back, as a breach on record   *)
(* (BreachLasts), or holds until it is disturbed, as its count of the      *)
(* loads (CountIsSound).                                                   *)
(***************************************************************************)
EXTENDS Triage, Reminders, FiniteSetTheorems, WellFoundedInduction, TLAPS

-----------------------------------------------------------------------------
(* Reminders: the shape of things *)

USE ReminderBoundsAssumption, WaitingAssumption

LEMMA ThreeChannels == Len(Channel) = 3 /\ DOMAIN Channel = 1 .. 3
  BY DEF Channel

LEMMA EnvelopeType ==
  ASSUME RemindersTypeOK, NEW e \in Envelopes
  PROVE  /\ envelope[e].state \in {"none", "SENT", "over"}
         /\ envelope[e].of \in Waiting
         /\ envelope[e].created \in 0 .. MaxDay
  BY DEF RemindersTypeOK

LEMMA NoEnvelopeType ==
  NoEnvelope \in [state : {"none", "SENT", "over"}, of : Waiting, created : 0 .. MaxDay]
  BY DEF NoEnvelope

(* The template of an age that is reminded of has its number. *)
LEMMA TemplateOfStep ==
  ASSUME NEW age \in Steps
  PROVE  TemplateOf(age) = age
  BY DEF Steps, TemplateOf

LEMMA RemindedType ==
  ASSUME RemindersTypeOK, NEW p \in Waiting, NEW s \in Steps, NEW c \in 1 .. 3
  PROVE  reminded[p][s][c] \in Nat
  BY ThreeChannels DEF RemindersTypeOK

(* What a notice adds, and what it leaves. *)
Adds(e) ==
  reminded' = [reminded EXCEPT ![envelope[e].of][TemplateOf(Age(e))][round.at] = @ + 1]

LEMMA AddsOne ==
  ASSUME RemindersTypeOK, NEW e \in Envelopes, Age(e) \in Steps, Adds(e)
  PROVE  /\ reminded' \in [Waiting -> [Steps -> [1 .. Len(Channel) -> Nat]]]
         /\ \A p \in Waiting, s \in Steps, c \in 1 .. 3 :
              reminded'[p][s][c] =
                IF p = envelope[e].of /\ s = Age(e) /\ c = round.at
                  THEN reminded[p][s][c] + 1 ELSE reminded[p][s][c]
<1> DEFINE w == envelope[e].of
           a == Age(e)
           k == round.at
           Rows == [1 .. 3 -> Nat]
<1>1. w \in Waiting /\ a \in Steps /\ k \in 1 .. 3
  BY EnvelopeType, ThreeChannels DEF RemindersTypeOK, Round
<1>2. reminded \in [Waiting -> [Steps -> Rows]]
  BY ThreeChannels DEF RemindersTypeOK
<1>3. reminded' = [reminded EXCEPT ![w][a][k] = @ + 1]
  BY TemplateOfStep DEF Adds
<1>4. reminded[w][a][k] + 1 \in Nat
  BY <1>1, <1>2
<1>5. [reminded[w][a] EXCEPT ![k] = @ + 1] \in Rows
  BY <1>1, <1>2, <1>4
<1>6. [reminded[w] EXCEPT ![a][k] = @ + 1] \in [Steps -> Rows]
  BY <1>1, <1>2, <1>5
<1>7. reminded' \in [Waiting -> [Steps -> Rows]]
  BY <1>1, <1>2, <1>3, <1>6
<1>8. \A p \in Waiting, s \in Steps, c \in 1 .. 3 :
        reminded'[p][s][c] =
          IF p = w /\ s = a /\ c = k THEN reminded[p][s][c] + 1 ELSE reminded[p][s][c]
  <2>1. reminded' = [reminded EXCEPT ![w] = [reminded[w] EXCEPT ![a] =
                       [reminded[w][a] EXCEPT ![k] = reminded[w][a][k] + 1]]]
    BY <1>3
  <2> QED
    BY <1>1, <1>2, <2>1
<1> QED
  BY <1>7, <1>8, ThreeChannels

-----------------------------------------------------------------------------
(* Reminders: the types *)

LEMMA NobodyToldType ==
  NobodyTold \in [Waiting -> [Steps -> [1 .. Len(Channel) -> Nat]]]
  BY DEF NobodyTold

LEMMA NoRoundType == NoRound \in Round
  BY ThreeChannels DEF NoRound, Round

LEMMA RemindersTypeKept ==
  ASSUME RemindersTypeOK, RoundIsSound, [RemindersNext]_reminderVars
  PROVE  RemindersTypeOK'
<1> USE DEF RemindersTypeOK
<1>1. ASSUME NEW e \in Envelopes, IsReplaced(e) PROVE RemindersTypeOK'
  <2>1. [envelope[e] EXCEPT !.state = "over"] \in
          [state : {"none", "SENT", "over"}, of : Waiting, created : 0 .. MaxDay]
    OBVIOUS
  <2> QED
    BY <1>1, <2>1 DEF IsReplaced, Turns
<1>2. ASSUME NEW e \in Envelopes, IsSigned(e) PROVE RemindersTypeOK'
  <2>1. [envelope[e] EXCEPT !.state = "over"] \in
          [state : {"none", "SENT", "over"}, of : Waiting, created : 0 .. MaxDay]
    OBVIOUS
  <2> QED
    BY <1>2, <2>1, EnvelopeType DEF IsSigned, Turns
<1>3. ASSUME NEW e \in Envelopes, NEW p \in Waiting, IsSent(e, p) PROVE RemindersTypeOK'
  <2>1. [state |-> "SENT", of |-> p, created |-> day] \in
          [state : {"none", "SENT", "over"}, of : Waiting, created : 0 .. MaxDay]
    OBVIOUS
  <2> QED
    BY <1>3, <2>1 DEF IsSent, Turns
<1>4. ASSUME NEW p \in Waiting, IsDeleted(p) PROVE RemindersTypeOK'
  <2>1. \A e \in Envelopes : [envelope[e] EXCEPT !.state = "over"] \in
          [state : {"none", "SENT", "over"}, of : Waiting, created : 0 .. MaxDay]
    OBVIOUS
  <2>2. envelope' \in [Envelopes -> [state : {"none", "SENT", "over"}, of : Waiting,
                                     created : 0 .. MaxDay]]
    BY <1>4, <2>1 DEF IsDeleted
  <2>3. reminded' \in [Waiting -> [Steps -> [1 .. Len(Channel) -> Nat]]]
    BY <1>4, NobodyToldType DEF IsDeleted
  <2> QED
    BY <1>4, <2>2, <2>3 DEF IsDeleted, Turns
<1>5. ASSUME NEW p \in Waiting, NEW to \in {"waiting", "other"}, IsTaken(p, to)
      PROVE  RemindersTypeOK'
  BY <1>5 DEF IsTaken, Turns
<1>6. CASE DayBreaks
  <2>1. [round EXCEPT !.step = "list"] \in Round
    BY DEF Round
  <2>2. day' \in 0 .. MaxDay /\ day + 1 \in 1 .. MaxDay
    BY <1>6 DEF DayBreaks
  <2>3. round' \in Round
    BY <1>6, <2>1 DEF DayBreaks
  <2>4. missed' \subseteq 1 .. MaxDay
    BY <1>6, <2>2 DEF DayBreaks
  <2> QED
    BY <1>6, <2>2, <2>3, <2>4 DEF DayBreaks
<1>7. CASE ListsWaiting
  <2>1. \A es \in SUBSET Envelopes : [round EXCEPT !.step = "each", !.todo = es] \in Round
    BY DEF Round
  <2> QED
    BY <1>7, <2>1 DEF ListsWaiting
<1>8. CASE Reminds
  <2>1. PICK e \in round.telling : Adds(e)
             /\ UNCHANGED <<day, place, envelope, missed, strayed, turnings>>
    BY <1>8 DEF Reminds, Adds
  <2>2. e \in Envelopes /\ Age(e) \in Steps
    BY <2>1 DEF Round, RoundIsSound
  <2>3. round' \in Round
    <3>1. \A k \in 1 .. Len(Channel) : [round EXCEPT !.telling = {}, !.at = k] \in Round
      BY DEF Round
    <3>2. \A k \in 1 .. Len(Channel) : [round EXCEPT !.at = k] \in Round
      BY DEF Round
    <3>3. /\ 1 \in 1 .. Len(Channel)
          /\ round.at # Len(Channel) => round.at + 1 \in 1 .. Len(Channel)
      BY ThreeChannels DEF Round
    <3>4. CASE round.at = Len(Channel)
      <4>1. round' = [round EXCEPT !.telling = {}, !.at = 1]
        BY <1>8, <3>4 DEF Reminds
      <4> HIDE DEF RemindersTypeOK
      <4> QED
        BY <3>1, <3>3, <4>1
    <3>5. CASE round.at # Len(Channel)
      <4>1. round' = [round EXCEPT !.at = round.at + 1]
        BY <1>8, <3>5 DEF Reminds
      <4> QED
        BY <3>2, <3>3, <3>5, <4>1
    <3> QED
      BY <3>4, <3>5
  <2> QED
    BY <2>1, <2>2, <2>3, AddsOne
<1>9. CASE RoundEnds
  BY <1>9, NoRoundType DEF RoundEnds
<1>10. CASE RoundIsCutShort
  <2>1. reminded' \in [Waiting -> [Steps -> [1 .. Len(Channel) -> Nat]]]
    <3>1. CASE UNCHANGED reminded
      BY <3>1
    <3>2. ASSUME NEW e \in round.telling, Adds(e)
          PROVE  reminded' \in [Waiting -> [Steps -> [1 .. Len(Channel) -> Nat]]]
      <4>1. e \in Envelopes /\ Age(e) \in Steps
        BY <3>2 DEF Round, RoundIsSound
      <4> QED
        BY <3>2, <4>1, AddsOne
    <3> QED
      BY <1>10, <3>1, <3>2 DEF RoundIsCutShort, Adds
  <2>2. day \in 1 .. MaxDay
    BY <1>10 DEF RoundIsCutShort, RoundIsSound
  <2>3. missed' \subseteq 1 .. MaxDay
    BY <1>10, <2>2 DEF RoundIsCutShort, DayMissed
  <2> QED
    BY <1>10, <2>1, <2>3, NoRoundType DEF RoundIsCutShort
<1>11. ASSUME NEW e \in Envelopes, LooksForNotice(e) PROVE RemindersTypeOK'
  <2>1. \A ts \in SUBSET Envelopes, k \in 1 .. Len(Channel) :
          [round EXCEPT !.todo = @ \ {e}, !.at = k, !.telling = ts] \in Round
    BY DEF Round
  <2>2. 1 \in 1 .. Len(Channel)
    BY ThreeChannels
  <2> QED
    BY <1>11, <2>1, <2>2 DEF LooksForNotice
<1>12. CASE UNCHANGED reminderVars
  BY <1>12 DEF reminderVars
<1> QED
  BY <1>1, <1>2, <1>3, <1>4, <1>5, <1>6, <1>7, <1>8, <1>9, <1>10, <1>11, <1>12
     DEF RemindersNext

-----------------------------------------------------------------------------
(* Reminders: what a step does to the rows *)

(* An envelope stays as it is, is sent, or is over. *)
LEMMA EnvelopeMoves ==
  ASSUME RemindersTypeOK, [RemindersNext]_reminderVars, NEW e \in Envelopes
  PROVE  \/ /\ envelope'[e].state = envelope[e].state
            /\ envelope'[e].of = envelope[e].of
            /\ envelope'[e].created = envelope[e].created
         \/ /\ envelope[e].state = "none" /\ envelope'[e].state = "SENT"
            /\ envelope'[e].created = day /\ day' = day /\ place' = place
            /\ place[envelope'[e].of] # "gone"
         \/ /\ envelope[e].state = "SENT" /\ envelope'[e].state = "over"
            /\ envelope'[e].of = envelope[e].of
            /\ envelope'[e].created = envelope[e].created
<1> USE DEF RemindersTypeOK
<1> DEFINE Goal == \/ /\ envelope'[e].state = envelope[e].state
                      /\ envelope'[e].of = envelope[e].of
                      /\ envelope'[e].created = envelope[e].created
                   \/ /\ envelope[e].state = "none" /\ envelope'[e].state = "SENT"
                      /\ envelope'[e].created = day /\ day' = day /\ place' = place
                      /\ place[envelope'[e].of] # "gone"
                   \/ /\ envelope[e].state = "SENT" /\ envelope'[e].state = "over"
                      /\ envelope'[e].of = envelope[e].of
                      /\ envelope'[e].created = envelope[e].created
<1>1. ASSUME NEW f \in Envelopes, IsReplaced(f) \/ IsSigned(f) PROVE Goal
  <2>1. envelope' = [envelope EXCEPT ![f].state = "over"] /\ envelope[f].state = "SENT"
    BY <1>1 DEF IsReplaced, IsSigned, IsOut
  <2>2. CASE e = f
    BY <2>1, <2>2
  <2>3. CASE e # f
    BY <2>1, <2>3
  <2> QED
    BY <2>2, <2>3
<1>2. ASSUME NEW f \in Envelopes, NEW p \in Waiting, IsSent(f, p) PROVE Goal
  <2>1. CASE e = f
    BY <1>2, <2>1 DEF IsSent
  <2>2. CASE e # f
    BY <1>2, <2>2 DEF IsSent
  <2> QED
    BY <2>1, <2>2
<1>3. ASSUME NEW p \in Waiting, IsDeleted(p) PROVE Goal
  BY <1>3 DEF IsDeleted, IsOut
<1>4. ASSUME UNCHANGED envelope PROVE Goal
  BY <1>4
<1> HIDE DEF Goal, RemindersTypeOK
<1>5. \/ \E f \in Envelopes : IsReplaced(f) \/ IsSigned(f) \/ \E p \in Waiting : IsSent(f, p)
      \/ \E p \in Waiting : IsDeleted(p)
      \/ UNCHANGED envelope
  BY DEF RemindersNext, IsTaken, DayBreaks, ListsWaiting, Reminds, RoundEnds, RoundIsCutShort,
         LooksForNotice, reminderVars
<1>6. Goal
  BY <1>1, <1>2, <1>3, <1>4, <1>5
<1> QED
  BY <1>6 DEF Goal

(* What has been missed or has strayed has so for good; a proposal that is *)
(* gone stays so, and one that moves without straying goes.                *)
LEMMA PlaceMoves ==
  ASSUME RemindersTypeOK, PlacesAreSound, [RemindersNext]_reminderVars
  PROVE  /\ missed \subseteq missed' /\ strayed \subseteq strayed'
         /\ \A p \in Waiting :
              \/ place'[p] = place[p]
              \/ p \in strayed' /\ (place[p] = "gone" => place'[p] = "gone")
              \/ place'[p] = "gone"
<1> USE DEF RemindersTypeOK
<1>1. missed \subseteq missed' /\ strayed \subseteq strayed'
  BY DEF RemindersNext, IsReplaced, IsSigned, IsSent, IsDeleted, IsTaken, DayBreaks,
         ListsWaiting, Reminds, RoundEnds, RoundIsCutShort, DayMissed, LooksForNotice,
         reminderVars
<1> DEFINE Goal(p) == \/ place'[p] = place[p]
                      \/ p \in strayed' /\ (place[p] = "gone" => place'[p] = "gone")
                      \/ place'[p] = "gone"
<1>2. ASSUME NEW e \in Envelopes, IsSigned(e), NEW p \in Waiting PROVE Goal(p)
  BY <1>2, EnvelopeType DEF IsSigned, PlacesAreSound
<1>3. ASSUME NEW q \in Waiting, IsDeleted(q), NEW p \in Waiting PROVE Goal(p)
  BY <1>3 DEF IsDeleted
<1>4. ASSUME NEW q \in Waiting, NEW to \in {"waiting", "other"}, IsTaken(q, to),
             NEW p \in Waiting
      PROVE  Goal(p)
  BY <1>4 DEF IsTaken
<1>5. ASSUME UNCHANGED place, NEW p \in Waiting PROVE Goal(p)
  BY <1>5
<1> HIDE DEF Goal
<1>6. \A p \in Waiting : Goal(p)
  BY <1>2, <1>3, <1>4, <1>5
     DEF RemindersNext, IsReplaced, IsSent, DayBreaks, ListsWaiting, Reminds, RoundEnds,
         RoundIsCutShort, LooksForNotice, reminderVars
<1> QED
  BY <1>1, <1>6 DEF Goal

(* The rows of notices change as a proposal goes or is reminded. *)
LEMMA RowsMove ==
  ASSUME RemindersTypeOK, RoundIsSound, [RemindersNext]_reminderVars
  PROVE  \/ UNCHANGED reminded
         \/ \E p \in Waiting : IsDeleted(p)
         \/ \E e \in round.telling : Adds(e) /\ (Reminds \/ RoundIsCutShort)
              /\ place[envelope[e].of] # "gone" /\ UNCHANGED <<place, envelope, day>>
  BY DEF RemindersNext, IsReplaced, IsSigned, IsSent, IsTaken, DayBreaks, ListsWaiting,
         Reminds, RoundEnds, RoundIsCutShort, LooksForNotice, reminderVars, Adds

(* A proposal that has been reminded has been so until it goes. *)
LEMMA RowsStay ==
  ASSUME RemindersTypeOK, RoundIsSound, [RemindersNext]_reminderVars,
         NEW p \in Waiting, NEW s \in Steps, WasReminded(p, s)
  PROVE  WasReminded(p, s)' \/ place'[p] = "gone"
<1>1. PICK c \in 1 .. 3 : reminded[p][s][c] > 0
  BY ThreeChannels DEF WasReminded
<1>2. CASE UNCHANGED reminded
  BY <1>2 DEF WasReminded
<1>3. ASSUME NEW q \in Waiting, IsDeleted(q) PROVE WasReminded(p, s)' \/ place'[p] = "gone"
  BY <1>1, <1>3, ThreeChannels DEF IsDeleted, RemindersTypeOK, WasReminded
<1>4. ASSUME NEW e \in round.telling, Adds(e) PROVE WasReminded(p, s)'
  <2>1. e \in Envelopes /\ Age(e) \in Steps
    BY DEF RemindersTypeOK, Round, RoundIsSound
  <2>2. reminded'[p][s][c] > 0
    BY <1>1, <1>4, <2>1, AddsOne, RemindedType
  <2> QED
    BY <2>2, ThreeChannels DEF WasReminded
<1> QED
  BY <1>2, <1>3, <1>4, RowsMove

-----------------------------------------------------------------------------
(* Reminders: places and the round *)

LEMMA PlacesKept ==
  ASSUME RemindersTypeOK, PlacesAreSound, [RemindersNext]_reminderVars
  PROVE  PlacesAreSound'
<1>1. ASSUME NEW p \in Waiting, IsDeleted(p) PROVE PlacesAreSound'
  BY <1>1 DEF IsDeleted, RemindersTypeOK, PlacesAreSound, IsOut
<1>2. ASSUME NEW p \in Waiting, NEW to \in {"waiting", "other"}, IsTaken(p, to)
      PROVE  PlacesAreSound'
  BY <1>2 DEF IsTaken, RemindersTypeOK, PlacesAreSound, IsOut
<1>3. ASSUME NEW e \in Envelopes, IsSigned(e) PROVE PlacesAreSound'
  BY <1>3, EnvelopeType DEF IsSigned, RemindersTypeOK, PlacesAreSound, IsOut
<1>4. ASSUME UNCHANGED place, strayed \subseteq strayed' PROVE PlacesAreSound'
  BY <1>4, EnvelopeMoves DEF PlacesAreSound, IsOut
<1>5. \/ \E p \in Waiting : IsDeleted(p) \/ \E to \in {"waiting", "other"} : IsTaken(p, to)
      \/ \E e \in Envelopes : IsSigned(e)
      \/ UNCHANGED place
  BY DEF RemindersNext, IsReplaced, IsSent, DayBreaks, ListsWaiting, Reminds, RoundEnds,
         RoundIsCutShort, LooksForNotice, reminderVars
<1> QED
  BY <1>1, <1>2, <1>3, <1>4, <1>5, PlaceMoves

(* The envelopes es have no row of their reminder in channel k or a later. *)
RowsToCome(es, k) ==
  \A e \in es, c \in k .. Len(Channel) : reminded[envelope[e].of][TemplateOf(Age(e))][c] = 0

LEMMA RoundKeptByOthers ==
  ASSUME RemindersTypeOK, RoundIsSound, UNCHANGED <<round, day>>,
         [RemindersNext]_reminderVars,
         UNCHANGED reminded \/ \E p \in Waiting : IsDeleted(p)
  PROVE  RoundIsSound'
<1>1. \A e \in round.todo \cup round.telling :
        /\ e \in Envelopes /\ envelope[e].state # "none" /\ envelope'[e].state # "none"
        /\ envelope'[e].of = envelope[e].of /\ Age(e) \in Steps /\ Age(e)' = Age(e)
  BY EnvelopeMoves DEF RemindersTypeOK, Round, RoundIsSound, Age, AgeOn
<1>2. RowsToCome(round.telling, round.at)
  BY DEF RoundIsSound, RowsToCome
<1>3. RowsToCome(round.telling, round.at)'
  <2>1. CASE UNCHANGED reminded
    BY <1>1, <1>2, <2>1 DEF RowsToCome, TemplateOf
  <2>2. ASSUME NEW p \in Waiting, IsDeleted(p) PROVE RowsToCome(round.telling, round.at)'
    <3>1. SUFFICES ASSUME NEW e \in round.telling, NEW c \in round.at .. Len(Channel)
                   PROVE  reminded'[envelope[e].of][TemplateOf(Age(e))][c] = 0
      BY <1>1 DEF RowsToCome, TemplateOf
    <3>2. c \in 1 .. Len(Channel)
      BY ThreeChannels DEF RemindersTypeOK, Round
    <3>3. envelope[e].of \in Waiting /\ TemplateOf(Age(e)) \in Steps
      BY <1>1, EnvelopeType, TemplateOfStep
    <3>4. CASE envelope[e].of = p
      BY <2>2, <3>2, <3>3, <3>4 DEF IsDeleted, NobodyTold, RemindersTypeOK
    <3>5. CASE envelope[e].of # p
      BY <1>2, <2>2, <3>3, <3>5 DEF IsDeleted, RemindersTypeOK, RowsToCome
    <3> QED
      BY <3>4, <3>5
  <2> QED
    BY <2>1, <2>2
<1>4. RowsToCome(round.telling, round.at)' <=>
        \A e \in round'.telling, c \in round'.at .. Len(Channel) :
          reminded'[envelope'[e].of][TemplateOf(Age(e)')][c] = 0
  BY DEF RowsToCome, TemplateOf
<1> QED
  BY <1>1, <1>3, <1>4 DEF RoundIsSound, TemplateOf

LEMMA RoundKept ==
  ASSUME RemindersTypeOK, RoundIsSound, [RemindersNext]_reminderVars
  PROVE  RoundIsSound'
<1> USE DEF RemindersTypeOK
<1>1. ASSUME round'.todo = {}, round'.telling = {}, round'.at = 1,
             round'.step # "idle" => day' \in Nat \ {0}
      PROVE  RoundIsSound'
  BY <1>1 DEF RoundIsSound
<1>2. CASE DayBreaks
  <2>1. round'.todo = {} /\ round'.telling = {} /\ round'.at = 1
    BY <1>2 DEF DayBreaks, NoRound
  <2> QED
    BY <1>1, <1>2, <2>1 DEF DayBreaks
<1>3. CASE RoundEnds \/ RoundIsCutShort
  BY <1>1, <1>3 DEF RoundEnds, RoundIsCutShort, NoRound
<1>4. CASE ListsWaiting
  <2>1. /\ round'.step = "each" /\ round'.telling = {}
        /\ \A e \in round'.todo : IsOut(e) /\ Age(e) \in Steps
    BY <1>4 DEF ListsWaiting, RoundIsSound, Round
  <2>2. UNCHANGED <<day, envelope>> /\ day \in Nat \ {0}
    BY <1>4 DEF ListsWaiting, RoundIsSound
  <2> QED
    BY <2>1, <2>2 DEF RoundIsSound, IsOut, Age, AgeOn
<1>5. ASSUME NEW e \in Envelopes, LooksForNotice(e) PROVE RoundIsSound'
  <2>1. /\ round'.step = "each" /\ round'.at = 1 /\ round'.todo = round.todo \ {e}
        /\ round'.telling = IF HasNotice(envelope[e].of, TemplateOf(Age(e))) THEN {} ELSE {e}
    BY <1>5 DEF LooksForNotice, Round
  <2>2. UNCHANGED <<day, envelope, reminded>> /\ e \in round.todo /\ day \in Nat \ {0}
    BY <1>5 DEF LooksForNotice, RoundIsSound
  <2>3. envelope[e].of \in Waiting /\ TemplateOf(Age(e)) \in Steps
    BY <2>2, EnvelopeType, TemplateOfStep DEF RoundIsSound
  <2>4. ~HasNotice(envelope[e].of, TemplateOf(Age(e))) => RowsToCome({e}, 1)
    BY <2>3, ThreeChannels, RemindedType DEF HasNotice, RowsToCome
  <2>5. \A f \in round'.todo \cup round'.telling :
          envelope[f].state # "none" /\ Age(f) \in Steps
    BY <2>1, <2>2 DEF RoundIsSound
  <2>6. RowsToCome(round'.telling, 1)
    BY <2>1, <2>4 DEF RowsToCome
  <2> QED
    BY <2>1, <2>2, <2>5, <2>6 DEF RoundIsSound, RowsToCome, Age, AgeOn, TemplateOf
<1>6. CASE Reminds
  <2>1. PICK e \in round.telling : Adds(e) /\ UNCHANGED <<day, envelope>>
    BY <1>6 DEF Reminds, Adds
  <2>2. e \in Envelopes /\ Age(e) \in Steps /\ round.telling = {e} /\ round.step = "each"
    BY <2>1 DEF Round, RoundIsSound
  <2>3. CASE round.at = Len(Channel)
    <3>1. /\ round'.step = round.step /\ round'.todo = round.todo
          /\ round'.telling = {} /\ round'.at = 1
      BY <1>6, <2>3 DEF Reminds, Round
    <3> QED
      BY <2>1, <2>2, <3>1 DEF RoundIsSound, Age, AgeOn
  <2>4. CASE round.at # Len(Channel)
    <3>1. /\ round'.step = round.step /\ round'.todo = round.todo
          /\ round'.telling = {e} /\ round'.at = round.at + 1
      BY <1>6, <2>2, <2>4 DEF Reminds, Round
    <3>2. RowsToCome({e}, round.at)
      BY <2>2 DEF RoundIsSound, RowsToCome
    <3>3. ASSUME NEW c \in round.at + 1 .. 3
          PROVE  reminded'[envelope[e].of][TemplateOf(Age(e))][c] = 0
      <4>1. c \in 1 .. 3 /\ c \in round.at .. Len(Channel) /\ c # round.at
        BY <3>3, ThreeChannels DEF Round
      <4>2. envelope[e].of \in Waiting /\ TemplateOf(Age(e)) = Age(e)
        BY <2>2, EnvelopeType, TemplateOfStep
      <4> QED
        BY <2>1, <2>2, <3>2, <4>1, <4>2, AddsOne DEF RowsToCome
    <3> QED
      BY <2>1, <2>2, <3>1, <3>3, ThreeChannels DEF RoundIsSound, Age, AgeOn, TemplateOf
  <2> QED
    BY <2>3, <2>4
<1>7. CASE UNCHANGED <<round, day>> /\ (UNCHANGED reminded \/ \E p \in Waiting : IsDeleted(p))
  BY <1>7, RoundKeptByOthers
<1> QED
  BY <1>2, <1>3, <1>4, <1>5, <1>6, <1>7
     DEF RemindersNext, IsReplaced, IsSigned, IsSent, IsDeleted, IsTaken, reminderVars

-----------------------------------------------------------------------------
(* Reminders: each is sent *)

(* An envelope that is out and has not strayed was so before, or is new;   *)
(* what its proposal has been reminded of, it still has been.              *)
LEMMA OutStays ==
  ASSUME RemindersTypeOK, PlacesAreSound, RoundIsSound, [RemindersNext]_reminderVars,
         NEW e \in Envelopes, IsOut(e)', (envelope[e].of \notin strayed)',
         Age(e)' >= 0
  PROVE  /\ IsOut(e) /\ envelope[e].of \notin strayed
         /\ envelope'[e].of = envelope[e].of
         /\ envelope'[e].created = envelope[e].created
         /\ \A s \in Steps : WasReminded(envelope[e].of, s) => WasReminded(envelope[e].of, s)'
<1>1. PlacesAreSound' /\ strayed \subseteq strayed'
  BY PlacesKept, PlaceMoves
<1>2. ~(envelope[e].state = "none" /\ envelope'[e].created = day /\ day' = day)
  BY DEF Age, AgeOn, RemindersTypeOK
<1>3. /\ IsOut(e) /\ envelope'[e].of = envelope[e].of
      /\ envelope'[e].created = envelope[e].created
  BY <1>2, EnvelopeMoves DEF IsOut
<1>4. place'[envelope[e].of] # "gone"
  BY <1>1, <1>3 DEF PlacesAreSound
<1> QED
  BY <1>1, <1>3, <1>4, RowsStay, EnvelopeType

LEMMA ListKept ==
  ASSUME RemindersTypeOK, PlacesAreSound, RoundIsSound, ListIsWorkedOff,
         [RemindersNext]_reminderVars
  PROVE  ListIsWorkedOff'
<1> SUFFICES ASSUME NEW e \in Envelopes, (round.step = "each")', IsOut(e)',
                    (envelope[e].of \notin strayed)', Age(e)' \in Steps
             PROVE  \/ e \in round'.todo \cup round'.telling
                    \/ WasReminded(envelope[e].of, Age(e))'
  BY DEF ListIsWorkedOff
<1> DEFINE w == envelope[e].of
<1>1. /\ IsOut(e) /\ w \notin strayed /\ envelope'[e].of = w
      /\ envelope'[e].created = envelope[e].created
      /\ \A s \in Steps : WasReminded(w, s) => WasReminded(w, s)'
  <2>1. Age(e)' >= 0
    BY DEF Steps
  <2> QED
    BY <2>1, OutStays
<1>2. w \in Waiting
  BY EnvelopeType
<1>3. CASE ListsWaiting
  <2>1. place[w] = "waiting"
    BY <1>1, <1>2 DEF PlacesAreSound, RemindersTypeOK
  <2>2. Age(e) \in Steps
    BY <1>3 DEF ListsWaiting, Age, AgeOn
  <2> QED
    BY <1>1, <1>3, <2>1, <2>2 DEF ListsWaiting, RemindersTypeOK, Round
<1>4. CASE round.step = "each" /\ UNCHANGED day
  <2>1. Age(e)' = Age(e)
    BY <1>1, <1>4 DEF Age, AgeOn
  <2>2. Age(e) \in Steps
    BY <2>1
  <2>3. CASE WasReminded(w, Age(e))
    BY <1>1, <2>1, <2>2, <2>3 DEF WasReminded
  <2>4. CASE e \in round.todo \cup round.telling
    <3>1. CASE UNCHANGED round
      BY <2>4, <3>1
    <3>2. ASSUME NEW f \in Envelopes, LooksForNotice(f)
          PROVE  e \in round'.todo \cup round'.telling \/ WasReminded(w, Age(e))
      <4>1. TemplateOf(Age(e)) = Age(e)
        BY <2>2, TemplateOfStep
      <4>2. /\ round'.todo = round.todo \ {f} /\ round.telling = {}
            /\ round'.telling = IF HasNotice(envelope[f].of, TemplateOf(Age(f))) THEN {} ELSE {f}
        BY <3>2 DEF LooksForNotice, RemindersTypeOK, Round
      <4>3. CASE e = f
        BY <4>1, <4>2, <4>3 DEF HasNotice, WasReminded
      <4>4. CASE e # f
        BY <2>4, <4>2, <4>4
      <4> QED
        BY <4>3, <4>4
    <3>3. CASE Reminds
      <4>1. PICK f \in round.telling : Adds(f)
        BY <3>3 DEF Reminds, Adds
      <4>2. round'.todo = round.todo
        BY <3>3 DEF Reminds, RemindersTypeOK, Round
      <4>3. CASE e = f
        <5>1. round.at \in 1 .. 3
          BY ThreeChannels DEF RemindersTypeOK, Round
        <5>2. /\ reminded[w][Age(e)][round.at] \in Nat
              /\ reminded'[w][Age(e)][round.at] = reminded[w][Age(e)][round.at] + 1
          <6> HIDE DEF w
          <6>1. reminded[w][Age(e)][round.at] \in Nat
            BY <1>2, <2>2, <5>1, RemindedType
          <6>2. Adds(e)
            BY <4>1, <4>3
          <6> QED
            BY <1>2, <2>2, <5>1, <6>1, <6>2, AddsOne DEF w
        <5>3. WasReminded(w, Age(e))'
          BY <1>1, <2>1, <5>1, <5>2, ThreeChannels DEF WasReminded
        <5> QED
          BY <1>1, <5>3
      <4>4. CASE e # f
        BY <2>4, <4>1, <4>2, <4>4 DEF RoundIsSound
      <4> QED
        BY <4>3, <4>4
    <3>4. UNCHANGED round \/ Reminds \/ \E f \in Envelopes : LooksForNotice(f)
      <4>1. ~DayBreaks /\ ~ListsWaiting /\ ~RoundEnds /\ ~RoundIsCutShort
        <5>1. ~DayBreaks /\ ~ListsWaiting
          BY <1>4 DEF DayBreaks, ListsWaiting, NoRound
        <5>2. ~RoundEnds /\ ~RoundIsCutShort
          BY DEF RoundEnds, RoundIsCutShort, NoRound
        <5> QED
          BY <5>1, <5>2
      <4> QED
        BY <4>1 DEF RemindersNext, IsReplaced, IsSigned, IsSent, IsDeleted, IsTaken, reminderVars
    <3>5. WasReminded(w, Age(e)) => WasReminded(w, Age(e))'
      BY <1>1, <2>1, <2>2 DEF WasReminded
    <3> QED
      BY <3>1, <3>2, <3>3, <3>4, <3>5
  <2>5. e \in round.todo \cup round.telling \/ WasReminded(w, Age(e))
    BY <1>1, <1>4, <2>2 DEF ListIsWorkedOff
  <2> QED
    BY <2>3, <2>4, <2>5
<1>5. ListsWaiting \/ (round.step = "each" /\ UNCHANGED day)
  <2>1. ~DayBreaks /\ ~RoundEnds /\ ~RoundIsCutShort
    <3>1. round.step = "idle" /\ DayBreaks => round'.step # "each"
      BY DEF DayBreaks, RemindersTypeOK, Round
    <3> QED
      BY <3>1 DEF DayBreaks, RoundEnds, RoundIsCutShort, NoRound
  <2>2. CASE Reminds
    BY <2>2 DEF Reminds, RemindersTypeOK, Round
  <2>3. ASSUME NEW f \in Envelopes, LooksForNotice(f) PROVE round.step = "each" /\ UNCHANGED day
    BY <2>3 DEF LooksForNotice
  <2> QED
    BY <2>1, <2>2, <2>3
       DEF RemindersNext, IsReplaced, IsSigned, IsSent, IsDeleted, IsTaken, reminderVars
<1> QED
  BY <1>3, <1>4, <1>5

(* A day's run that ends has reminded of what was listed; one that is cut  *)
(* short is on record as missed.                                           *)
LEMMA SentKept ==
  ASSUME RemindersTypeOK, PlacesAreSound, RoundIsSound, ListIsWorkedOff, ReminderIsSent,
         [RemindersNext]_reminderVars
  PROVE  ReminderIsSent'
<1> SUFFICES ASSUME NEW e \in Envelopes, NEW s \in Steps,
                    IsOut(e)', (envelope[e].of \notin strayed)',
                    AgeOn(e, day)' >= s, AgeOn(e, day)' = s => round' = NoRound,
                    (envelope[e].created + 1 + s \notin missed)'
             PROVE  WasReminded(envelope[e].of, s)'
  BY DEF ReminderIsSent
<1> DEFINE w == envelope[e].of
           c == envelope[e].created
<1>1. /\ IsOut(e) /\ w \notin strayed /\ envelope'[e].of = w /\ envelope'[e].created = c
      /\ WasReminded(w, s) => WasReminded(w, s)'
  <2>1. Age(e)' >= 0
    <3>1. day' \in Int /\ envelope'[e].created \in Int
      BY RemindersTypeKept DEF RemindersTypeOK
    <3> QED
      BY <3>1 DEF Age, AgeOn, Steps
  <2> QED
    BY <2>1, OutStays
<1>2. missed \subseteq missed' /\ c + 1 + s \notin missed
  BY <1>1, PlaceMoves
<1>3. /\ c \in Nat /\ s \in Nat /\ day \in Nat
      /\ AgeOn(e, day) = day - c - 1 /\ AgeOn(e, day)' = day' - c - 1
  BY <1>1, EnvelopeType DEF AgeOn, Steps, RemindersTypeOK
<1> HIDE DEF w, c
<1>4. ASSUME AgeOn(e, day) > s \/ (AgeOn(e, day) = s /\ round = NoRound)
      PROVE  WasReminded(w, s)
  BY <1>1, <1>2, <1>3, <1>4 DEF ReminderIsSent, w, c
<1>5. CASE DayBreaks
  <2>1. round = NoRound /\ day' = day + 1
    BY <1>5 DEF DayBreaks
  <2>2. CASE AgeOn(e, day) >= s
    BY <1>1, <1>3, <1>4, <2>1, <2>2 DEF w
  <2>3. CASE AgeOn(e, day) < s
    <3>1. AgeOn(e, day)' = s /\ c + 1 + s = day + 1
      BY <1>3, <2>1, <2>3
    <3>2. [round EXCEPT !.step = "list"] # NoRound
      BY DEF RemindersTypeOK, Round, NoRound
    <3>3. missed' = missed \cup {day + 1}
      BY <1>5, <3>1, <3>2 DEF DayBreaks
    <3> QED
      BY <1>1, <3>1, <3>3 DEF c
  <2> QED
    BY <1>3, <2>2, <2>3
<1>6. CASE UNCHANGED day
  <2>1. CASE AgeOn(e, day) > s \/ (AgeOn(e, day) = s /\ round = NoRound)
    BY <1>1, <1>4, <2>1 DEF w
  <2>2. CASE AgeOn(e, day) = s /\ round # NoRound
    <3>1. round' = NoRound
      BY <1>3, <1>6, <2>2
    <3>2. RoundEnds \/ RoundIsCutShort
      <4>1. round'.step = "idle"
        BY <3>1 DEF NoRound
      <4>2. ~ListsWaiting /\ \A f \in Envelopes : ~LooksForNotice(f)
        BY <4>1 DEF ListsWaiting, LooksForNotice, RemindersTypeOK, Round
      <4>3. ~Reminds
        BY <4>1 DEF Reminds, RoundIsSound, RemindersTypeOK, Round
      <4>4. ~DayBreaks
        BY <2>2 DEF DayBreaks
      <4> QED
        BY <2>2, <3>1, <4>2, <4>3, <4>4
           DEF RemindersNext, IsReplaced, IsSigned, IsSent, IsDeleted, IsTaken, reminderVars
    <3>3. CASE RoundEnds
      <4>1. Age(e) = s
        BY <2>2 DEF Age
      <4>2. WasReminded(w, s)
        BY <1>1, <3>3, <4>1 DEF RoundEnds, ListIsWorkedOff, w
      <4> QED
        BY <1>1, <4>2 DEF w
    <3>4. CASE RoundIsCutShort
      <4>1. day \in missed' /\ c + 1 + s = day
        BY <1>3, <2>2, <3>4 DEF RoundIsCutShort, DayMissed
      <4> QED
        BY <1>1, <4>1 DEF c
    <3> QED
      BY <3>2, <3>3, <3>4
  <2> QED
    BY <1>3, <1>6, <2>1, <2>2
<1>7. DayBreaks \/ UNCHANGED day
  BY DEF RemindersNext, IsReplaced, IsSigned, IsSent, IsDeleted, IsTaken, ListsWaiting, Reminds,
         RoundEnds, RoundIsCutShort, LooksForNotice, reminderVars
<1> QED
  BY <1>5, <1>6, <1>7

-----------------------------------------------------------------------------
(* Reminders: each is sent once, and the last not before the first *)

LEMMA OnceKept ==
  ASSUME RemindersTypeOK, RoundIsSound, RemindedOnce, [RemindersNext]_reminderVars
  PROVE  RemindedOnce'
<1>1. CASE UNCHANGED reminded
  BY <1>1 DEF RemindedOnce
<1>2. ASSUME NEW p \in Waiting, IsDeleted(p) PROVE RemindedOnce'
  BY <1>2, ThreeChannels DEF IsDeleted, RemindersTypeOK, RemindedOnce, NobodyTold
<1>3. ASSUME NEW e \in round.telling, Adds(e) PROVE RemindedOnce'
  <2>1. e \in Envelopes /\ Age(e) \in Steps /\ round.at \in 1 .. 3
    BY ThreeChannels DEF RemindersTypeOK, Round, RoundIsSound
  <2>2. reminded[envelope[e].of][Age(e)][round.at] = 0
    BY <2>1, TemplateOfStep, ThreeChannels DEF RoundIsSound
  <2>3. \A p \in Waiting, s \in Steps, c \in 1 .. 3 : reminded[p][s][c] <= 1
    BY ThreeChannels DEF RemindedOnce
  <2>4. \A p \in Waiting, s \in Steps, c \in 1 .. 3 : reminded'[p][s][c] <= 1
    <3>1. \A p \in Waiting, s \in Steps, c \in 1 .. 3 :
            reminded'[p][s][c] =
              IF p = envelope[e].of /\ s = Age(e) /\ c = round.at
                THEN reminded[p][s][c] + 1 ELSE reminded[p][s][c]
      BY <1>3, <2>1, AddsOne
    <3> QED
      BY <2>2, <2>3, <3>1
  <2> QED
    BY <2>4, ThreeChannels DEF RemindedOnce
<1> QED
  BY <1>1, <1>2, <1>3, RowsMove

(* What excuses a last reminder, or readiness for one, lasts. *)
Excused(p) == WasReminded(p, 3) \/ p \in strayed \/ missed # {}

LEMMA ExcuseLasts ==
  ASSUME RemindersTypeOK, PlacesAreSound, RoundIsSound, [RemindersNext]_reminderVars,
         NEW p \in Waiting, place[p] = "gone" \/ Excused(p)
  PROVE  place'[p] = "gone" \/ Excused(p)'
<1>1. 3 \in Steps
  BY DEF Steps
<1> QED
  BY <1>1, PlaceMoves, RowsStay DEF Excused

LEMMA FinalsKept ==
  ASSUME RemindersTypeOK, PlacesAreSound, RoundIsSound, ReminderIsSent, FinalsAreDue,
         [RemindersNext]_reminderVars
  PROVE  FinalsAreDue'
<1> SUFFICES ASSUME NEW e \in round'.todo \cup round'.telling, Age(e)' = 6
             PROVE  place'[envelope'[e].of] = "gone" \/ Excused(envelope[e].of)'
  BY DEF FinalsAreDue, Excused
<1>1. ASSUME e \in round.todo \cup round.telling, UNCHANGED day
      PROVE  place'[envelope'[e].of] = "gone" \/ Excused(envelope[e].of)'
  <2>1. e \in Envelopes /\ envelope[e].state # "none"
    BY <1>1 DEF RemindersTypeOK, Round, RoundIsSound
  <2>2. envelope'[e].of = envelope[e].of /\ Age(e)' = Age(e) /\ envelope[e].of \in Waiting
    BY <1>1, <2>1, EnvelopeMoves, EnvelopeType DEF Age, AgeOn
  <2>3. place[envelope[e].of] = "gone" \/ Excused(envelope[e].of)
    BY <1>1, <2>2 DEF FinalsAreDue, Excused
  <2>4. place'[envelope[e].of] = "gone" \/ Excused(envelope[e].of)'
    BY <2>2, <2>3, ExcuseLasts DEF Excused, WasReminded
  <2> QED
    BY <2>2, <2>4
<1>2. CASE ListsWaiting
  <2>1. UNCHANGED <<day, envelope, reminded, strayed, missed>> /\ round.step = "list"
    BY <1>2 DEF ListsWaiting
  <2>2. e \in Envelopes /\ IsOut(e) /\ Age(e) = 6
    <3>1. round'.todo = { f \in Envelopes :
                    IsOut(f) /\ place[envelope[f].of] = "waiting" /\ Age(f) \in Steps }
      BY <1>2 DEF ListsWaiting, RemindersTypeOK, Round
    <3>2. round'.telling = {}
      BY <1>2 DEF ListsWaiting, RemindersTypeOK, Round, RoundIsSound
    <3> QED
      BY <2>1, <3>1, <3>2 DEF Age, AgeOn
  <2>3. Excused(envelope[e].of)
    BY <2>2 DEF ReminderIsSent, Excused, Steps, Age
  <2> QED
    BY <2>1, <2>3 DEF Excused, WasReminded
<1>3. CASE DayBreaks \/ RoundEnds \/ RoundIsCutShort
  BY <1>3 DEF DayBreaks, RoundEnds, RoundIsCutShort, NoRound
<1>4. CASE Reminds
  <2>1. UNCHANGED day /\ round'.todo = round.todo /\ round'.telling \subseteq round.telling
    BY <1>4 DEF Reminds, RemindersTypeOK, Round
  <2> QED
    BY <1>1, <2>1
<1>5. ASSUME NEW f \in Envelopes, LooksForNotice(f)
      PROVE  e \in round.todo \cup round.telling /\ UNCHANGED day
  BY <1>5 DEF LooksForNotice, RemindersTypeOK, Round
<1> QED
  BY <1>1, <1>2, <1>3, <1>4, <1>5
     DEF RemindersNext, IsReplaced, IsSigned, IsSent, IsDeleted, IsTaken, reminderVars

LEMMA FinalNotFirstKept ==
  ASSUME RemindersTypeOK, PlacesAreSound, RoundIsSound, FinalsAreDue, FinalIsNotFirst,
         [RemindersNext]_reminderVars
  PROVE  FinalIsNotFirst'
<1> SUFFICES ASSUME NEW p \in Waiting, WasReminded(p, 6)' PROVE Excused(p)'
  BY DEF FinalIsNotFirst, Excused
<1>1. 3 \in Steps /\ 6 \in Steps
  BY DEF Steps
<1>2. ASSUME NEW q \in Waiting, IsDeleted(q) PROVE Excused(p)'
  <2>1. CASE q = p
    BY <1>1, <1>2, <2>1, ThreeChannels DEF IsDeleted, RemindersTypeOK, NobodyTold, WasReminded
  <2>2. CASE q # p
    <3>1. UNCHANGED <<strayed, missed>> /\ reminded'[p] = reminded[p]
      BY <1>2, <2>2 DEF IsDeleted, RemindersTypeOK
    <3> QED
      BY <3>1 DEF WasReminded, FinalIsNotFirst, Excused
  <2> QED
    BY <2>1, <2>2
<1>3. CASE UNCHANGED reminded
  BY <1>3, PlaceMoves DEF WasReminded, FinalIsNotFirst, Excused
<1>4. ASSUME NEW e \in round.telling, Adds(e), place[envelope[e].of] # "gone",
             UNCHANGED place
      PROVE  Excused(p)'
  <2>1. e \in Envelopes /\ Age(e) \in Steps /\ envelope[e].of \in Waiting
    BY EnvelopeType DEF RemindersTypeOK, Round, RoundIsSound
  <2>2. place[p] # "gone" /\ Excused(p) => Excused(p)'
    BY <1>4, ExcuseLasts
  <2>3. CASE p = envelope[e].of /\ Age(e) = 6
    BY <1>4, <2>2, <2>3 DEF FinalsAreDue, Excused
  <2>4. CASE ~(p = envelope[e].of /\ Age(e) = 6)
    <3> DEFINE Row(s, c) == reminded'[p][s][c] =
                  IF p = envelope[e].of /\ s = Age(e) /\ c = round.at
                    THEN reminded[p][s][c] + 1 ELSE reminded[p][s][c]
    <3>0. \A s \in Steps, c \in 1 .. 3 : Row(s, c)
      BY <1>4, <2>1, AddsOne
    <3>1. \A c \in 1 .. 3 : reminded'[p][6][c] = reminded[p][6][c]
      BY <1>1, <2>4, <3>0
    <3>2. WasReminded(p, 6)
      BY <3>1, ThreeChannels DEF WasReminded
    <3>3. \A c \in 1 .. 3 : reminded[p][3][c] > 0 => reminded'[p][3][c] > 0
      <4>1. \A c \in 1 .. 3 : reminded[p][3][c] \in Nat
        BY <1>1, RemindedType
      <4> QED
        BY <1>1, <3>0, <4>1
    <3> QED
      BY <3>2, <3>3, PlaceMoves, ThreeChannels DEF FinalIsNotFirst, Excused, WasReminded
  <2> QED
    BY <2>3, <2>4
<1> QED
  BY <1>2, <1>3, <1>4, RowsMove

-----------------------------------------------------------------------------
LEMMA RemindersStart == RemindersInit => RemindersInv
<1> SUFFICES ASSUME RemindersInit PROVE RemindersInv
  OBVIOUS
<1>1. RemindersTypeOK
  BY NobodyToldType, NoRoundType, NoEnvelopeType DEF RemindersInit, RemindersTypeOK
<1>2. \A e \in Envelopes : ~IsOut(e)
  BY DEF RemindersInit, NoEnvelope, IsOut
<1>3. \A p \in Waiting, s \in Steps, c \in DOMAIN Channel : reminded[p][s][c] = 0
  BY ThreeChannels DEF RemindersInit, NobodyTold
<1>4. /\ round.step = "idle" /\ round.todo = {} /\ round.telling = {} /\ round.at = 1
      /\ \A p \in Waiting : place[p] = "waiting"
  BY DEF RemindersInit, NoRound
<1>5. 6 \in Steps
  BY DEF Steps
<1> QED
  BY <1>1, <1>2, <1>3, <1>4, <1>5
     DEF RemindersInv, PlacesAreSound, RoundIsSound, ListIsWorkedOff, FinalsAreDue,
         RemindedOnce, ReminderIsSent, FinalIsNotFirst, WasReminded

(* Each reminder is sent, on its day unless that was missed, once in each  *)
(* channel, and the last not before the first (SignatureReminderService).  *)
THEOREM RemindersAreSafe == RemindersSpec => []RemindersInv
<1>1. RemindersInv /\ [RemindersNext]_reminderVars => RemindersInv'
  BY RemindersTypeKept, PlacesKept, RoundKept, ListKept, SentKept, OnceKept, FinalsKept,
     FinalNotFirstKept DEF RemindersInv
<1> QED
  BY <1>1, RemindersStart, PTL DEF RemindersSpec

-----------------------------------------------------------------------------
(* Maxima, minima, and how far apart loads are *)

USE NobodyAssumption, TermAssumption, BoundsAssumption, FiniteAssumption

(* The elements that have the fewest elements of S beyond them are the last. *)
LEMMA HasExtremes ==
  ASSUME NEW S \in SUBSET Int, IsFiniteSet(S), S # {}
  PROVE  /\ \E x \in S : \A y \in S : x >= y
         /\ \E x \in S : \A y \in S : x <= y
<1>1. IsWellFoundedOn(StrictSubsetOrdering(S), SUBSET S)
  BY FS_StrictSubsetOrderingWellFounded, FS_FiniteSubsetsOfFinite
<1>2. \E x \in S : \A y \in S : x >= y
  <2> DEFINE Beyond(x) == { y \in S : y > x }
             All == { Beyond(x) : x \in S }
  <2>1. All \subseteq SUBSET S /\ All # {}
    OBVIOUS
  <2>2. PICK T \in All : \A U \in All : ~(<<U, T>> \in StrictSubsetOrdering(S))
    <3> HIDE DEF All
    <3> DEFINE R == StrictSubsetOrdering(S)
               Sets == SUBSET S
    <3>1. IsWellFoundedOn(R, Sets) /\ All \subseteq Sets /\ All # {}
      BY <1>1, <2>1
    <3> HIDE DEF R, Sets
    <3>2. \E T \in All : \A U \in All : ~(<<U, T>> \in R)
      BY <3>1, WFMin, Zenon
    <3> QED
      BY <3>2 DEF R
  <2>3. PICK x \in S : T = Beyond(x)
    BY <2>2
  <2>4. ASSUME NEW y \in S, y > x PROVE FALSE
    <3>1. Beyond(y) \subseteq Beyond(x) /\ y \in Beyond(x) /\ y \notin Beyond(y)
      <4>1. x \in Int /\ y \in Int /\ \A z \in S : z \in Int
        OBVIOUS
      <4>2. \A z \in S : z > y => z > x
        BY <2>4, <4>1
      <4>3. ~(y > y)
        BY <4>1
      <4> QED
        BY <2>4, <4>2, <4>3
    <3>2. <<Beyond(y), Beyond(x)>> \in StrictSubsetOrdering(S)
      <4>1. Beyond(y) # Beyond(x)
        BY <3>1
      <4>2. Beyond(x) \in SUBSET S /\ Beyond(y) \in SUBSET S
        OBVIOUS
      <4> HIDE DEF Beyond
      <4> QED
        BY <3>1, <4>1, <4>2 DEF StrictSubsetOrdering
    <3> QED
      BY <2>2, <2>3, <3>2
  <2> QED
    BY <2>4
<1>3. \E x \in S : \A y \in S : x <= y
  <2> DEFINE Before(x) == { y \in S : y < x }
             All == { Before(x) : x \in S }
  <2>1. All \subseteq SUBSET S /\ All # {}
    OBVIOUS
  <2>2. PICK T \in All : \A U \in All : ~(<<U, T>> \in StrictSubsetOrdering(S))
    <3> HIDE DEF All
    <3> DEFINE R == StrictSubsetOrdering(S)
               Sets == SUBSET S
    <3>1. IsWellFoundedOn(R, Sets) /\ All \subseteq Sets /\ All # {}
      BY <1>1, <2>1
    <3> HIDE DEF R, Sets
    <3>2. \E T \in All : \A U \in All : ~(<<U, T>> \in R)
      BY <3>1, WFMin, Zenon
    <3> QED
      BY <3>2 DEF R
  <2>3. PICK x \in S : T = Before(x)
    BY <2>2
  <2>4. ASSUME NEW y \in S, y < x PROVE FALSE
    <3>1. Before(y) \subseteq Before(x) /\ y \in Before(x) /\ y \notin Before(y)
      <4>1. x \in Int /\ y \in Int /\ \A z \in S : z \in Int
        OBVIOUS
      <4>2. \A z \in S : z < y => z < x
        BY <2>4, <4>1
      <4>3. ~(y < y)
        BY <4>1
      <4> QED
        BY <2>4, <4>2, <4>3
    <3>2. <<Before(y), Before(x)>> \in StrictSubsetOrdering(S)
      <4>1. Before(y) # Before(x)
        BY <3>1
      <4>2. Before(x) \in SUBSET S /\ Before(y) \in SUBSET S
        OBVIOUS
      <4> HIDE DEF Before
      <4> QED
        BY <3>1, <4>1, <4>2 DEF StrictSubsetOrdering
    <3> QED
      BY <2>2, <2>3, <3>2
  <2> QED
    BY <2>4
<1> QED
  BY <1>2, <1>3

LEMMA MaxIsIn ==
  ASSUME NEW S \in SUBSET Int, IsFiniteSet(S), S # {}
  PROVE  Max(S) \in S /\ \A y \in S : Max(S) >= y
<1>1. \E x \in S : \A y \in S : x >= y
  BY HasExtremes
<1> QED
  BY <1>1 DEF Max

LEMMA MinIsIn ==
  ASSUME NEW S \in SUBSET Int, IsFiniteSet(S), S # {}
  PROVE  Min(S) \in S /\ \A y \in S : Min(S) <= y
<1>1. \E x \in S : \A y \in S : x <= y
  BY HasExtremes
<1> QED
  BY <1>1 DEF Min

LEMMA OneOrMore ==
  ASSUME NEW g \in Nat
  PROVE  Max({1, g}) \in Nat /\ Max({1, g}) >= 1 /\ Max({1, g}) >= g
<1>1. IsFiniteSet({1, g})
  <2>1. IsFiniteSet({1}) /\ {1} \cup {g} = {1, g}
    BY FS_Singleton
  <2> QED
    BY <2>1, FS_AddElement
<1>2. {1, g} \in SUBSET Int /\ {1, g} # {}
  OBVIOUS
<1> QED
  BY <1>1, <1>2, MaxIsIn

(* How far apart two loads are, of a pool that is not empty. *)
LEMMA SpreadIsOfTwo ==
  ASSUME NEW load \in [Analysts -> Nat], NEW pool \in SUBSET Analysts, pool # {}
  PROVE  /\ \E a, b \in pool : Spread(load, pool) = load[a] - load[b]
         /\ \A a, b \in pool : load[a] - load[b] <= Spread(load, pool)
<1> DEFINE S == { load[a] : a \in pool }
<1>1. IsFiniteSet(S)
  <2>1. IsFiniteSet(pool)
    BY FS_Subset
  <2> QED
    <3> DEFINE f == [a \in pool |-> load[a]]
    <3>1. f \in Surjection(pool, S)
      BY DEF Surjection
    <3> HIDE DEF f, S
    <3> QED
      BY <2>1, <3>1, FS_Surjection
<1>2. S \in SUBSET Int /\ S # {}
  OBVIOUS
<1>3. /\ Max(S) \in S /\ \A x \in S : Max(S) >= x
      /\ Min(S) \in S /\ \A x \in S : Min(S) <= x
  <2> HIDE DEF S
  <2> QED
    BY <1>1, <1>2, MaxIsIn, MinIsIn
<1>4. PICK a \in pool, b \in pool : Max(S) = load[a] /\ Min(S) = load[b]
  BY <1>3
<1>5. \A c, d \in pool : load[c] - load[d] <= load[a] - load[b]
  <2>1. \A c \in pool : load[c] \in Nat /\ load[c] <= load[a] /\ load[b] <= load[c]
    BY <1>3, <1>4
  <2> QED
    BY <2>1
<1>6. Spread(load, pool) = load[a] - load[b]
  BY <1>4 DEF Spread
<1> QED
  BY <1>5, <1>6
LEMMA SpreadBound ==
  ASSUME NEW load \in [Analysts -> Nat], NEW pool \in SUBSET Analysts, NEW k \in Nat,
         \A a, b \in pool : load[a] - load[b] <= k
  PROVE  Spread(load, pool) <= k
<1>1. CASE pool = {}
  BY <1>1 DEF Spread
<1>2. CASE pool # {}
  BY <1>2, SpreadIsOfTwo
<1> QED
  BY <1>1, <1>2

LEMMA SpreadType ==
  ASSUME NEW n \in Nat, NEW load \in [Analysts -> 0 .. n], NEW pool \in SUBSET Analysts
  PROVE  Spread(load, pool) \in 0 .. n
<1>1. CASE pool = {}
  BY <1>1 DEF Spread
<1>2. CASE pool # {}
  <2>1. load \in [Analysts -> Nat]
    OBVIOUS
  <2>2. PICK a \in pool, b \in pool : Spread(load, pool) = load[a] - load[b]
    BY <1>2, <2>1, SpreadIsOfTwo
  <2>3. load[a] - load[a] <= Spread(load, pool)
    BY <1>2, <2>1, SpreadIsOfTwo
  <2> QED
    BY <2>2, <2>3
<1> QED
  BY <1>1, <1>2

LEMMA SpreadOfSame ==
  ASSUME NEW f, NEW g, NEW pool, \A a \in pool : f[a] = g[a]
  PROVE  Spread(f, pool) = Spread(g, pool)
<1>1. { f[a] : a \in pool } = { g[a] : a \in pool }
  OBVIOUS
<1> QED
  BY <1>1 DEF Spread

(* One more for an analyst who has least keeps the loads within k of each  *)
(* other.                                                                  *)
LEMMA SpreadWithOneMore ==
  ASSUME NEW load \in [Analysts -> Nat], NEW pool \in SUBSET Analysts,
         NEW k \in Nat, k >= 1, Spread(load, pool) <= k,
         NEW a \in pool, \A b \in pool : load[a] <= load[b]
  PROVE  Spread([load EXCEPT ![a] = @ + 1], pool) <= k
<1> DEFINE more == [load EXCEPT ![a] = @ + 1]
<1>1. /\ more \in [Analysts -> Nat] /\ more[a] = load[a] + 1
      /\ \A b \in pool : b # a => more[b] = load[b]
  OBVIOUS
<1>2. \A b, c \in pool : load[b] - load[c] <= k
  <2>1. \A b, c \in pool : load[b] - load[c] <= Spread(load, pool)
    BY SpreadIsOfTwo
  <2>2. Spread(load, pool) \in Int
    <3>1. PICK b \in pool, c \in pool : Spread(load, pool) = load[b] - load[c]
      BY SpreadIsOfTwo
    <3> QED
      BY <3>1
  <2> QED
    BY <2>1, <2>2
<1> HIDE DEF more
<1>3. ASSUME NEW b \in pool, NEW c \in pool PROVE more[b] - more[c] <= k
  <2>1. load[a] \in Nat /\ load[b] \in Nat /\ load[c] \in Nat
    OBVIOUS
  <2>2. load[b] - load[c] <= k /\ load[a] <= load[c]
    BY <1>2
  <2>3. CASE b = a /\ c = a
    BY <1>1, <2>1, <2>3
  <2>4. CASE b = a /\ c # a
    BY <1>1, <2>1, <2>2, <2>4
  <2>5. CASE b # a /\ c = a
    BY <1>1, <2>1, <2>2, <2>5
  <2>6. CASE b # a /\ c # a
    BY <1>1, <2>1, <2>2, <2>6
  <2> QED
    BY <2>3, <2>4, <2>5, <2>6
<1> QED
  BY <1>1, <1>3, SpreadBound DEF more

-----------------------------------------------------------------------------
(* Numbers of proposals and of runs *)

LEMMA Counted ==
  /\ Cardinality(Proposals) \in Nat /\ Cardinality(Runs) \in Nat
  /\ \A S \in SUBSET Proposals :
       IsFiniteSet(S) /\ Cardinality(S) \in 0 .. Cardinality(Proposals)
  /\ \A S \in SUBSET Runs : IsFiniteSet(S) /\ Cardinality(S) \in 0 .. Cardinality(Runs)
  BY FS_Subset, FS_CardinalityType

LEMMA LoadOfType ==
  /\ \A a \in Analysts : LoadOf(a) \in 0 .. Cardinality(Proposals)
  /\ [a \in Analysts |-> LoadOf(a)] \in [Analysts -> 0 .. Cardinality(Proposals)]
<1>1. ASSUME NEW a \in Analysts PROVE LoadOf(a) \in 0 .. Cardinality(Proposals)
  <2> DEFINE S == { p \in Proposals : Open(p) /\ analyst[p] = a }
  <2>1. S \in SUBSET Proposals
    OBVIOUS
  <2> QED
    BY <2>1, Counted DEF LoadOf
<1> QED
  BY <1>1

-----------------------------------------------------------------------------
(* Triage: what a step makes of the runs *)

RunStep == {"idle", "sla", "soon", "count", "list", "assign"}
Load == [Analysts -> 0 .. 2 * Cardinality(Proposals)]

LEMMA RunType ==
  ASSUME TypeOK, NEW r \in Runs
  PROVE  /\ run[r] \in Run /\ run[r].step \in RunStep
         /\ run[r].todo \in SUBSET Proposals /\ run[r].telling \in SUBSET Proposals
         /\ run[r].dueSeen \in SUBSET Proposals /\ run[r].breachSeen \in SUBSET Proposals
         /\ run[r].pool \in SUBSET Analysts /\ run[r].load \in Load
         /\ run[r].fresh \in SUBSET Proposals /\ run[r].kept \in SUBSET Proposals
         /\ run[r].undisturbed \in BOOLEAN /\ run[r].gap \in 0 .. Cardinality(Proposals)
<1>1. run[r] \in Run
  BY DEF TypeOK
<1> QED
  BY <1>1 DEF Run, RunStep, Load

LEMMA IdleRunType == IdleRun \in Run
<1>1. 0 \in 0 .. 2 * Cardinality(Proposals) /\ 0 \in 0 .. Cardinality(Proposals)
  BY Counted
<1>2. [a \in Analysts |-> 0] \in Load
  BY <1>1 DEF Load
<1> QED
  BY <1>1, <1>2 DEF IdleRun, Run, Load

(* What a step of others leaves of a run. *)
Steady(r) ==
  /\ run'[r].step = run[r].step /\ run'[r].todo = run[r].todo
  /\ run'[r].dueSeen = run[r].dueSeen /\ run'[r].breachSeen = run[r].breachSeen
  /\ run'[r].telling = run[r].telling /\ run'[r].pool = run[r].pool
  /\ run'[r].load = run[r].load /\ run'[r].gap = run[r].gap
  /\ run'[r].kept \subseteq run[r].kept /\ run[r].fresh \subseteq run'[r].fresh
  /\ run'[r].undisturbed => run[r].undisturbed /\ UNCHANGED <<status, analyst>>
  /\ IsAt(r, "assign") =>
       \A p \in Proposals : analyst'[p] = analyst[p] \/ p \in run'[r].fresh

LEMMA SteadyIfSame ==
  ASSUME NEW r, run'[r] = run[r], UNCHANGED <<status, analyst>>
  PROVE  Steady(r)
  BY DEF Steady

LEMMA DisturbedShape ==
  ASSUME TypeOK, NEW assigned \in SUBSET Proposals, NEW moved \in SUBSET Proposals,
         Disturbed(assigned, moved),
         \A p \in Proposals : analyst'[p] = analyst[p] \/ p \in assigned
  PROVE  /\ run' \in [Runs -> Run]
         /\ \A r \in Runs : Steady(r)
<1> DEFINE News(r) == IF IsAt(r, "assign") THEN run[r].fresh \cup assigned ELSE run[r].fresh
           New(r) == [run[r] EXCEPT !.undisturbed = FALSE, !.kept = run[r].kept \ moved,
                                    !.fresh = News(r)]
<1>1. run' = [r \in Runs |-> New(r)]
  BY DEF Disturbed
<1>2. ASSUME NEW r \in Runs
      PROVE  New(r) \in Run /\ Steady(r)
  <2>1. run[r] \in Run /\ News(r) \in SUBSET Proposals /\ run[r].kept \ moved \in SUBSET Proposals
    BY RunType
  <2>2. \A S, T \in SUBSET Proposals :
          [run[r] EXCEPT !.undisturbed = FALSE, !.kept = S, !.fresh = T] \in Run
    BY <2>1 DEF Run
  <2>3. run'[r] = New(r)
    BY <1>1
  <2>4. /\ run'[r].step = run[r].step /\ run'[r].todo = run[r].todo
        /\ run'[r].dueSeen = run[r].dueSeen /\ run'[r].breachSeen = run[r].breachSeen
        /\ run'[r].telling = run[r].telling /\ run'[r].pool = run[r].pool
        /\ run'[r].load = run[r].load /\ run'[r].gap = run[r].gap
        /\ run'[r].kept = run[r].kept \ moved /\ run'[r].fresh = News(r)
        /\ run'[r].undisturbed = FALSE
    BY <2>1, <2>3 DEF Run
  <2> QED
    BY <2>1, <2>2, <2>4 DEF Steady
<1> QED
  BY <1>1, <1>2

(* A step of one run that touches no other: run r becomes x. *)
LEMMA OneRunShape ==
  ASSUME TypeOK, NEW r \in Runs, NEW x \in Run, run' = [run EXCEPT ![r] = x],
         UNCHANGED <<status, analyst>>
  PROVE  /\ run' \in [Runs -> Run] /\ run'[r] = x
         /\ \A s \in Runs : s # r => run'[s] = run[s] /\ Steady(s)
<1>1. \A s \in Runs : s # r => run'[s] = run[s]
  BY DEF TypeOK
<1> QED
  BY <1>1, SteadyIfSame DEF TypeOK

OnlyRun(r) ==
  run' \in [Runs -> Run] /\ \A s \in Runs : s # r => run'[s] = run[s] /\ Steady(s)

LEMMA StartsShape ==
  ASSUME TypeOK, NEW r \in Runs, Starts(r)
  PROVE  /\ OnlyRun(r)
         /\ run'[r].step = "sla" /\ run'[r].telling = {}
         /\ run'[r].todo = { p \in Proposals : Open(p) }
         /\ run'[r].kept = { p \in Proposals : Open(p) }
         /\ run'[r].dueSeen = { p \in Proposals : due[p] # -1 }
         /\ run'[r].breachSeen = { p \in Proposals : breached[p] # -1 }
<1> DEFINE opened == { p \in Proposals : Open(p) }
           dues == { p \in Proposals : due[p] # -1 }
           breaches == { p \in Proposals : breached[p] # -1 }
           x == [ IdleRun EXCEPT !.step = "sla", !.todo = opened, !.kept = opened,
                                 !.dueSeen = dues, !.breachSeen = breaches ]
<1>1. run' = [run EXCEPT ![r] = x] /\ UNCHANGED <<status, analyst>>
  BY DEF Starts, terms
<1>2. opened \in SUBSET Proposals /\ dues \in SUBSET Proposals /\ breaches \in SUBSET Proposals
  OBVIOUS
<1> HIDE DEF opened, dues, breaches
<1>3. x \in Run
  BY <1>2, IdleRunType DEF Run
<1>4. /\ x.step = "sla" /\ x.telling = {} /\ x.todo = opened /\ x.kept = opened
      /\ x.dueSeen = dues /\ x.breachSeen = breaches
  BY DEF IdleRun
<1> HIDE DEF x
<1>5. OnlyRun(r) /\ run'[r] = x
  BY <1>1, <1>3, OneRunShape DEF OnlyRun
<1> QED
  BY <1>4, <1>5 DEF opened, dues, breaches

LEMMA RecalculatesShape ==
  ASSUME TypeOK, NEW r \in Runs, NEW p \in Proposals, Recalculates(r, p)
  PROVE  /\ OnlyRun(r)
         /\ run'[r].step = "sla" /\ run'[r].todo = run[r].todo \ {p}
         /\ run'[r].dueSeen = run[r].dueSeen /\ run'[r].breachSeen = run[r].breachSeen
         /\ run'[r].telling = run[r].telling /\ run'[r].kept = run[r].kept
<1> DEFINE todo == run[r].todo \ {p}
           x == [run[r] EXCEPT !.todo = todo]
<1>1. run' = [run EXCEPT ![r] = x] /\ UNCHANGED <<status, analyst>> /\ run[r].step = "sla"
  BY DEF Recalculates, IsAt
<1>2. run[r] \in Run /\ todo \in SUBSET Proposals
  BY RunType
<1> HIDE DEF todo
<1>3. x \in Run
  BY <1>2 DEF Run
<1>4. /\ x.step = run[r].step /\ x.todo = todo /\ x.telling = run[r].telling
      /\ x.kept = run[r].kept /\ x.dueSeen = run[r].dueSeen
      /\ x.breachSeen = run[r].breachSeen
  BY <1>2 DEF Run
<1> HIDE DEF x
<1>5. OnlyRun(r) /\ run'[r] = x
  BY <1>1, <1>3, OneRunShape DEF OnlyRun
<1> QED
  BY <1>1, <1>4, <1>5 DEF todo

(* A run that ends, or throws, is idle. *)
LEMMA OverShape ==
  ASSUME TypeOK, NEW r \in Runs, Throws(r) \/ Ends(r)
  PROVE  /\ OnlyRun(r)
         /\ run'[r].step = "idle" /\ run'[r].telling = {}
         /\ run'[r].todo = {} /\ run'[r].kept = {}
<1>1. run' = [run EXCEPT ![r] = IdleRun] /\ UNCHANGED <<status, analyst>>
  BY DEF Throws, Ends
<1>2. OnlyRun(r) /\ run'[r] = IdleRun
  BY <1>1, IdleRunType, OneRunShape DEF OnlyRun
<1> QED
  BY <1>2 DEF IdleRun

LEMMA ListsNearingShape ==
  ASSUME TypeOK, NEW r \in Runs, ListsNearing(r)
  PROVE  /\ OnlyRun(r)
         /\ run'[r].step = "soon" /\ run'[r].telling = {} /\ run'[r].kept = run[r].kept
         /\ run'[r].todo = { p \in Proposals : Nears(p) }
<1> DEFINE todo == { p \in Proposals : Nears(p) }
           x == [ IdleRun EXCEPT !.step = "soon", !.kept = run[r].kept, !.todo = todo ]
<1>1. run' = [run EXCEPT ![r] = x] /\ UNCHANGED <<status, analyst>>
  BY DEF ListsNearing
<1>2. run[r].kept \in SUBSET Proposals /\ todo \in SUBSET Proposals
  BY RunType
<1> HIDE DEF todo
<1>3. x \in Run
  BY <1>2, IdleRunType DEF Run
<1>4. x.step = "soon" /\ x.telling = {} /\ x.kept = run[r].kept /\ x.todo = todo
  BY DEF IdleRun
<1> HIDE DEF x
<1>5. OnlyRun(r) /\ run'[r] = x
  BY <1>1, <1>3, OneRunShape DEF OnlyRun
<1> QED
  BY <1>4, <1>5 DEF todo

LEMMA LooksUpShape ==
  ASSUME TypeOK, NEW r \in Runs, NEW p \in Proposals, LooksUp(r, p)
  PROVE  /\ OnlyRun(r)
         /\ run'[r].step = "soon" /\ run'[r].kept = run[r].kept
         /\ run'[r].todo = run[r].todo \ {p}
         /\ run'[r].telling = IF told[p] > 0 THEN {} ELSE {p}
<1> DEFINE todo == run[r].todo \ {p}
           telling == IF told[p] > 0 THEN {} ELSE {p}
           x == [run[r] EXCEPT !.todo = todo, !.telling = telling]
<1>1. /\ run' = [run EXCEPT ![r].todo = todo, ![r].telling = telling]
      /\ UNCHANGED <<status, analyst>> /\ run[r].step = "soon"
  BY DEF LooksUp, IsAt
<1>2. run[r] \in Run /\ todo \in SUBSET Proposals /\ telling \in SUBSET Proposals
  BY RunType
<1> HIDE DEF todo, telling
<1>3. x \in Run
  BY <1>2 DEF Run
<1>4. x.step = run[r].step /\ x.kept = run[r].kept /\ x.todo = todo /\ x.telling = telling
  BY <1>2 DEF Run
<1>5. run' = [run EXCEPT ![r] = x]
  BY <1>1 DEF TypeOK
<1> HIDE DEF x
<1>6. OnlyRun(r) /\ run'[r] = x
  BY <1>1, <1>3, <1>5, OneRunShape DEF OnlyRun
<1> QED
  BY <1>1, <1>4, <1>6 DEF todo, telling

LEMMA WarnsShape ==
  ASSUME TypeOK, NEW r \in Runs, Warns(r)
  PROVE  /\ OnlyRun(r)
         /\ run'[r].step = run[r].step /\ run'[r].kept = run[r].kept
         /\ run'[r].todo = run[r].todo /\ run'[r].telling = {}
         /\ run'[r].dueSeen = run[r].dueSeen /\ run'[r].breachSeen = run[r].breachSeen
<1> DEFINE x == [run[r] EXCEPT !.telling = {}]
<1>1. run' = [run EXCEPT ![r] = x] /\ UNCHANGED <<status, analyst>>
  BY DEF Warns
<1>2. run[r] \in Run
  BY RunType
<1>3. x \in Run
  BY <1>2 DEF Run
<1>4. /\ x.step = run[r].step /\ x.kept = run[r].kept /\ x.todo = run[r].todo
      /\ x.telling = {} /\ x.dueSeen = run[r].dueSeen /\ x.breachSeen = run[r].breachSeen
  BY <1>2 DEF Run
<1> HIDE DEF x
<1>5. OnlyRun(r) /\ run'[r] = x
  BY <1>1, <1>3, OneRunShape DEF OnlyRun
<1> QED
  BY <1>4, <1>5

LEMMA CountsShape ==
  ASSUME TypeOK, NEW r \in Runs, Counts(r)
  PROVE  /\ OnlyRun(r)
         /\ run'[r].step = IF active = {} THEN "idle" ELSE "list"
         /\ run'[r].kept = run[r].kept /\ run'[r].todo = run[r].todo
         /\ run'[r].telling = run[r].telling
         /\ run'[r].pool = active /\ run'[r].load = [a \in Analysts |-> LoadOf(a)]
         /\ run'[r].gap = Spread([a \in Analysts |-> LoadOf(a)], active)
<1> DEFINE step == IF active = {} THEN "idle" ELSE "list"
           load == [a \in Analysts |-> LoadOf(a)]
           gap == Spread(load, active)
           x == [run[r] EXCEPT !.step = step, !.pool = active, !.load = load,
                               !.undisturbed = TRUE, !.gap = gap]
<1>1. /\ run' = [run EXCEPT ![r].step = step, ![r].pool = active, ![r].load = load,
                            ![r].undisturbed = TRUE, ![r].gap = gap]
      /\ UNCHANGED <<status, analyst>>
  BY DEF Counts
<1>2. /\ run[r] \in Run /\ step \in RunStep /\ active \in SUBSET Analysts
      /\ load \in [Analysts -> 0 .. Cardinality(Proposals)] /\ load \in Load
  <2>1. load \in [Analysts -> 0 .. Cardinality(Proposals)]
    BY LoadOfType
  <2>2. load \in Load
    BY <2>1, Counted DEF Load
  <2> QED
    BY <2>1, <2>2, RunType DEF RunStep, TypeOK
<1>3. gap \in 0 .. Cardinality(Proposals)
  <2> HIDE DEF load
  <2> QED
    BY <1>2, Counted, SpreadType
<1> HIDE DEF step, load, gap
<1>4. x \in Run
  BY <1>2, <1>3 DEF Run, RunStep, Load
<1>5. /\ x.step = step /\ x.kept = run[r].kept /\ x.todo = run[r].todo
      /\ x.telling = run[r].telling /\ x.pool = active /\ x.load = load /\ x.gap = gap
  BY <1>2 DEF Run
<1>6. run' = [run EXCEPT ![r] = x]
  BY <1>1 DEF TypeOK
<1> HIDE DEF x
<1>7. OnlyRun(r) /\ run'[r] = x
  BY <1>1, <1>4, <1>6, OneRunShape DEF OnlyRun
<1> QED
  BY <1>5, <1>7 DEF step, load, gap

LEMMA ListsUnassignedShape ==
  ASSUME TypeOK, NEW r \in Runs, ListsUnassigned(r)
  PROVE  /\ OnlyRun(r)
         /\ run'[r].step = "assign" /\ run'[r].todo = ToShare
         /\ run'[r].kept = run[r].kept /\ run'[r].telling = run[r].telling
         /\ run'[r].pool = run[r].pool /\ run'[r].load = run[r].load
         /\ run'[r].gap = run[r].gap /\ run'[r].undisturbed = run[r].undisturbed
<1> DEFINE x == [run[r] EXCEPT !.step = "assign", !.todo = ToShare]
<1>1. /\ run' = [run EXCEPT ![r].step = "assign", ![r].todo = ToShare]
      /\ UNCHANGED <<status, analyst>>
  BY DEF ListsUnassigned
<1>2. run[r] \in Run /\ ToShare \in SUBSET Proposals
  BY RunType DEF ToShare
<1>3. x \in Run
  BY <1>2 DEF Run
<1>4. /\ x.step = "assign" /\ x.todo = ToShare /\ x.kept = run[r].kept
      /\ x.telling = run[r].telling /\ x.pool = run[r].pool /\ x.load = run[r].load
      /\ x.gap = run[r].gap /\ x.undisturbed = run[r].undisturbed
  BY <1>2 DEF Run
<1>5. run' = [run EXCEPT ![r] = x]
  BY <1>1 DEF TypeOK
<1> HIDE DEF x
<1>6. OnlyRun(r) /\ run'[r] = x
  BY <1>1, <1>3, <1>5, OneRunShape DEF OnlyRun
<1> QED
  BY <1>4, <1>6

(* The load that the run counts stays within its type, as each proposal it *)
(* has still to assign is counted once.                                    *)
LEMMA AssignsShape ==
  ASSUME TypeOK, CountIsSound, NEW r \in Runs, NEW p \in Proposals, NEW a \in Analysts,
         Assigns(r, p, a)
  PROVE  /\ run' \in [Runs -> Run] /\ \A s \in Runs : s # r => Steady(s)
         /\ run'[r].step = "assign" /\ run'[r].todo = run[r].todo \ {p}
         /\ run'[r].kept = run[r].kept /\ run'[r].telling = run[r].telling
         /\ run'[r].pool = run[r].pool /\ run'[r].load = LoadWith(r, a)
         /\ run'[r].gap = run[r].gap /\ run'[r].undisturbed = run[r].undisturbed
         /\ run'[r].fresh = run[r].fresh
         /\ \A b \in Analysts :
              run'[r].load[b] + Cardinality(run'[r].todo) <= 2 * Cardinality(Proposals)
<1> DEFINE todo == run[r].todo \ {p}
           load == LoadWith(r, a)
           x == [run[r] EXCEPT !.todo = todo, !.load = load]
           News(s) == IF IsAt(s, "assign") THEN run[s].fresh \cup {p} ELSE run[s].fresh
           Other(s) == [run[s] EXCEPT !.undisturbed = FALSE, !.fresh = News(s)]
<1>1. run' = [s \in Runs |-> IF s = r THEN x ELSE Other(s)]
  BY DEF Assigns
<1>2. /\ IsAt(r, "assign") /\ p \in run[r].todo
      /\ analyst' = [analyst EXCEPT ![p] = a] /\ UNCHANGED status
  BY DEF Assigns
<1>3. todo \in SUBSET Proposals /\ Cardinality(run[r].todo) = Cardinality(todo) + 1
  <2>1. run[r].todo \in SUBSET Proposals
    BY RunType
  <2>2. IsFiniteSet(run[r].todo) /\ Cardinality(run[r].todo) \in Nat
    BY <2>1, Counted, FS_Subset
  <2>3. Cardinality(todo) = Cardinality(run[r].todo) - 1
    BY <1>2, <2>2, FS_RemoveElement
  <2> HIDE DEF todo
  <2>4. todo \in SUBSET Proposals
    BY <2>1 DEF todo
  <2> QED
    BY <2>2, <2>3, <2>4
<1>4. \A b \in Analysts :
        /\ run[r].load[b] \in Nat
        /\ run[r].load[b] + Cardinality(run[r].todo) <= 2 * Cardinality(Proposals)
  <2>1. \A b \in Analysts : run[r].load[b] \in Nat
    BY RunType, Counted DEF Load
  <2> QED
    BY <1>2, <2>1 DEF CountIsSound
<1>5. load = [run[r].load EXCEPT ![a] = @ + 1] /\ run[r].load \in Load
  BY RunType DEF LoadWith
<1>6. \A b \in Analysts :
        /\ load[b] = IF b = a THEN run[r].load[a] + 1 ELSE run[r].load[b]
        /\ load[b] \in Nat /\ load[b] + Cardinality(todo) <= 2 * Cardinality(Proposals)
  <2> HIDE DEF load, todo
  <2>1. \A b \in Analysts : load[b] = IF b = a THEN run[r].load[a] + 1 ELSE run[r].load[b]
    BY <1>5 DEF Load
  <2>2. Cardinality(todo) \in Nat
    BY <1>3, Counted
  <2>3. ASSUME NEW b \in Analysts
        PROVE  load[b] \in Nat /\ load[b] + Cardinality(todo) <= 2 * Cardinality(Proposals)
    <3> DEFINE k == Cardinality(todo)
               n == 2 * Cardinality(Proposals)
               l == run[r].load[b]
    <3>1. k \in Nat /\ l \in Nat /\ n \in Nat /\ l + (k + 1) <= n
      BY <1>3, <1>4, <2>2, Counted
    <3>2. load[b] = l \/ load[b] = l + 1
      BY <2>1
    <3> HIDE DEF k, n, l
    <3>3. load[b] \in Nat /\ load[b] + k <= n
      BY <3>1, <3>2
    <3> QED
      BY <3>3 DEF k, n
  <2> QED
    BY <2>1, <2>3
<1>7. load \in Load
  <2> HIDE DEF load, todo
  <2>1. DOMAIN load = Analysts /\ load = [b \in Analysts |-> load[b]]
    BY <1>5 DEF Load
  <2>2. \A b \in Analysts : load[b] \in 0 .. 2 * Cardinality(Proposals)
    BY <1>3, <1>6, Counted
  <2> QED
    BY <2>1, <2>2 DEF Load
<1> HIDE DEF todo, load
<1>8. x \in Run
  BY <1>3, <1>7, RunType DEF Run, Load
<1>9. /\ x.step = run[r].step /\ x.todo = todo /\ x.kept = run[r].kept
      /\ x.telling = run[r].telling /\ x.pool = run[r].pool /\ x.load = load
      /\ x.gap = run[r].gap /\ x.undisturbed = run[r].undisturbed /\ x.fresh = run[r].fresh
  BY RunType DEF Run
<1> HIDE DEF x
<1>10. ASSUME NEW s \in Runs PROVE Other(s) \in Run
  <2>1. run[s] \in Run /\ News(s) \in SUBSET Proposals
    BY RunType
  <2> HIDE DEF News
  <2> QED
    BY <2>1 DEF Run
<1>11. ASSUME NEW s \in Runs, s # r PROVE Steady(s)
  <2>1. run[s] \in Run /\ run'[s] = Other(s)
    BY <1>1, <1>11, RunType
  <2>2. /\ run'[s].step = run[s].step /\ run'[s].todo = run[s].todo
        /\ run'[s].dueSeen = run[s].dueSeen /\ run'[s].breachSeen = run[s].breachSeen
        /\ run'[s].telling = run[s].telling /\ run'[s].pool = run[s].pool
        /\ run'[s].load = run[s].load /\ run'[s].gap = run[s].gap
        /\ run'[s].kept = run[s].kept /\ run'[s].fresh = News(s)
        /\ run'[s].undisturbed = FALSE
    BY <2>1 DEF Run
  <2>3. \A q \in Proposals : q # p => analyst'[q] = analyst[q]
    BY <1>2 DEF TypeOK
  <2> QED
    BY <2>2, <2>3 DEF Steady
<1>12. run' \in [Runs -> Run] /\ run'[r] = x
  <2> HIDE DEF Other
  <2> QED
    BY <1>1, <1>8, <1>10
<1> QED
  BY <1>2, <1>6, <1>9, <1>11, <1>12 DEF IsAt, todo, load

LEMMA OthersShape ==
  ASSUME TypeOK, Others \/ UNCHANGED vars
  PROVE  /\ run' \in [Runs -> Run] /\ \A r \in Runs : Steady(r)
         /\ UNCHANGED <<told, crossed>>
<1>1. ASSUME NEW p \in Proposals,
             Submits(p) \/ IsErased(p) \/ \E to \in {"UNDER_REVIEW", "other"} : IsMoved(p, to)
      PROVE  /\ run' \in [Runs -> Run] /\ \A r \in Runs : Steady(r)
             /\ UNCHANGED <<told, crossed>>
  <2>1. /\ Disturbed({}, {}) \/ Disturbed({}, {p})
        /\ UNCHANGED <<analyst, told, crossed>>
    BY <1>1 DEF Submits, IsErased, IsMoved
  <2> QED
    BY <2>1, DisturbedShape
<1>2. ASSUME NEW a \in Analysts, IsDeactivated(a)
      PROVE  /\ run' \in [Runs -> Run] /\ \A r \in Runs : Steady(r)
             /\ UNCHANGED <<told, crossed>>
  BY <1>2, DisturbedShape DEF IsDeactivated
<1>3. ASSUME NEW a \in Analysts, NEW ps \in SUBSET Proposals, IsAssigned(ps, a)
      PROVE  /\ run' \in [Runs -> Run] /\ \A r \in Runs : Steady(r)
             /\ UNCHANGED <<told, crossed>>
  <2>1. /\ Disturbed(ps, {}) /\ UNCHANGED <<told, crossed>>
        /\ \A p \in Proposals : analyst'[p] = analyst[p] \/ p \in ps
    BY <1>3 DEF IsAssigned
  <2> QED
    BY <2>1, DisturbedShape
<1>4. ASSUME Ticks \/ UNCHANGED vars
      PROVE  /\ run' \in [Runs -> Run] /\ \A r \in Runs : Steady(r)
             /\ UNCHANGED <<told, crossed>>
  <2>1. UNCHANGED <<run, status, analyst, told, crossed>>
    BY <1>4 DEF Ticks, vars
  <2> QED
    BY <2>1, SteadyIfSame DEF TypeOK
<1> QED
  BY <1>1, <1>2, <1>3, <1>4 DEF Others

(* Every step is one of others, or one of one run. *)
LEMMA StepShape ==
  ASSUME TypeOK, CountIsSound, [Next]_vars
  PROVE  /\ run' \in [Runs -> Run]
         /\ \/ /\ \A s \in Runs : Steady(s)
               /\ Others \/ UNCHANGED vars
            \/ \E r \in Runs : /\ Starts(r) \/ Goes(r)
                              /\ \A s \in Runs : s # r => Steady(s)
<1>1. CASE Others \/ UNCHANGED vars
  BY <1>1, OthersShape
<1>2. ASSUME NEW r \in Runs, Starts(r) \/ Goes(r)
      PROVE  run' \in [Runs -> Run] /\ \A s \in Runs : s # r => Steady(s)
  <2>1. ASSUME NEW p \in Proposals, Recalculates(r, p) \/ LooksUp(r, p)
        PROVE  OnlyRun(r)
    BY <2>1, RecalculatesShape, LooksUpShape
  <2>2. ASSUME NEW p \in Proposals, NEW a \in Analysts, Assigns(r, p, a)
        PROVE  run' \in [Runs -> Run] /\ \A s \in Runs : s # r => Steady(s)
    BY <2>2, AssignsShape
  <2>3. ASSUME \/ Starts(r) \/ Throws(r) \/ Ends(r) \/ ListsNearing(r) \/ Warns(r)
               \/ Counts(r) \/ ListsUnassigned(r)
        PROVE  OnlyRun(r)
    BY <2>3, StartsShape, OverShape, ListsNearingShape, WarnsShape, CountsShape,
       ListsUnassignedShape
  <2> QED
    BY <1>2, <2>1, <2>2, <2>3 DEF Goes, OnlyRun
<1> QED
  BY <1>1, <1>2 DEF Next

-----------------------------------------------------------------------------
(* Triage: the types *)

LEMMA TriageTypeKept ==
  ASSUME TypeOK, TermsAreSound, WarningsAreSound, CountIsSound, [Next]_vars
  PROVE  TypeOK'
<1>1. run' \in [Runs -> Run]
  BY StepShape
<1> DEFINE Rest == /\ now' \in 0 .. MaxNow
                   /\ status' \in [Proposals -> {"none", "other", "gone"} \cup UnderAnalysis]
                   /\ submitted' \in [Proposals -> -1 .. MaxNow]
                   /\ due' \in [Proposals -> -1 .. MaxNow + Term]
                   /\ breached' \in [Proposals -> -1 .. MaxNow]
                   /\ analyst' \in [Proposals -> Analysts \cup {Nobody}]
                   /\ active' \subseteq Analysts
                   /\ told' \in [Proposals -> 0 .. Cardinality(Runs)]
                   /\ crossed' \in BOOLEAN
                   /\ moves' \in 0 .. MaxMoves
<1>2. CASE Others \/ UNCHANGED vars
  <2>1. ASSUME NEW p \in Proposals, Submits(p) PROVE Rest
    BY <2>1 DEF Submits, Moves, TypeOK, UnderAnalysis
  <2>2. ASSUME NEW p \in Proposals, IsErased(p) PROVE Rest
    BY <2>2 DEF IsErased, Moves, TypeOK, terms
  <2>3. ASSUME NEW p \in Proposals, NEW to \in {"UNDER_REVIEW", "other"}, IsMoved(p, to)
        PROVE  Rest
    BY <2>3 DEF IsMoved, Moves, TypeOK, terms, UnderAnalysis
  <2>4. ASSUME NEW a \in Analysts, IsDeactivated(a) PROVE Rest
    BY <2>4 DEF IsDeactivated, Moves, TypeOK, terms
  <2>5. ASSUME NEW a \in Analysts, NEW ps \in SUBSET Proposals, IsAssigned(ps, a) PROVE Rest
    BY <2>5 DEF IsAssigned, Moves, TypeOK, terms
  <2>6. CASE Ticks
    BY <2>6 DEF Ticks, TypeOK, terms
  <2>7. CASE UNCHANGED vars
    BY <2>7 DEF vars, TypeOK
  <2> HIDE DEF Rest
  <2> QED
    BY <1>1, <1>2, <2>1, <2>2, <2>3, <2>4, <2>5, <2>6, <2>7 DEF Others, Rest, TypeOK
<1>3. ASSUME NEW r \in Runs, NEW p \in Proposals, Recalculates(r, p) PROVE Rest
  <2>1. /\ UNCHANGED <<now, status, submitted, analyst, active, told, crossed, moves>>
        /\ now \in 0 .. MaxNow
    BY <1>3 DEF Recalculates, TypeOK
  <2>2. CASE ~MustUpdate(r, p)
    BY <1>3, <2>1, <2>2 DEF Recalculates, TypeOK
  <2>3. CASE MustUpdate(r, p)
    <3>1. DueOf(p) \in -1 .. MaxNow + Term
      BY <1>3, <2>3 DEF Recalculates, There, TermsAreSound, DueOf, TypeOK
    <3>2. due' \in [Proposals -> -1 .. MaxNow + Term]
      BY <1>3, <2>3, <3>1 DEF Recalculates, TypeOK
    <3>3. (IF DueOf(p) < now THEN now ELSE IF p \in run[r].breachSeen THEN breached[p] ELSE -1)
            \in -1 .. MaxNow
      BY <2>1 DEF TypeOK
    <3>4. breached' \in [Proposals -> -1 .. MaxNow]
      BY <1>3, <2>3, <3>3 DEF Recalculates, TypeOK
    <3> QED
      BY <2>1, <3>2, <3>4 DEF TypeOK
  <2> QED
    BY <2>2, <2>3
<1>4. ASSUME NEW r \in Runs, Warns(r) PROVE Rest
  <2>1. PICK p \in run[r].telling : told' = [told EXCEPT ![p] = @ + 1]
    BY <1>4 DEF Warns
  <2>2. p \in Proposals /\ r \in Tellers(p)
    BY <2>1, RunType DEF Tellers
  <2>3. Cardinality(Tellers(p)) >= 1
    BY <2>2, Counted, FS_EmptySet DEF Tellers
  <2>4. told[p] + 1 \in 0 .. Cardinality(Runs)
    <3>1. told[p] + Cardinality(Tellers(p)) <= Cardinality(Runs)
      BY <2>2 DEF WarningsAreSound
    <3>2. Cardinality(Tellers(p)) \in Nat /\ told[p] \in Nat
      BY <2>2, Counted DEF Tellers, TypeOK
    <3> QED
      BY <2>3, <3>1, <3>2, Counted
  <2>5. told' \in [Proposals -> 0 .. Cardinality(Runs)]
    BY <2>1, <2>2, <2>4 DEF TypeOK
  <2> QED
    BY <1>4, <2>5 DEF Warns, TypeOK, terms
<1>5. ASSUME NEW r \in Runs, NEW p \in Proposals, NEW a \in Analysts, Assigns(r, p, a)
      PROVE  Rest
  BY <1>5 DEF Assigns, TypeOK, terms
<1>6. ASSUME NEW r \in Runs,
             \/ Starts(r) \/ Throws(r) \/ Ends(r) \/ ListsNearing(r)
             \/ Counts(r) \/ ListsUnassigned(r) \/ \E p \in Proposals : LooksUp(r, p)
      PROVE  Rest
  <2>1. UNCHANGED <<now, status, terms, analyst, active, told, moves>>
    BY <1>6 DEF Starts, Throws, Ends, ListsNearing, Counts, ListsUnassigned, LooksUp
  <2>2. crossed' \in BOOLEAN
    <3>1. crossed \in BOOLEAN
      BY DEF TypeOK
    <3> QED
      BY <1>6, <3>1 DEF Starts, Throws, Ends, ListsNearing, Counts, ListsUnassigned, LooksUp
  <2> QED
    BY <2>1, <2>2 DEF TypeOK, terms
<1> HIDE DEF Rest
<1>7. Rest
  <2>1. CASE Others \/ UNCHANGED vars
    BY <1>2, <2>1 DEF Rest, TypeOK
  <2>2. ASSUME NEW r \in Runs, Starts(r) \/ Goes(r) PROVE Rest
    BY <1>3, <1>4, <1>5, <1>6, <2>2 DEF Goes
  <2> QED
    BY <2>1, <2>2 DEF Next
<1> QED
  BY <1>1, <1>7 DEF Rest, TypeOK

-----------------------------------------------------------------------------
(* Triage: the terms *)

(* Time stands still while a run is under way; a proposal that was         *)
(* submitted stays so, as of when it was.                                  *)
LEMMA ProposalsMove ==
  ASSUME TypeOK, [Next]_vars
  PROVE  /\ now' = now \/ (now' = now + 1 /\ Busy = {})
         /\ \A p \in Proposals :
              /\ status[p] # "none" => status'[p] # "none" /\ submitted'[p] = submitted[p]
              /\ \/ submitted'[p] = submitted[p]
                 \/ submitted'[p] = now /\ status[p] = "none" /\ status'[p] # "none"
              /\ status'[p] # "none" => status[p] # "none" \/ submitted'[p] = now
<1> DEFINE Fine == /\ now' = now \/ (now' = now + 1 /\ Busy = {})
                   /\ \A p \in Proposals :
                        /\ status[p] # "none" =>
                             status'[p] # "none" /\ submitted'[p] = submitted[p]
                        /\ \/ submitted'[p] = submitted[p]
                           \/ submitted'[p] = now /\ status[p] = "none" /\ status'[p] # "none"
                        /\ status'[p] # "none" => status[p] # "none" \/ submitted'[p] = now
<1>1. ASSUME NEW p \in Proposals, Submits(p) PROVE Fine
  BY <1>1 DEF Submits, TypeOK
<1>2. ASSUME NEW p \in Proposals,
             IsErased(p) \/ \E to \in {"UNDER_REVIEW", "other"} : IsMoved(p, to)
      PROVE  Fine
  BY <1>2 DEF IsErased, IsMoved, There, terms, TypeOK
<1>3. ASSUME Ticks PROVE Fine
  BY <1>3 DEF Ticks, terms
<1>4. ASSUME UNCHANGED <<now, status, submitted>> PROVE Fine
  BY <1>4
<1> HIDE DEF Fine
<1>5. Fine
  <2>1. ASSUME NEW r \in Runs, Starts(r) \/ Goes(r) PROVE UNCHANGED <<now, status, submitted>>
    BY <2>1 DEF Starts, Goes, Throws, ListsNearing, Warns, Counts, ListsUnassigned, Ends,
                Recalculates, LooksUp, Assigns, terms
  <2>2. ASSUME NEW a \in Analysts,
               IsDeactivated(a) \/ \E ps \in SUBSET Proposals : IsAssigned(ps, a)
        PROVE  UNCHANGED <<now, status, submitted>>
    BY <2>2 DEF IsDeactivated, IsAssigned, terms
  <2>3. CASE Others
    BY <1>1, <1>2, <1>3, <1>4, <2>2, <2>3 DEF Others
  <2>4. CASE UNCHANGED vars
    BY <1>4, <2>4 DEF vars
  <2>5. CASE \E r \in Runs : Starts(r) \/ Goes(r)
    BY <1>4, <2>1, <2>5
  <2> QED
    BY <2>3, <2>4, <2>5 DEF Next
<1> QED
  BY <1>5 DEF Fine

(* What a step does to a proposal's term: it is left, or recalculated. *)
LEMMA TermMoves ==
  ASSUME TypeOK, [Next]_vars, NEW p \in Proposals
  PROVE  \/ due'[p] = due[p] /\ breached'[p] = breached[p]
         \/ /\ There(p) /\ UNCHANGED <<now, status, submitted>>
            /\ due'[p] = DueOf(p)
            /\ \/ DueOf(p) < now /\ breached'[p] = now
               \/ ~(DueOf(p) < now) /\ breached'[p] \in {breached[p], -1}
<1> DEFINE Left == due'[p] = due[p] /\ breached'[p] = breached[p]
           Again == /\ There(p) /\ UNCHANGED <<now, status, submitted>>
                    /\ due'[p] = DueOf(p)
                    /\ \/ DueOf(p) < now /\ breached'[p] = now
                       \/ ~(DueOf(p) < now) /\ breached'[p] \in {breached[p], -1}
<1>1. ASSUME NEW r \in Runs, NEW q \in Proposals, Recalculates(r, q) PROVE Left \/ Again
  <2>1. CASE ~MustUpdate(r, q)
    BY <1>1, <2>1 DEF Recalculates
  <2>2. CASE MustUpdate(r, q) /\ q # p
    BY <1>1, <2>2 DEF Recalculates, TypeOK
  <2>3. CASE MustUpdate(r, q) /\ q = p
    BY <1>1, <2>3 DEF Recalculates, TypeOK
  <2> QED
    BY <2>1, <2>2, <2>3
<1>2. ASSUME UNCHANGED <<due, breached>> PROVE Left \/ Again
  BY <1>2
<1> HIDE DEF Left, Again
<1>3. ASSUME NEW r \in Runs, Starts(r) \/ Goes(r)
      PROVE  UNCHANGED <<due, breached>> \/ \E q \in Proposals : Recalculates(r, q)
  BY <1>3 DEF Starts, Goes, Throws, ListsNearing, Warns, Counts, ListsUnassigned, Ends,
              LooksUp, Assigns, terms
<1>4. ASSUME Others \/ UNCHANGED vars PROVE UNCHANGED <<due, breached>>
  BY <1>4 DEF Others, Submits, IsErased, IsMoved, IsDeactivated, IsAssigned, Ticks, vars, terms
<1>5. Left \/ Again
  <2>1. CASE Others \/ UNCHANGED vars
    BY <1>2, <1>4, <2>1
  <2>2. CASE \E r \in Runs : Starts(r) \/ Goes(r)
    <3>1. PICK r \in Runs : Starts(r) \/ Goes(r)
      BY <2>2
    <3>2. CASE UNCHANGED <<due, breached>>
      BY <1>2, <3>2
    <3>3. CASE \E q \in Proposals : Recalculates(r, q)
      BY <1>1, <3>3
    <3> QED
      BY <1>3, <3>1, <3>2, <3>3
  <2> QED
    BY <2>1, <2>2 DEF Next
<1> QED
  BY <1>5 DEF Left, Again

(* A breach on record stays there: only of a term that has not passed is   *)
(* none written, and that has none.                                        *)
LEMMA BreachLasts ==
  ASSUME TypeOK, TermsAreSound, [Next]_vars, NEW p \in Proposals, breached[p] # -1
  PROVE  breached'[p] # -1
<1>1. due[p] = DueOf(p) /\ due[p] < now
  BY DEF TermsAreSound
<1>2. now # -1
  BY DEF TypeOK
<1> QED
  BY <1>1, <1>2, TermMoves

LEMMA TermsKept ==
  ASSUME TypeOK, TermsAreSound, [Next]_vars
  PROVE  TermsAreSound'
<1> SUFFICES ASSUME NEW p \in Proposals
             PROVE  /\ status'[p] # "none" => submitted'[p] # -1
                    /\ due'[p] # -1 => status'[p] # "none" /\ due'[p] = submitted'[p] + Term
                    /\ breached'[p] # -1 => due'[p] # -1 /\ due'[p] < now'
  BY DEF TermsAreSound, DueOf
<1>1. /\ now \in Nat /\ now' \in Nat /\ now' >= now
      /\ submitted[p] \in Int /\ due[p] \in Int
  BY ProposalsMove DEF TypeOK
<1>2. /\ status[p] # "none" => submitted[p] # -1 /\ submitted[p] \in Nat
      /\ due[p] # -1 => status[p] # "none" /\ due[p] = submitted[p] + Term
      /\ breached[p] # -1 => due[p] # -1 /\ due[p] < now
  BY DEF TermsAreSound, DueOf, TypeOK
<1>3. status'[p] # "none" => submitted'[p] # -1
  BY <1>1, <1>2, ProposalsMove
<1>4. CASE due'[p] = due[p] /\ breached'[p] = breached[p]
  <2>1. due'[p] # -1 => status'[p] # "none" /\ due'[p] = submitted'[p] + Term
    BY <1>2, <1>4, ProposalsMove
  <2>2. breached'[p] # -1 => due'[p] # -1 /\ due'[p] < now'
    BY <1>1, <1>2, <1>4
  <2> QED
    BY <1>3, <2>1, <2>2
<1>5. ASSUME There(p), UNCHANGED <<now, status, submitted>>, due'[p] = DueOf(p),
             \/ DueOf(p) < now /\ breached'[p] = now
             \/ ~(DueOf(p) < now) /\ breached'[p] \in {breached[p], -1}
      PROVE  /\ due'[p] # -1 => status'[p] # "none" /\ due'[p] = submitted'[p] + Term
             /\ breached'[p] # -1 => due'[p] # -1 /\ due'[p] < now'
  <2>1. status[p] # "none" /\ submitted[p] \in Nat /\ DueOf(p) = submitted[p] + Term
    BY <1>2, <1>5 DEF There, DueOf
  <2>2. DueOf(p) \in Nat
    BY <2>1
  <2>3. ~(DueOf(p) < now) => breached'[p] = -1
    BY <1>2, <1>5, <2>1
  <2> QED
    BY <1>5, <2>1, <2>2, <2>3
<1> QED
  BY <1>3, <1>4, <1>5, TermMoves

(* One of the three choices shows a proposal, and no other. *)
LEMMA FilterHolds ==
  ASSUME TypeOK, TermsAreSound
  PROVE  OneFilterShows
<1> SUFFICES ASSUME NEW p \in Proposals
             PROVE  Cardinality({ f \in {"BREACHED", "DUE_SOON", "OK"} :
                      \/ f = "BREACHED" /\ InBreached(p)
                      \/ f = "DUE_SOON" /\ InDueSoon(p)
                      \/ f = "OK" /\ InOk(p) }) = 1
  BY DEF OneFilterShows
<1> DEFINE Shows == { f \in {"BREACHED", "DUE_SOON", "OK"} :
                      \/ f = "BREACHED" /\ InBreached(p)
                      \/ f = "DUE_SOON" /\ InDueSoon(p)
                      \/ f = "OK" /\ InOk(p) }
<1>1. /\ now \in Nat /\ due[p] \in Int /\ Soon \in Nat /\ breached[p] \in Int
      /\ breached[p] # -1 => due[p] # -1 /\ due[p] < now
  BY DEF TypeOK, TermsAreSound
<1>2. \/ InBreached(p) /\ ~InDueSoon(p) /\ ~InOk(p)
      \/ ~InBreached(p) /\ InDueSoon(p) /\ ~InOk(p)
      \/ ~InBreached(p) /\ ~InDueSoon(p) /\ InOk(p)
  BY <1>1 DEF InBreached, InDueSoon, InOk
<1>3. Shows = {"BREACHED"} \/ Shows = {"DUE_SOON"} \/ Shows = {"OK"}
  BY <1>2
<1> HIDE DEF Shows
<1>4. Cardinality(Shows) = 1
  BY <1>3, FS_Singleton
<1> QED
  BY <1>4 DEF Shows

-----------------------------------------------------------------------------
(* Triage: the recalculation *)

LEMMA BusyRunsHoldTime ==
  ASSUME TypeOK, [Next]_vars, NEW r \in Runs, run[r].step # "idle"
  PROVE  now' = now
  BY ProposalsMove DEF Busy

(* What is overdue after a step during a run was so before it. *)
LEMMA OverdueBefore ==
  ASSUME TypeOK, [Next]_vars, NEW r \in Runs, run[r].step # "idle",
         NEW p \in Proposals, status[p] # "none", Overdue(p)'
  PROVE  Overdue(p)
  BY BusyRunsHoldTime, ProposalsMove DEF Overdue

RecalculationOf(r) ==
  /\ \A p \in run[r].todo \cup run[r].kept : status[p] # "none"
  /\ IsAt(r, "sla") =>
       /\ \A p \in run[r].breachSeen : p \in run[r].dueSeen /\ breached[p] # -1
       /\ \A p \in run[r].kept \ run[r].todo : Overdue(p) => breached[p] # -1

(* A run that works on part of what it did, if anything, past its phase.   *)
LEMMA RecalculationOver ==
  ASSUME TypeOK, RecalculationIsSound, [Next]_vars, NEW r \in Runs,
         run'[r].todo \cup run'[r].kept \subseteq
           { p \in Proposals : status[p] # "none" },
         run'[r].step # "sla"
  PROVE  RecalculationOf(r)'
<1>1. \A p \in run'[r].todo \cup run'[r].kept : status'[p] # "none"
  BY ProposalsMove
<1> QED
  BY <1>1 DEF RecalculationOf, IsAt

LEMMA RecalculationKept ==
  ASSUME TypeOK, TermsAreSound, RecalculationIsSound, CountIsSound, [Next]_vars
  PROVE  RecalculationIsSound'
<1> SUFFICES ASSUME NEW r \in Runs PROVE RecalculationOf(r)'
  BY DEF RecalculationIsSound, RecalculationOf
<1>0. /\ run[r].todo \in SUBSET Proposals /\ run[r].kept \in SUBSET Proposals
      /\ run[r].breachSeen \in SUBSET Proposals
      /\ RecalculationOf(r)
      /\ \A p \in run[r].todo \cup run[r].kept : status[p] # "none"
  BY RunType DEF RecalculationIsSound, RecalculationOf
<1>1. CASE Steady(r)
  <2>1. \A p \in run'[r].todo \cup run'[r].kept : status'[p] # "none"
    BY <1>0, <1>1, ProposalsMove DEF Steady
  <2>2. ASSUME IsAt(r, "sla")', NEW p \in run'[r].breachSeen
        PROVE  p \in run'[r].dueSeen /\ breached'[p] # -1
    <3>1. p \in Proposals /\ p \in run[r].dueSeen /\ breached[p] # -1
      BY <1>0, <1>1, <2>2 DEF Steady, IsAt, RecalculationOf
    <3> QED
      BY <1>1, <3>1, BreachLasts DEF Steady
  <2>3. ASSUME IsAt(r, "sla")', NEW p \in run'[r].kept \ run'[r].todo, Overdue(p)'
        PROVE  breached'[p] # -1
    <3>1. p \in Proposals /\ p \in run[r].kept \ run[r].todo /\ IsAt(r, "sla")
      BY <1>0, <1>1, <2>3 DEF Steady, IsAt
    <3>2. Overdue(p)
      BY <1>0, <2>3, <3>1, OverdueBefore DEF IsAt
    <3>3. breached[p] # -1
      BY <1>0, <3>1, <3>2 DEF RecalculationOf
    <3> QED
      BY <3>1, <3>3, BreachLasts
  <2> QED
    BY <2>1, <2>2, <2>3 DEF RecalculationOf
<1>2. CASE Starts(r)
  <2>1. \A p \in Proposals : Open(p) => status[p] # "none"
    BY DEF Open, UnderAnalysis
  <2>2. \A p \in run'[r].todo \cup run'[r].kept : status'[p] # "none"
    BY <1>2, <2>1, StartsShape, ProposalsMove
  <2>3. \A p \in run'[r].breachSeen : p \in run'[r].dueSeen /\ breached'[p] # -1
    BY <1>2, StartsShape, BreachLasts DEF TermsAreSound
  <2> QED
    BY <1>2, <2>2, <2>3, StartsShape DEF RecalculationOf
<1>3. ASSUME NEW q \in Proposals, Recalculates(r, q) PROVE RecalculationOf(r)'
  <2>1. /\ run'[r].step = "sla" /\ run'[r].todo = run[r].todo \ {q}
        /\ run'[r].dueSeen = run[r].dueSeen /\ run'[r].breachSeen = run[r].breachSeen
        /\ run'[r].kept = run[r].kept
    BY <1>3, RecalculatesShape
  <2>2. IsAt(r, "sla") /\ UNCHANGED <<now, status, submitted>>
    BY <1>3 DEF Recalculates
  <2>3. \A p \in run'[r].todo \cup run'[r].kept : status'[p] # "none"
    BY <1>0, <2>1, <2>2
  <2>4. \A p \in run'[r].breachSeen : p \in run'[r].dueSeen /\ breached'[p] # -1
    BY <1>0, <2>1, <2>2, BreachLasts DEF RecalculationOf
  <2>5. ASSUME NEW p \in run'[r].kept \ run'[r].todo, Overdue(p)' PROVE breached'[p] # -1
    <3>1. p \in Proposals /\ p \in run[r].kept /\ Overdue(p)
      BY <1>0, <2>1, <2>2, <2>5 DEF Overdue
    <3>2. CASE p # q
      BY <1>0, <2>1, <2>2, <2>5, <3>1, <3>2, BreachLasts DEF RecalculationOf
    <3>3. CASE p = q /\ MustUpdate(r, q)
      <4>1. breached'[p] = now
        BY <1>3, <3>1, <3>3 DEF Recalculates, Overdue, DueOf, TypeOK
      <4> QED
        BY <4>1 DEF TypeOK
    <3>4. CASE p = q /\ ~MustUpdate(r, q)
      <4>1. breached[p] # -1
        BY <1>0, <2>2, <3>1, <3>4 DEF MustUpdate, Overdue, DueOf, RecalculationOf
      <4> QED
        BY <3>1, <4>1, BreachLasts
    <3> QED
      BY <3>2, <3>3, <3>4
  <2> QED
    BY <2>3, <2>4, <2>5 DEF RecalculationOf
<1>4. CASE Throws(r) \/ Ends(r)
  BY <1>4, OverShape, RecalculationOver
<1>5. CASE ListsNearing(r)
  <2>1. \A p \in Proposals : Nears(p) => status[p] # "none"
    BY DEF Nears, Open, UnderAnalysis
  <2> QED
    BY <1>0, <1>5, <2>1, ListsNearingShape, RecalculationOver
<1>6. ASSUME NEW p \in Proposals, LooksUp(r, p) PROVE RecalculationOf(r)'
  BY <1>0, <1>6, LooksUpShape, RecalculationOver
<1>7. CASE Counts(r)
  BY <1>0, <1>7, CountsShape, RecalculationOver
<1>8. CASE ListsUnassigned(r)
  <2>1. \A p \in ToShare : p \in Proposals /\ status[p] # "none"
    BY DEF ToShare
  <2> QED
    BY <1>0, <1>8, <2>1, ListsUnassignedShape, RecalculationOver
<1>9. ASSUME NEW p \in Proposals, NEW a \in Analysts, Assigns(r, p, a)
      PROVE  RecalculationOf(r)'
  BY <1>0, <1>9, AssignsShape, RecalculationOver
<1>10. CASE Warns(r)
  <2>1. /\ UNCHANGED <<now, status, submitted, breached>> /\ run'[r].step = run[r].step
        /\ run'[r].kept = run[r].kept /\ run'[r].todo = run[r].todo
        /\ run'[r].dueSeen = run[r].dueSeen /\ run'[r].breachSeen = run[r].breachSeen
    BY <1>10, WarnsShape DEF Warns, terms
  <2> QED
    BY <1>0, <2>1 DEF RecalculationOf, IsAt, Overdue
<1> QED
  BY <1>1, <1>2, <1>3, <1>4, <1>5, <1>6, <1>7, <1>8, <1>9, <1>10, StepShape DEF Goes

LEMMA BreachesKept ==
  ASSUME TypeOK, TermsAreSound, RecalculationIsSound, CountIsSound, BreachIsRecorded,
         [Next]_vars
  PROVE  BreachIsRecorded'
<1> SUFFICES ASSUME NEW r \in Runs, NEW p \in Proposals,
                    run'[r].step \notin {"idle", "sla"}, p \in run'[r].kept, Overdue(p)'
             PROVE  breached'[p] # -1
  BY DEF BreachIsRecorded
<1>1. \A q \in run[r].kept : status[q] # "none"
  BY DEF RecalculationIsSound
<1>2. ASSUME run[r].step \notin {"idle", "sla"}, p \in run[r].kept PROVE breached'[p] # -1
  <2>1. Overdue(p)
    BY <1>1, <1>2, OverdueBefore
  <2> QED
    BY <1>2, <2>1, BreachLasts DEF BreachIsRecorded
<1>3. CASE Steady(r)
  BY <1>2, <1>3 DEF Steady
<1>4. CASE ListsNearing(r)
  <2>1. run[r].step = "sla" /\ run[r].todo = {} /\ p \in run[r].kept
    BY <1>4, ListsNearingShape DEF ListsNearing, IsAt
  <2>2. Overdue(p)
    BY <1>1, <2>1, OverdueBefore
  <2>3. breached[p] # -1
    BY <2>1, <2>2 DEF RecalculationIsSound, IsAt
  <2> QED
    BY <2>3, BreachLasts
<1>5. ~Starts(r) /\ ~Throws(r) /\ ~Ends(r) /\ \A q \in Proposals : ~Recalculates(r, q)
  BY StartsShape, OverShape, RecalculatesShape
<1>6. ASSUME \/ Warns(r) \/ Counts(r) \/ ListsUnassigned(r)
             \/ \E q \in Proposals : LooksUp(r, q) \/ \E a \in Analysts : Assigns(r, q, a)
      PROVE  run[r].step \notin {"idle", "sla"} /\ p \in run[r].kept
  <2>1. CASE Warns(r)
    BY <2>1, WarnsShape
  <2>2. CASE Counts(r)
    BY <2>2, CountsShape DEF Counts, IsAt
  <2>3. CASE ListsUnassigned(r)
    BY <2>3, ListsUnassignedShape DEF ListsUnassigned, IsAt
  <2>4. ASSUME NEW q \in Proposals, LooksUp(r, q)
        PROVE  run[r].step \notin {"idle", "sla"} /\ p \in run[r].kept
    BY <2>4, LooksUpShape DEF LooksUp, IsAt
  <2>5. ASSUME NEW q \in Proposals, NEW a \in Analysts, Assigns(r, q, a)
        PROVE  run[r].step \notin {"idle", "sla"} /\ p \in run[r].kept
    BY <2>5, AssignsShape DEF Assigns, IsAt
  <2> QED
    BY <1>6, <2>1, <2>2, <2>3, <2>4, <2>5
<1> QED
  BY <1>2, <1>3, <1>4, <1>5, <1>6, StepShape DEF Goes

-----------------------------------------------------------------------------
(* Triage: the warnings *)

(* Where nobody is newly busy or newly warning, and nothing was written.   *)
LEMMA WarningsLeft ==
  ASSUME TypeOK, WarningsAreSound, run' \in [Runs -> Run], UNCHANGED <<told, crossed>>,
         \A r \in Runs : /\ run'[r].telling # {} => run'[r].telling = run[r].telling
                                                    /\ run'[r].step = run[r].step
                         /\ run[r].step = "idle" => run'[r].step = "idle"
  PROVE  WarningsAreSound'
<1>1. Busy' \subseteq Busy
  BY DEF Busy
<1>2. ASSUME NEW p \in Proposals
      PROVE  told'[p] + Cardinality(Tellers(p)') <= Cardinality(Runs)
  <2>1. Tellers(p)' \in SUBSET Tellers(p) /\ Tellers(p) \in SUBSET Runs
    BY DEF Tellers
  <2>2. /\ Cardinality(Tellers(p)') \in Nat /\ Cardinality(Tellers(p)) \in Nat
        /\ Cardinality(Tellers(p)') <= Cardinality(Tellers(p))
    <3>1. IsFiniteSet(Tellers(p)) /\ Tellers(p)' \in SUBSET Runs
      BY <2>1, Counted
    <3> QED
      BY <2>1, <3>1, Counted, FS_Subset
  <2>3. told[p] + Cardinality(Tellers(p)) <= Cardinality(Runs) /\ told[p] \in Nat
    BY DEF WarningsAreSound, TypeOK
  <2> QED
    BY <2>2, <2>3, Counted
<1>3. \A r \in Runs : run'[r].telling # {} => run'[r].step = "soon"
  BY DEF WarningsAreSound, IsAt
<1>4. \A r \in Runs : \A p, q \in run'[r].telling : p = q
  BY DEF WarningsAreSound
<1>5. ~crossed => /\ \A r, s \in Busy' : r = s
                  /\ \A r \in Runs : \A p \in run'[r].telling : told[p] = 0
  BY <1>1 DEF WarningsAreSound
<1> QED
  BY <1>2, <1>3, <1>4, <1>5 DEF WarningsAreSound, IsAt

LEMMA LooksUpWarning ==
  ASSUME TypeOK, WarningsAreSound, NEW r \in Runs, NEW p \in Proposals, LooksUp(r, p)
  PROVE  WarningsAreSound'
<1>1. /\ run' \in [Runs -> Run] /\ \A s \in Runs : s # r => run'[s] = run[s]
      /\ run'[r].step = "soon" /\ run[r].step = "soon"
      /\ run'[r].telling = IF told[p] > 0 THEN {} ELSE {p}
      /\ UNCHANGED <<told, crossed>>
  BY LooksUpShape DEF OnlyRun, LooksUp, IsAt
<1>2. CASE told[p] > 0
  BY <1>1, <1>2, WarningsLeft
<1>3. CASE ~(told[p] > 0)
  <2>1. told[p] = 0 /\ run'[r].telling = {p}
    BY <1>1, <1>3 DEF TypeOK
  <2>2. Busy' = Busy
    BY <1>1 DEF Busy
  <2>3. ASSUME NEW q \in Proposals
        PROVE  told'[q] + Cardinality(Tellers(q)') <= Cardinality(Runs)
    <3>1. CASE q = p
      <4>1. Tellers(p)' \in SUBSET Runs
        BY DEF Tellers
      <4>2. Cardinality(Tellers(p)') \in 0 .. Cardinality(Runs)
        BY <4>1, Counted
      <4> QED
        BY <1>1, <2>1, <3>1, <4>2, Counted
    <3>2. CASE q # p
      <4>1. Tellers(q)' \in SUBSET Tellers(q) /\ Tellers(q) \in SUBSET Runs
        BY <1>1, <2>1, <3>2 DEF Tellers
      <4>2. IsFiniteSet(Tellers(q)) /\ Tellers(q)' \in SUBSET Runs
        BY <4>1, Counted
      <4>3. /\ Cardinality(Tellers(q)') \in Nat /\ Cardinality(Tellers(q)) \in Nat
            /\ Cardinality(Tellers(q)') <= Cardinality(Tellers(q))
        BY <4>1, <4>2, Counted, FS_Subset
      <4>4. told[q] + Cardinality(Tellers(q)) <= Cardinality(Runs) /\ told[q] \in Nat
        BY DEF WarningsAreSound, TypeOK
      <4> QED
        BY <1>1, <4>3, <4>4, Counted
    <3> QED
      BY <3>1, <3>2
  <2>4. \A s \in Runs : run'[s].telling # {} => run'[s].step = "soon"
    BY <1>1 DEF WarningsAreSound, IsAt
  <2>5. \A s \in Runs : \A q, u \in run'[s].telling : q = u
    BY <1>1, <2>1 DEF WarningsAreSound
  <2>6. ~crossed => /\ \A s, t \in Busy' : s = t
                    /\ \A s \in Runs : \A q \in run'[s].telling : told[q] = 0
    BY <1>1, <2>1, <2>2 DEF WarningsAreSound
  <2> QED
    BY <1>1, <2>3, <2>4, <2>5, <2>6 DEF WarningsAreSound, IsAt
<1> QED
  BY <1>2, <1>3

(* A warning is written: by one run, of one proposal, for the first time   *)
(* unless runs have crossed.                                               *)
LEMMA WarnsWarning ==
  ASSUME TypeOK, WarningsAreSound, WarnedOnce, NEW r \in Runs, Warns(r)
  PROVE  WarningsAreSound' /\ WarnedOnce'
<1>1. PICK p \in run[r].telling : told' = [told EXCEPT ![p] = @ + 1]
  BY DEF Warns
<1>2. /\ run' \in [Runs -> Run] /\ \A s \in Runs : s # r => run'[s] = run[s]
      /\ run'[r].step = run[r].step /\ run'[r].telling = {} /\ UNCHANGED crossed
  BY WarnsShape DEF OnlyRun, Warns
<1>3. /\ p \in Proposals /\ run[r].telling = {p} /\ run[r].step = "soon"
      /\ told[p] \in Nat /\ told'[p] = told[p] + 1
      /\ \A q \in Proposals : q # p => told'[q] = told[q]
  <2>1. p \in Proposals
    BY <1>1, RunType
  <2> QED
    BY <1>1, <2>1 DEF WarningsAreSound, IsAt, TypeOK
<1>4. Busy' = Busy /\ r \in Busy
  BY <1>2, <1>3 DEF Busy
<1>5. ~crossed => told[p] = 0 /\ \A s \in Runs : run'[s].telling = {}
  <2>1. ASSUME ~crossed, NEW s \in Runs, run'[s].telling # {} PROVE FALSE
    <3>1. s # r /\ s \in Busy
      BY <1>2, <2>1 DEF WarningsAreSound, IsAt, Busy
    <3> QED
      BY <1>4, <2>1, <3>1 DEF WarningsAreSound
  <2> QED
    BY <1>1, <2>1 DEF WarningsAreSound
<1>6. WarnedOnce'
  <2>1. ASSUME NEW q \in Proposals, told'[q] > 1 PROVE crossed
    BY <1>3, <1>5, <2>1 DEF WarnedOnce
  <2> QED
    BY <1>2, <2>1 DEF WarnedOnce
<1>7. ASSUME NEW q \in Proposals
      PROVE  told'[q] + Cardinality(Tellers(q)') <= Cardinality(Runs)
  <2>1. Tellers(q) \in SUBSET Runs /\ Tellers(q)' = Tellers(q) \ {r}
    BY <1>2 DEF Tellers
  <2>2. IsFiniteSet(Tellers(q)) /\ Cardinality(Tellers(q)) \in Nat
    BY <2>1, Counted
  <2>3. Cardinality(Tellers(q)') =
          IF r \in Tellers(q) THEN Cardinality(Tellers(q)) - 1 ELSE Cardinality(Tellers(q))
    BY <2>1, <2>2, FS_RemoveElement
  <2>4. told[q] + Cardinality(Tellers(q)) <= Cardinality(Runs) /\ told[q] \in Nat
    BY DEF WarningsAreSound, TypeOK
  <2>5. q = p => r \in Tellers(q)
    BY <1>3 DEF Tellers
  <2> HIDE DEF Tellers
  <2>6. CASE q = p
    BY <1>3, <2>2, <2>3, <2>4, <2>5, <2>6, Counted
  <2>7. CASE q # p
    BY <1>3, <2>2, <2>3, <2>4, <2>7, Counted
  <2> QED
    BY <2>6, <2>7
<1>8. \A s \in Runs : run'[s].telling # {} => run'[s].step = "soon"
  BY <1>2 DEF WarningsAreSound, IsAt
<1>9. \A s \in Runs : \A q, u \in run'[s].telling : q = u
  BY <1>2 DEF WarningsAreSound
<1>10. ~crossed => \A s, t \in Busy' : s = t
  BY <1>4 DEF WarningsAreSound
<1>11. WarningsAreSound'
  BY <1>2, <1>5, <1>7, <1>8, <1>9, <1>10 DEF WarningsAreSound, IsAt
<1> QED
  BY <1>6, <1>11

(* A run that starts is the only one, or runs have crossed. *)
LEMMA StartsWarning ==
  ASSUME TypeOK, WarningsAreSound, NEW r \in Runs, Starts(r)
  PROVE  WarningsAreSound'
<1>1. /\ run' \in [Runs -> Run] /\ \A s \in Runs : s # r => run'[s] = run[s]
      /\ run'[r].step = "sla" /\ run'[r].telling = {} /\ UNCHANGED told
      /\ crossed' = (crossed \/ Busy # {})
  BY StartsShape DEF OnlyRun, Starts
<1>2. run[r].telling = {}
  BY DEF Starts, WarningsAreSound, IsAt
<1>3. \A q \in Proposals : Tellers(q)' = Tellers(q)
  BY <1>1, <1>2 DEF Tellers
<1>4. ~crossed' => ~crossed /\ Busy = {} /\ Busy' = {r}
  BY <1>1 DEF Busy
<1>5. \A s \in Runs : run'[s].telling = run[s].telling /\ (run'[s].telling # {} => s # r)
  BY <1>1, <1>2
<1> QED
  BY <1>1, <1>3, <1>4, <1>5 DEF WarningsAreSound, IsAt

LEMMA WarningsKept ==
  ASSUME TypeOK, CountIsSound, WarningsAreSound, WarnedOnce, [Next]_vars
  PROVE  WarningsAreSound' /\ WarnedOnce'
<1>1. ASSUME UNCHANGED <<told, crossed>> PROVE WarnedOnce'
  BY <1>1 DEF WarnedOnce
<1>2. CASE Others \/ UNCHANGED vars
  <2>1. run' \in [Runs -> Run] /\ \A r \in Runs : Steady(r) /\ UNCHANGED <<told, crossed>>
    BY <1>2, OthersShape
  <2>2. UNCHANGED <<told, crossed>>
    BY <1>2, OthersShape
  <2> QED
    BY <1>1, <2>1, <2>2, WarningsLeft DEF Steady
<1>3. ASSUME NEW r \in Runs, Starts(r) PROVE WarningsAreSound' /\ WarnedOnce'
  <2>1. WarnedOnce'
    BY <1>3 DEF Starts, WarnedOnce
  <2> QED
    BY <1>3, <2>1, StartsWarning
<1>4. ASSUME NEW r \in Runs, run' \in [Runs -> Run], \A s \in Runs : s # r => Steady(s),
             run'[r].telling = {}, run[r].step # "idle", UNCHANGED <<told, crossed>>
      PROVE  WarningsAreSound' /\ WarnedOnce'
  <2>1. \A s \in Runs : /\ run'[s].telling # {} => run'[s].telling = run[s].telling
                                                   /\ run'[s].step = run[s].step
                        /\ run[s].step = "idle" => run'[s].step = "idle"
    BY <1>4 DEF Steady
  <2> QED
    BY <1>1, <1>4, <2>1, WarningsLeft
<1>5. \A r \in Runs : run[r].step # "soon" => run[r].telling = {}
  BY DEF WarningsAreSound, IsAt
<1>6. ASSUME NEW r \in Runs, Throws(r) \/ Ends(r) PROVE WarningsAreSound' /\ WarnedOnce'
  <2>1. run[r].step # "idle" /\ UNCHANGED <<told, crossed>>
    BY <1>5, <1>6 DEF Throws, Ends, IsAt
  <2> QED
    BY <1>4, <1>6, <2>1, OverShape DEF OnlyRun
<1>7. ASSUME NEW r \in Runs, ListsNearing(r) PROVE WarningsAreSound' /\ WarnedOnce'
  <2>1. run[r].step # "idle" /\ UNCHANGED <<told, crossed>>
    BY <1>7 DEF ListsNearing, IsAt
  <2> QED
    BY <1>4, <1>7, <2>1, ListsNearingShape DEF OnlyRun
<1>8. ASSUME NEW r \in Runs, Counts(r) PROVE WarningsAreSound' /\ WarnedOnce'
  <2>1. run[r].step # "idle" /\ run[r].telling = {} /\ UNCHANGED <<told, crossed>>
    BY <1>8 DEF Counts, IsAt
  <2> QED
    BY <1>4, <1>8, <2>1, CountsShape DEF OnlyRun
<1>9. ASSUME NEW r \in Runs, ListsUnassigned(r) PROVE WarningsAreSound' /\ WarnedOnce'
  <2>1. run[r].step # "idle" /\ run[r].telling = {} /\ UNCHANGED <<told, crossed>>
    BY <1>5, <1>9 DEF ListsUnassigned, IsAt
  <2> QED
    BY <1>4, <1>9, <2>1, ListsUnassignedShape DEF OnlyRun
<1>10. ASSUME NEW r \in Runs, NEW p \in Proposals, Recalculates(r, p)
       PROVE  WarningsAreSound' /\ WarnedOnce'
  <2>1. run[r].step # "idle" /\ run[r].telling = {} /\ UNCHANGED <<told, crossed>>
    BY <1>5, <1>10 DEF Recalculates, IsAt
  <2> QED
    BY <1>4, <1>10, <2>1, RecalculatesShape DEF OnlyRun
<1>11. ASSUME NEW r \in Runs, NEW p \in Proposals, NEW a \in Analysts, Assigns(r, p, a)
       PROVE  WarningsAreSound' /\ WarnedOnce'
  <2>1. run[r].step # "idle" /\ run[r].telling = {} /\ UNCHANGED <<told, crossed>>
    BY <1>5, <1>11 DEF Assigns, IsAt
  <2> QED
    BY <1>4, <1>11, <2>1, AssignsShape
<1>12. ASSUME NEW r \in Runs, NEW p \in Proposals, LooksUp(r, p)
       PROVE  WarningsAreSound' /\ WarnedOnce'
  <2>1. WarnedOnce'
    BY <1>1, <1>12 DEF LooksUp
  <2> QED
    BY <1>12, <2>1, LooksUpWarning
<1>13. ASSUME NEW r \in Runs, Warns(r) PROVE WarningsAreSound' /\ WarnedOnce'
  BY <1>13, WarnsWarning
<1>14. ASSUME NEW r \in Runs, Goes(r) PROVE WarningsAreSound' /\ WarnedOnce'
  BY <1>6, <1>7, <1>8, <1>9, <1>10, <1>11, <1>12, <1>13, <1>14 DEF Goes
<1> QED
  BY <1>2, <1>3, <1>14 DEF Next

-----------------------------------------------------------------------------
(* Triage: the loads *)

CountOf(r) ==
  /\ IsAt(r, "list") => \A a \in Analysts : run[r].load[a] <= Cardinality(Proposals)
  /\ IsAt(r, "assign") => \A a \in Analysts :
       run[r].load[a] + Cardinality(run[r].todo) <= 2 * Cardinality(Proposals)
  /\ run[r].step \in {"list", "assign"} /\ run[r].undisturbed =>
       /\ \A a \in Analysts : run[r].load[a] = LoadOf(a)
       /\ Spread(run[r].load, run[r].pool) <= Max({1, run[r].gap})
  /\ IsAt(r, "assign") => \A p \in run[r].todo :
       /\ analyst[p] = Nobody \/ p \in run[r].fresh
       /\ run[r].undisturbed => Open(p) /\ analyst[p] = Nobody

LEMMA CountOfSteady ==
  ASSUME TypeOK, NEW r \in Runs, CountOf(r), Steady(r)
  PROVE  CountOf(r)'
<1>1. /\ IsAt(r, "list")' = IsAt(r, "list") /\ IsAt(r, "assign")' = IsAt(r, "assign")
      /\ run'[r].step = run[r].step /\ run'[r].todo = run[r].todo
      /\ run'[r].load = run[r].load /\ run'[r].pool = run[r].pool /\ run'[r].gap = run[r].gap
      /\ run[r].todo \in SUBSET Proposals
  BY RunType DEF Steady, IsAt
<1>2. ASSUME run'[r].undisturbed
      PROVE  /\ run[r].undisturbed /\ \A a \in Analysts : LoadOf(a)' = LoadOf(a)
             /\ \A p \in Proposals : Open(p)' = Open(p) /\ analyst'[p] = analyst[p]
  BY <1>2 DEF Steady, LoadOf, Open
<1>3. run[r].step \in {"list", "assign"} /\ run'[r].undisturbed =>
        /\ \A a \in Analysts : run[r].load[a] = LoadOf(a)'
        /\ Spread(run[r].load, run[r].pool) <= Max({1, run[r].gap})
  BY <1>2 DEF CountOf
<1>4. IsAt(r, "assign") => \A p \in run[r].todo :
        /\ analyst'[p] = Nobody \/ p \in run'[r].fresh
        /\ run'[r].undisturbed => Open(p)' /\ analyst'[p] = Nobody
  <2>1. SUFFICES ASSUME IsAt(r, "assign"), NEW p \in run[r].todo
                 PROVE  /\ analyst'[p] = Nobody \/ p \in run'[r].fresh
                        /\ run'[r].undisturbed => Open(p)' /\ analyst'[p] = Nobody
    OBVIOUS
  <2>2. p \in Proposals /\ (analyst[p] = Nobody \/ p \in run[r].fresh)
    BY <1>1, <2>1 DEF CountOf
  <2>3. analyst'[p] = analyst[p] \/ p \in run'[r].fresh
    BY <2>1, <2>2 DEF Steady
  <2>4. run[r].fresh \subseteq run'[r].fresh
    BY DEF Steady
  <2>5. run'[r].undisturbed => Open(p)' /\ analyst'[p] = Nobody
    BY <1>2, <2>1, <2>2 DEF CountOf
  <2> QED
    BY <2>2, <2>3, <2>4, <2>5
<1> HIDE DEF Steady
<1> QED
  BY <1>1, <1>3, <1>4 DEF CountOf

LEMMA CountsCount ==
  ASSUME TypeOK, NEW r \in Runs, Counts(r)
  PROVE  CountOf(r)'
<1>1. /\ run'[r].step \in {"idle", "list"} /\ run'[r].pool = active
      /\ run'[r].load = [a \in Analysts |-> LoadOf(a)]
      /\ run'[r].gap = Spread([a \in Analysts |-> LoadOf(a)], active)
  BY CountsShape
<1>2. \A a \in Analysts : LoadOf(a)' = LoadOf(a)
  BY DEF Counts, LoadOf, Open
<1>3. \A a \in Analysts :
        run'[r].load[a] = LoadOf(a) /\ run'[r].load[a] <= Cardinality(Proposals)
  BY <1>1, LoadOfType, Counted
<1>4. run'[r].gap \in Nat /\ Spread(run'[r].load, run'[r].pool) = run'[r].gap
  BY <1>1, LoadOfType, SpreadType, Counted DEF TypeOK
<1>5. Spread(run'[r].load, run'[r].pool) <= Max({1, run'[r].gap})
  BY <1>4, OneOrMore
<1> QED
  BY <1>1, <1>2, <1>3, <1>5 DEF CountOf, IsAt

LEMMA ListsCount ==
  ASSUME TypeOK, NEW r \in Runs, CountOf(r), ListsUnassigned(r)
  PROVE  CountOf(r)'
<1>1. /\ run'[r].step = "assign" /\ run'[r].todo = ToShare
      /\ run'[r].pool = run[r].pool /\ run'[r].load = run[r].load
      /\ run'[r].gap = run[r].gap /\ run'[r].undisturbed = run[r].undisturbed
      /\ IsAt(r, "list") /\ run[r].step = "list" /\ UNCHANGED <<status, analyst>>
  BY ListsUnassignedShape DEF ListsUnassigned, IsAt
<1>2. \A a \in Analysts : LoadOf(a)' = LoadOf(a)
  BY <1>1 DEF LoadOf, Open
<1>3. \A p \in ToShare : analyst'[p] = Nobody /\ Open(p)'
  BY <1>1 DEF ToShare, Open, UnderAnalysis
<1>4. \A a \in Analysts :
        run[r].load[a] + Cardinality(ToShare) <= 2 * Cardinality(Proposals)
  <2>1. Cardinality(ToShare) \in 0 .. Cardinality(Proposals)
    <3>1. ToShare \in SUBSET Proposals
      BY DEF ToShare
    <3> QED
      BY <3>1, Counted
  <2>2. \A a \in Analysts : run[r].load[a] \in Int /\ run[r].load[a] <= Cardinality(Proposals)
    BY <1>1, RunType, Counted DEF CountOf, Load
  <2> QED
    BY <2>1, <2>2, Counted
<1> QED
  BY <1>1, <1>2, <1>3, <1>4 DEF CountOf, IsAt

(* Who is assigned a proposal that was nobody's has one more. *)
LEMMA LoadOfAssigned ==
  ASSUME TypeOK, NEW p \in Proposals, NEW a \in Analysts, Open(p), analyst[p] = Nobody,
         analyst' = [analyst EXCEPT ![p] = a], UNCHANGED status
  PROVE  \A b \in Analysts : LoadOf(b)' = IF b = a THEN LoadOf(a) + 1 ELSE LoadOf(b)
<1> DEFINE Of(b) == { q \in Proposals : Open(q) /\ analyst[q] = b }
           Now(b) == { q \in Proposals : Open(q)' /\ analyst'[q] = b }
<1>1. \A q \in Proposals : /\ Open(q)' <=> Open(q)
                           /\ analyst'[q] = IF q = p THEN a ELSE analyst[q]
  BY DEF Open, TypeOK
<1>2. ASSUME NEW b \in Analysts, b # a PROVE Now(b) = Of(b)
  BY <1>1, <1>2
<1>3. Now(a) = Of(a) \cup {p} /\ p \notin Of(a) /\ Of(a) \in SUBSET Proposals
  BY <1>1
<1>4. Cardinality(Now(a)) = Cardinality(Of(a)) + 1
  <2> HIDE DEF Of, Now
  <2>1. IsFiniteSet(Of(a))
    BY <1>3, Counted
  <2> QED
    BY <1>3, <2>1, FS_AddElement
<1>5. \A b \in Analysts : LoadOf(b) = Cardinality(Of(b)) /\ LoadOf(b)' = Cardinality(Now(b))
  BY DEF LoadOf
<1> HIDE DEF Of, Now
<1> QED
  BY <1>2, <1>4, <1>5

LEMMA AssignsCount ==
  ASSUME TypeOK, CountIsSound, NEW r \in Runs, NEW p \in Proposals, NEW a \in Analysts,
         Assigns(r, p, a)
  PROVE  CountOf(r)'
<1>1. /\ run'[r].step = "assign" /\ run'[r].todo = run[r].todo \ {p}
      /\ run'[r].pool = run[r].pool /\ run'[r].load = LoadWith(r, a)
      /\ run'[r].gap = run[r].gap /\ run'[r].undisturbed = run[r].undisturbed
      /\ run'[r].fresh = run[r].fresh
      /\ \A b \in Analysts :
           run'[r].load[b] + Cardinality(run'[r].todo) <= 2 * Cardinality(Proposals)
  BY AssignsShape
<1>2. /\ IsAt(r, "assign") /\ run[r].step = "assign" /\ p \in run[r].todo
      /\ a \in run[r].pool /\ \A b \in run[r].pool : run[r].load[a] <= run[r].load[b]
      /\ analyst' = [analyst EXCEPT ![p] = a] /\ UNCHANGED status
  BY DEF Assigns, IsAt
<1>3. /\ run[r].load \in [Analysts -> Nat] /\ run[r].pool \in SUBSET Analysts
      /\ run[r].gap \in Nat /\ run[r].todo \in SUBSET Proposals
  <2>1. \A n \in Nat : [Analysts -> 0 .. 2 * n] \subseteq [Analysts -> Nat]
    OBVIOUS
  <2> QED
    BY <2>1, RunType, Counted DEF Load
<1>4. ASSUME run[r].undisturbed
      PROVE  /\ \A b \in Analysts : LoadWith(r, a)[b] = LoadOf(b)'
             /\ Spread(LoadWith(r, a), run[r].pool) <= Max({1, run[r].gap})
  <2>1. /\ \A b \in Analysts : run[r].load[b] = LoadOf(b)
        /\ Spread(run[r].load, run[r].pool) <= Max({1, run[r].gap})
        /\ Open(p) /\ analyst[p] = Nobody
    BY <1>2, <1>4 DEF CountIsSound
  <2>2. \A b \in Analysts :
          LoadWith(r, a)[b] = IF b = a THEN run[r].load[a] + 1 ELSE run[r].load[b]
    BY <1>3 DEF LoadWith
  <2>3. \A b \in Analysts : LoadOf(b)' = IF b = a THEN LoadOf(a) + 1 ELSE LoadOf(b)
    BY <1>2, <2>1, LoadOfAssigned
  <2>4. Max({1, run[r].gap}) \in Nat /\ Max({1, run[r].gap}) >= 1
    BY <1>3, OneOrMore
  <2>5. Spread(LoadWith(r, a), run[r].pool) <= Max({1, run[r].gap})
    <3> DEFINE k == Max({1, run[r].gap})
               load == run[r].load
               pool == run[r].pool
    <3>1. /\ load \in [Analysts -> Nat] /\ pool \in SUBSET Analysts /\ k \in Nat /\ k >= 1
          /\ Spread(load, pool) <= k /\ a \in pool /\ \A b \in pool : load[a] <= load[b]
      BY <1>2, <1>3, <2>1, <2>4
    <3>2. LoadWith(r, a) = [load EXCEPT ![a] = @ + 1]
      BY DEF LoadWith
    <3> HIDE DEF k, load, pool
    <3>3. Spread([load EXCEPT ![a] = @ + 1], pool) <= k
      BY <3>1, SpreadWithOneMore
    <3> QED
      BY <3>2, <3>3 DEF k, pool
  <2> QED
    BY <2>1, <2>2, <2>3, <2>5
<1>5. ASSUME NEW q \in run[r].todo \ {p}
      PROVE  /\ analyst'[q] = Nobody \/ q \in run[r].fresh
             /\ run[r].undisturbed => Open(q)' /\ analyst'[q] = Nobody
  <2>1. q \in Proposals /\ analyst'[q] = analyst[q] /\ (Open(q)' <=> Open(q))
    BY <1>2, <1>3, <1>5 DEF TypeOK, Open
  <2> QED
    BY <1>2, <1>5, <2>1 DEF CountIsSound
<1> QED
  BY <1>1, <1>4, <1>5 DEF CountOf, IsAt

LEMMA CountKept ==
  ASSUME TypeOK, WarningsAreSound, CountIsSound, [Next]_vars
  PROVE  CountIsSound'
<1> SUFFICES ASSUME NEW r \in Runs PROVE CountOf(r)'
  BY DEF CountIsSound, CountOf
<1>1. CountOf(r)
  BY DEF CountIsSound, CountOf
<1>2. CASE Steady(r)
  BY <1>1, <1>2, CountOfSteady
<1>3. ASSUME run'[r].step \notin {"list", "assign"} PROVE CountOf(r)'
  BY <1>3 DEF CountOf, IsAt
<1>4. CASE Starts(r) \/ Throws(r) \/ Ends(r) \/ ListsNearing(r)
  BY <1>3, <1>4, StartsShape, OverShape, ListsNearingShape
<1>5. ASSUME NEW p \in Proposals, Recalculates(r, p) \/ LooksUp(r, p) PROVE CountOf(r)'
  BY <1>3, <1>5, RecalculatesShape, LooksUpShape
<1>6. CASE Warns(r)
  <2>1. run[r].step = "soon"
    BY <1>6 DEF Warns, WarningsAreSound, IsAt
  <2> QED
    BY <1>3, <1>6, <2>1, WarnsShape
<1>7. CASE Counts(r)
  BY <1>7, CountsCount
<1>8. CASE ListsUnassigned(r)
  BY <1>1, <1>8, ListsCount
<1>9. ASSUME NEW p \in Proposals, NEW a \in Analysts, Assigns(r, p, a) PROVE CountOf(r)'
  BY <1>9, AssignsCount
<1> QED
  BY <1>2, <1>4, <1>5, <1>6, <1>7, <1>8, <1>9, StepShape DEF Goes

LEMMA EvenlyCounted ==
  ASSUME TypeOK, CountIsSound
  PROVE  AssigningEvensOut
<1> SUFFICES ASSUME NEW r \in Runs, IsAt(r, "assign"), run[r].undisturbed
             PROVE  Spread([a \in Analysts |-> LoadOf(a)], run[r].pool)
                      <= Max({1, run[r].gap})
  BY DEF AssigningEvensOut
<1>1. /\ \A a \in Analysts : run[r].load[a] = LoadOf(a)
      /\ Spread(run[r].load, run[r].pool) <= Max({1, run[r].gap})
  BY DEF CountIsSound, IsAt
<1>2. \A a \in run[r].pool : [b \in Analysts |-> LoadOf(b)][a] = run[r].load[a]
  BY <1>1, RunType
<1>3. Spread([a \in Analysts |-> LoadOf(a)], run[r].pool) = Spread(run[r].load, run[r].pool)
  BY <1>2, SpreadOfSame
<1> QED
  BY <1>1, <1>3

-----------------------------------------------------------------------------
LEMMA TriageStart == Init => TriageInv
<1> SUFFICES ASSUME Init PROVE TriageInv
  OBVIOUS
<1>1. TypeOK
  <2>1. 0 \in 0 .. Cardinality(Runs) /\ run \in [Runs -> Run]
    BY IdleRunType, Counted DEF Init
  <2>2. /\ 0 \in 0 .. MaxNow /\ 0 \in 0 .. MaxMoves /\ 0 \in -1 .. MaxNow
        /\ -1 \in -1 .. MaxNow /\ -1 \in -1 .. MaxNow + Term
    OBVIOUS
  <2>3. /\ status \in [Proposals -> {"none", "other", "gone"} \cup UnderAnalysis]
        /\ submitted \in [Proposals -> -1 .. MaxNow]
    BY <2>2 DEF Init, UnderAnalysis
  <2>4. /\ due \in [Proposals -> -1 .. MaxNow + Term]
        /\ breached \in [Proposals -> -1 .. MaxNow]
        /\ told \in [Proposals -> 0 .. Cardinality(Runs)]
        /\ analyst \in [Proposals -> Analysts \cup {Nobody}]
    BY <2>1, <2>2 DEF Init
  <2> QED
    BY <2>1, <2>2, <2>3, <2>4 DEF Init, TypeOK
<1>2. \A r \in Runs : /\ run[r].step = "idle" /\ run[r].todo = {} /\ run[r].kept = {}
                      /\ run[r].telling = {}
  BY DEF Init, IdleRun
<1>3. \A p \in Proposals : /\ told[p] = 0 /\ due[p] = -1 /\ breached[p] = -1
                           /\ status[p] # "none" => submitted[p] # -1
  BY DEF Init
<1>4. TermsAreSound
  BY <1>3 DEF TermsAreSound
<1>5. RecalculationIsSound
  BY <1>2 DEF RecalculationIsSound, IsAt
<1>6. WarningsAreSound
  <2>1. \A p \in Proposals : Tellers(p) = {} /\ Cardinality({}) = 0
    BY <1>2, FS_EmptySet DEF Tellers
  <2>2. \A p \in Proposals : told[p] + Cardinality(Tellers(p)) <= Cardinality(Runs)
    BY <1>3, <2>1, Counted
  <2>3. Busy = {}
    BY <1>2 DEF Busy
  <2> QED
    BY <1>2, <2>2, <2>3 DEF WarningsAreSound, IsAt
<1>7. CountIsSound
  BY <1>2 DEF CountIsSound, IsAt
<1>8. WarnedOnce /\ BreachIsRecorded
  BY <1>2, <1>3 DEF WarnedOnce, BreachIsRecorded
<1> QED
  BY <1>1, <1>4, <1>5, <1>6, <1>7, <1>8, EvenlyCounted, FilterHolds DEF TriageInv

LEMMA TriageKept == TriageInv /\ [Next]_vars => TriageInv'
<1> SUFFICES ASSUME TriageInv, [Next]_vars PROVE TriageInv'
  OBVIOUS
<1> USE DEF TriageInv
<1>1. /\ TypeOK' /\ TermsAreSound' /\ RecalculationIsSound' /\ WarningsAreSound'
      /\ CountIsSound' /\ WarnedOnce' /\ BreachIsRecorded'
  BY TriageTypeKept, TermsKept, RecalculationKept, WarningsKept, CountKept, BreachesKept
<1>2. (TypeOK /\ CountIsSound => AssigningEvensOut)'
  BY EvenlyCounted, PTL
<1>3. (TypeOK /\ TermsAreSound => OneFilterShows)'
  BY FilterHolds, PTL
<1> QED
  BY <1>1, <1>2, <1>3

(* A term is warned of once unless runs crossed, a run left alone evens    *)
(* the loads out, each proposal is under one filter, and no breach is      *)
(* left unrecorded (ProposalTriageService).                                *)
THEOREM TriageIsSafe == Spec => []TriageInv
  BY TriageStart, TriageKept, PTL DEF Spec

(* What a person has assigned stands, but where it came after the run had  *)
(* listed the proposal as nobody's (autoAssignAnalysts).                   *)
THEOREM AssignmentsStand == Spec => AssignmentStands
<1>1. TriageInv /\ [Next]_vars =>
        [ \A r \in Runs, p \in Proposals :
            (IsAt(r, "assign") /\ p \in run[r].todo \ run'[r].todo /\ analyst[p] # Nobody)
              => p \in run[r].fresh ]_vars
  BY DEF TriageInv, CountIsSound
<1> QED
  BY <1>1, TriageIsSafe, PTL DEF Spec, AssignmentStands

=============================================================================
