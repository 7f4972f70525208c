--------------------------- MODULE Partners_proofs ---------------------------
(***************************************************************************)
(* Proofs about what the system keeps in step with others' records: the    *)
(* register of members in the ERP (TotvsSync), for any number of           *)
(* proposals, jobs, requests and failures, members beforehand included;    *)
(* and the accounts of social networks (SocialAccounts), for any consents, *)
(* views, networks, times and bounds.                                      *)
(*                                                                         *)
(* Of the accounts AccountsInv comes first: a consent makes its row in two *)
(* statements, and OverlapIsNoted is what makes one account inductive.     *)
(* Then TokensAreKept on top of its types: the invariant is cut into what  *)
(* it says of one grant, one consent, one view and two views (Fits), since *)
(* each step changes one of those and the rest of the proof is that it     *)
(* leaves the others as they were.                                         *)
(***************************************************************************)
EXTENDS TotvsSync, SocialAccounts, FiniteSetTheorems, TLAPS

-----------------------------------------------------------------------------
(* The register of members *)

USE AttemptsAssumption, CrashAssumption, SigningAssumption, ReturnsAssumption,
    EarlierAssumption, StaffAssumption

LEMMA NewJobType ==
  ASSUME NEW i \in JobIds, NEW p \in Proposals
  PROVE  /\ NewJob(i, p) \in Job
         /\ NewJob(i, p).p = p
         /\ NewJob(i, p).step = "read"
         /\ NewJob(i, p).tries = 0
BY DEF NewJob, Job, ProposalStatus

LEMMA NextAttemptType ==
  ASSUME NEW j \in Job, j.tries < MaxAttempts
  PROVE  /\ NextAttempt(j) \in Job
         /\ NextAttempt(j).step \in {"read", "dead"}
         /\ NextAttempt(j).step # "dead" => NextAttempt(j).tries < MaxAttempts
<1>1. j.tries + 1 \in 0 .. MaxAttempts
  BY DEF Job
<1> QED
  BY <1>1 DEF NextAttempt, NewJob, Job, ProposalStatus

(* The job of an attempt that goes on. *)
LEMMA MovedType ==
  ASSUME NEW j \in Job, NEW to \in {"read", "pending", "post", "synced", "failed", "approve",
                                    "notify", "dead"}
  PROVE  /\ [j EXCEPT !.step = to] \in Job
         /\ [j EXCEPT !.step = to].p = j.p
         /\ [j EXCEPT !.step = to].step = to
         /\ [j EXCEPT !.step = to].tries = j.tries
BY DEF Job

LEMMA SyncInvInit == SyncInit => SyncInv
<1> SUFFICES ASSUME SyncInit PROVE SyncInv
  OBVIOUS
<1> USE DEF SyncInit
<1>1. SyncTypeOK
  <2>1. "PENDING_SIGNATURE" \in ProposalStatus
    BY DEF ProposalStatus
  <2> QED
    BY <2>1 DEF SyncTypeOK
<1>2. JobsAreSound /\ ReportsAreSound
  BY DEF JobsAreSound, ReportsAreSound
<1>3. SignedIsBooked /\ SyncedIsMember /\ MemberHasSigned /\ SyncedHasId
  BY DEF SignedIsBooked, SyncedIsMember, MemberHasSigned, SyncedHasId
<1> QED
  BY <1>1, <1>2, <1>3 DEF SyncInv

LEMMA SyncInvStep ==
  ASSUME SyncInv, [SyncNext]_syncVars
  PROVE  SyncInv'
<1> USE DEF SyncInv, SyncTypeOK, JobsAreSound, ReportsAreSound, SignedIsBooked, SyncedIsMember,
        MemberHasSigned, SyncedHasId, Answered
<1>1. CASE UNCHANGED syncVars
  BY <1>1 DEF syncVars
<1>2. CASE Worker
  <2>1. ASSUME NEW j \in jobs, Skip(j) \/ Notify(j) PROVE SyncInv'
    BY <2>1 DEF Skip, Notify, Without
  <2>2. ASSUME NEW j \in jobs, Read(j) PROVE SyncInv'
    BY <2>2 DEF Read, Without, Job, SyncableStatus
  <2>3. ASSUME NEW j \in jobs, MarkPending(j) PROVE SyncInv'
    BY <2>3 DEF MarkPending, Without, Moved, Job, TotvsSyncStatus
  <2>4. ASSUME NEW j \in jobs, PostAccepted(j) PROVE SyncInv'
    <3>1. PICK hasId \in BOOLEAN :
            /\ ReturnsId => hasId
            /\ jobs' = Without(jobs, j) \cup {[j EXCEPT !.step = "synced", !.answerHasId = hasId]}
      BY <2>4 DEF PostAccepted
    <3>2. PICK k : k = [j EXCEPT !.step = "synced", !.answerHasId = hasId]
      OBVIOUS
    <3>3. /\ k \in Job
          /\ k.p = j.p
          /\ k.step = "synced"
          /\ k.tries = j.tries
          /\ k.answerHasId = hasId
      <4>1. j \in Job
        OBVIOUS
      <4> HIDE DEF SyncInv, SyncTypeOK, JobsAreSound
      <4> QED
        BY <3>2, <4>1 DEF Job
    <3>4. jobs' = (jobs \ {j}) \cup {k}
      BY <3>1, <3>2 DEF Without
    <3> QED
      BY <2>4, <3>1, <3>3, <3>4 DEF PostAccepted, Job
  <2>5. ASSUME NEW j \in jobs, PostRejected(j) PROVE SyncInv'
    BY <2>5 DEF PostRejected, Without, Moved, Job
  <2>6. ASSUME NEW j \in jobs, jobs' = AfterFailure(j), j.step # "dead"
        PROVE  jobs' \subseteq Job /\ \A k \in jobs' \ jobs :
                 k.step \in {"read", "dead"} /\ (k.step # "dead" => k.tries < MaxAttempts)
    BY <2>6, NextAttemptType DEF AfterFailure, Without
  <2>7. ASSUME NEW j \in jobs, PostTimesOut(j) PROVE SyncInv'
    <3>1. /\ jobs' \subseteq Job
          /\ \A k \in jobs' \ jobs :
               k.step \in {"read", "dead"} /\ (k.step # "dead" => k.tries < MaxAttempts)
      BY <2>7, <2>6 DEF PostTimesOut
    <3>2. member' \in [Proposals -> BOOLEAN]
      BY <2>7 DEF PostTimesOut
    <3>3. \A q \in Proposals : member[q] => member'[q]
      BY <2>7 DEF PostTimesOut
    <3>4. \A q \in Proposals : member'[q] => member[q] \/ q = j.p
      BY <2>7 DEF PostTimesOut
    <3>5. j.p \in Earlier \/ signings[j.p] > 0
      BY <2>7 DEF PostTimesOut
    <3> QED
      BY <2>7, <3>1, <3>2, <3>3, <3>4, <3>5 DEF PostTimesOut, Job, Request
  <2>8. ASSUME NEW j \in jobs, MarkSynced(j) PROVE SyncInv'
    BY <2>8 DEF MarkSynced, Without, Moved, Job, TotvsSyncStatus
  <2>9. ASSUME NEW j \in jobs, Approve(j) PROVE SyncInv'
    BY <2>9 DEF Approve, Without, Moved, Job, ProposalStatus
  <2>10. ASSUME NEW j \in jobs, MarkFailed(j) PROVE SyncInv'
    BY <2>10, <2>6 DEF MarkFailed, TotvsSyncStatus
  <2>11. ASSUME NEW j \in jobs, JobCrashes(j) PROVE SyncInv'
    BY <2>11, <2>6 DEF JobCrashes
  <2> QED
    BY <1>2, <2>1, <2>2, <2>3, <2>4, <2>5, <2>7, <2>8, <2>9, <2>10, <2>11
    DEF Worker, JobAdvances
<1>3. CASE Api
  <2> USE DEF Request
  <2>1. ASSUME NEW r \in Requests, NEW p \in Proposals, ReprocessMark(r, p) PROVE SyncInv'
    BY <2>1 DEF ReprocessMark, TotvsSyncStatus
  <2>2. ASSUME NEW r \in Requests, NEW p \in Proposals, CallbackRow(r, p) PROVE SyncInv'
    BY <2>2 DEF CallbackRow, TotvsSyncStatus, Reported
  <2>3. ASSUME NEW r \in reqs, CallbackStatus(r) PROVE SyncInv'
    BY <2>3 DEF CallbackStatus, Without, ProposalStatus
  <2>4. ASSUME NEW r \in reqs, RequestStops(r) PROVE SyncInv'
    BY <2>4 DEF RequestStops, Without
  <2>5. ASSUME NEW r \in reqs, NEW i \in JobIds, ReprocessEnqueue(r, i) PROVE SyncInv'
    BY <2>5, NewJobType DEF ReprocessEnqueue, Without
  <2> QED
    BY <1>3, <2>1, <2>2, <2>3, <2>4, <2>5 DEF Api
<1>4. CASE Elsewhere
  <2>1. ASSUME NEW p \in Proposals, NEW i \in JobIds, Signed(p, i) PROVE SyncInv'
    BY <2>1, NewJobType DEF Signed, ProposalStatus
  <2>2. ASSUME NEW p \in Proposals, NEW s \in StaffStatus, StatusElsewhere(p, s) PROVE SyncInv'
    BY <2>2 DEF StatusElsewhere
  <2> QED
    BY <1>4, <2>1, <2>2 DEF Elsewhere
<1> QED
  BY <1>1, <1>2, <1>3, <1>4 DEF SyncNext

-----------------------------------------------------------------------------
(* The conjunction that is inductive holds in every reachable state: types,*)
(* what a job, a report and a booked signature say, and the three results  *)
(* below.                                                                  *)
THEOREM SyncInvariant == SyncSpec => []SyncInv
<1>1. SyncInit => SyncInv
  BY SyncInvInit
<1>2. SyncInv /\ [SyncNext]_syncVars => SyncInv'
  BY SyncInvStep
<1> QED
  BY <1>1, <1>2, PTL DEF SyncSpec

(* Every variable keeps its type; in particular no job is tried more than  *)
(* MaxAttempts times.                                                      *)
THEOREM SyncTypeCorrect == SyncSpec => []SyncTypeOK
<1>1. SyncInv => SyncTypeOK
  BY DEF SyncInv
<1> QED
  BY <1>1, SyncInvariant, PTL

(* A proposal that is synchronised or approved is a member in the ERP,     *)
(* however attempts of totvs.sync, reprocess requests and callbacks of     *)
(* TOTVS interleave and wherever they stop.                                *)
THEOREM SyncedMeansMember == SyncSpec => []SyncedIsMember
<1>1. SyncInv => SyncedIsMember
  BY DEF SyncInv
<1> QED
  BY <1>1, SyncInvariant, PTL

(* The ERP has no member from this system who has not signed: the status   *)
(* guard of handleJob is enough, stale as it is when the request is sent.  *)
THEOREM MembersHaveSigned == SyncSpec => []MemberHasSigned
<1>1. SyncInv => MemberHasSigned
  BY DEF SyncInv
<1> QED
  BY <1>1, SyncInvariant, PTL

(* If TOTVS puts the id in every answer, the 409 included, a row that is   *)
(* SYNCED has the id.                                                      *)
THEOREM SyncedRowHasId == SyncSpec => [](ReturnsId => SyncedHasId)
<1>1. SyncInv => (ReturnsId => SyncedHasId)
  BY DEF SyncInv
<1> QED
  BY <1>1, SyncInvariant, PTL

-----------------------------------------------------------------------------
(* The accounts of social networks *)

USE GrantsAssumption, NetworksAssumption, TimesAssumption

LEMMA Bounds ==
  /\ Ttl \in Nat /\ Life \in Nat /\ Threshold \in Nat /\ MaxAge \in Nat /\ MaxNow \in Nat
  /\ MaxLooks \in Nat /\ MaxFaults \in Nat /\ MaxGen \in Nat /\ MaxGen >= 1
  OBVIOUS

(* A token is not the lack of one, and says whose it is. *)
LEMMA IssuedIsToken ==
  ASSUME NEW g \in Grants, NEW n \in 1 .. MaxGen
  PROVE  /\ <<g, n>> \in Tokens /\ <<g, n>> # NoToken
         /\ <<g, n>>[1] = g /\ <<g, n>>[2] = n
  BY DEF Tokens, NoToken

LEMMA TokenIsOfGrant ==
  ASSUME NEW t \in Tokens
  PROVE  t # NoToken /\ t[1] \in Grants /\ t[2] \in 1 .. MaxGen
<1>1. PICK g \in Grants, n \in 1 .. MaxGen : t = <<g, n>>
  BY DEF Tokens
<1> QED
  BY <1>1, IssuedIsToken

LEMMA RowIsRow ==
  ASSUME NEW row \in Row
  PROVE  row # NoRow
  BY TokenIsOfGrant DEF Row, NoRow

LEMMA NewRowIsRow ==
  ASSUME NEW g \in Grants, NEW net, NEW says, NEW at \in 0 .. MaxNow
  PROVE  /\ NewRow(g, net, says, at) \in Row
         /\ NewRow(g, net, says, at).access = <<g, 1>>
         /\ NewRow(g, net, says, at).refresh \in {<<g, 1>>, NoToken}
         /\ (NewRow(g, net, says, at).refresh # NoToken => Holds(net))
         /\ NewRow(g, net, says, at).expires \in {Never, at + Life}
<1>1. <<g, 1>> \in Tokens
  BY Bounds, IssuedIsToken
<1>2. at + Life \in 0 .. MaxNow + Life
  BY Bounds
<1> QED
  BY <1>1, <1>2 DEF NewRow, Row

-----------------------------------------------------------------------------
(* What the steps write *)

(* What the network answers to a refresh: the next token of the grant that *)
(* the copy names, and perhaps the next refresh token, which it honours    *)
(* from then on.                                                           *)
Answer(v, g, n, rotates, r) ==
  LET row == view[v].row IN
  /\ g = IF Holds(network) THEN row.refresh[1] ELSE row.access[1]
  /\ Holds(network) => row.refresh # NoToken
  /\ n = Len(issued[g]) + 1
  /\ issued' = [issued EXCEPT ![g] = Append(@, now + Life)]
  /\ honoured' = [honoured EXCEPT ![g] = IF rotates THEN n ELSE @]
  /\ r.access = <<g, n>>
  /\ r.refresh = IF rotates THEN <<g, n>> ELSE row.refresh
  /\ r.expires \in {now + Life, row.expires}

(* One view goes on, with a row of its own or none. *)
ViewGoes(v, step, r) ==
  /\ view' \in [Views -> View]
  /\ view'[v].step = step /\ view'[v].of = Of(v) /\ view'[v].row = r
  /\ \A w \in Views : w # v => view'[w] = view[w]

ViewEnds(v) ==
  /\ view' \in [Views -> View]
  /\ view'[v].step = "idle"
  /\ \A w \in Views : w # v => view'[w] = view[w]

LEMMA DoneEnds ==
  ASSUME TypeOK, NEW v \in Views, Done(v)
  PROVE  ViewEnds(v)
<1>1. IdleView \in View
  BY DEF IdleView, View, Grants
<1> QED
  BY <1>1 DEF TypeOK, Done, ViewEnds, IdleView

LEMMA IsIssuedAnswers ==
  ASSUME TypeOK, NEW v \in Views, IsIssued(v)
  PROVE  \E g \in Grants, n \in 1 .. MaxGen, rotates \in BOOLEAN, r \in Row :
           /\ Answer(v, g, n, rotates, r)
           /\ \/ ViewGoes(v, "holds", r) /\ UNCHANGED cut
              \/ ViewEnds(v) /\ cut' = cut \cup {g}
<1> USE DEF TypeOK
<1> DEFINE row == view[v].row
           g == IF Holds(network) THEN row.refresh[1] ELSE row.access[1]
           n == Len(issued[g]) + 1
<1>1. row \in Row /\ IsAt(v, "read") /\ MustRefresh(row)
  BY DEF IsIssued, View, IsAt
<1>2. /\ row.access \in Tokens /\ (Holds(network) => row.refresh \in Tokens)
      /\ row.refresh \in Tokens \cup {NoToken}
  BY <1>1 DEF Row, MustRefresh
<1>3. g \in Grants
  BY <1>2, TokenIsOfGrant
<1>4. n \in 1 .. MaxGen
  <2>1. n <= MaxGen
    BY DEF IsIssued
  <2>2. Len(issued[g]) \in Nat
    <3> HIDE DEF g
    <3> QED
      BY <1>3
  <2> HIDE DEF g
  <2> QED
    BY <2>1, <2>2, Bounds
<1>5. PICK says \in BOOLEAN, rotates \in {FALSE, network = "SPOTIFY"} :
        LET fresh == IF rotates THEN <<g, n>> ELSE NoToken IN
        /\ honoured' = [honoured EXCEPT ![g] = IF rotates THEN n ELSE @]
        /\ \/ /\ view' = [view EXCEPT
                   ![v].step = "holds",
                   ![v].row = [row EXCEPT !.access = <<g, n>>,
                                          !.refresh = NextRefresh(@, fresh),
                                          !.expires = IF says THEN now + Life ELSE @]]
              /\ UNCHANGED cut
           \/ /\ Done(v)
              /\ cut' = cut \cup {g}
  BY DEF IsIssued
<1>6. rotates \in BOOLEAN
  OBVIOUS
<1> DEFINE fresh == IF rotates THEN <<g, n>> ELSE NoToken
           r == [row EXCEPT !.access = <<g, n>>, !.refresh = NextRefresh(@, fresh),
                            !.expires = IF says THEN now + Life ELSE @]
<1>7. <<g, n>> \in Tokens /\ <<g, n>> # NoToken
  <2> HIDE DEF g, n
  <2> QED
    BY <1>3, <1>4, IssuedIsToken
<1>8. /\ r.access = <<g, n>> /\ r.refresh = (IF rotates THEN <<g, n>> ELSE row.refresh)
      /\ r.expires \in {now + Life, row.expires} /\ r.fetched = row.fetched
      /\ DOMAIN r = DOMAIN row
  <2> HIDE DEF g, n, row
  <2> QED
    BY <1>1, <1>7 DEF Row, NextRefresh
<1>9. r \in Row
  <2>1. now + Life \in 0 .. MaxNow + Life
    BY Bounds
  <2>2. [row EXCEPT !.access = <<g, n>>] \in Row
    <3> HIDE DEF g, n, row
    <3> QED
      BY <1>1, <1>7 DEF Row
  <2>3. r.refresh \in Tokens \cup {NoToken} /\ r.expires \in {Never} \cup 0 .. MaxNow + Life
    <3> HIDE DEF g, n, row, r
    <3> QED
      BY <1>1, <1>2, <1>7, <1>8, <2>1 DEF Row
  <2> HIDE DEF g, n, row, fresh
  <2> QED
    BY <1>1, <1>7, <2>1, <2>3 DEF Row, NextRefresh
<1>10. \/ ViewGoes(v, "holds", r) /\ UNCHANGED cut
       \/ ViewEnds(v) /\ cut' = cut \cup {g}
  <2>1. CASE Done(v) /\ cut' = cut \cup {g}
    BY <2>1, DoneEnds
  <2>2. CASE /\ view' = [view EXCEPT ![v].step = "holds", ![v].row = r]
             /\ UNCHANGED cut
    <3> HIDE DEF r
    <3>1. view' = [view EXCEPT ![v] = [view[v] EXCEPT !.step = "holds", !.row = r]]
      BY <2>2
    <3>2. view[v] \in [step : {"idle", "read", "holds", "profile"}, of : Grants,
                       row : Row \cup {NoRow}]
      BY DEF View
    <3>3. [view[v] EXCEPT !.step = "holds", !.row = r] \in View
      BY <1>9, <3>2 DEF View
    <3> QED
      BY <2>2, <3>1, <3>2, <3>3 DEF ViewGoes, Of
  <2> QED
    BY <1>5, <2>1, <2>2
<1>11. Answer(v, g, n, rotates, r)
  <2>1. issued' = [issued EXCEPT ![g] = Append(@, now + Life)]
    BY DEF IsIssued
  <2>2. Holds(network) => row.refresh # NoToken
    BY <1>1 DEF MustRefresh
  <2>3. honoured' = [honoured EXCEPT ![g] = IF rotates THEN n ELSE @]
    BY <1>5
  <2> QED
    BY <1>8, <2>1, <2>2, <2>3 DEF Answer
<1> HIDE DEF g, n, r, row, fresh
<1> QED
  BY <1>3, <1>4, <1>6, <1>9, <1>10, <1>11

LEMMA GoesOn ==
  ASSUME TypeOK, NEW v \in Views, NEW step \in {"read", "holds", "profile"}, Goes(v, step)
  PROVE  ViewGoes(v, step, view[v].row)
<1>1. [view[v] EXCEPT !.step = step] \in View
  BY DEF TypeOK, View
<1> QED
  BY <1>1 DEF TypeOK, Goes, ViewGoes, View, Of

(* A consent goes on, and holds a row from the exchange until it is over.  *)
ConsentGoes(c, step) ==
  /\ consent' \in [Consents -> Consent]
  /\ consent'[c].step = step
  /\ \A d \in Consents : d # c => consent'[d] = consent[d]

LEMMA ConsentTypes ==
  ASSUME TypeOK, NEW c \in Consents
  PROVE  /\ IdleConsent("over") \in Consent /\ IdleConsent("found") \in Consent
         /\ [consent[c] EXCEPT !.step = "away", !.at = now] \in Consent
         /\ [consent[c] EXCEPT !.step = "cleared", !.seen = Rows] \in Consent
         /\ \A r \in Row : [consent[c] EXCEPT !.step = "holds", !.row = r] \in Consent
<1>1. 0 \in 0 .. MaxNow
  BY Bounds
<1>2. consent[c] \in Consent /\ now \in 0 .. MaxNow /\ Rows \in SUBSET Grants
  BY DEF TypeOK, Rows
<1>3. IdleConsent("over") \in Consent /\ IdleConsent("found") \in Consent
  BY <1>1 DEF Consent, IdleConsent
<1>4. [consent[c] EXCEPT !.step = "away", !.at = now] \in Consent
  BY <1>2 DEF Consent
<1>5. [consent[c] EXCEPT !.step = "cleared", !.seen = Rows] \in Consent
  BY <1>2 DEF Consent
<1>6. ASSUME NEW r \in Row PROVE [consent[c] EXCEPT !.step = "holds", !.row = r] \in Consent
  BY <1>2 DEF Consent
<1> QED
  BY <1>3, <1>4, <1>5, <1>6

LEMMA IsOverEnds ==
  ASSUME TypeOK, NEW c \in Consents, IsOver(c)
  PROVE  ConsentGoes(c, "over")
  BY ConsentTypes DEF TypeOK, IsOver, ConsentGoes, IdleConsent

LEMMA ConsentIs ==
  ASSUME TypeOK, NEW c \in Consents, NEW k \in Consent, consent' = [consent EXCEPT ![c] = k]
  PROVE  /\ consent' \in [Consents -> Consent] /\ consent'[c] = k
         /\ \A d \in Consents : d # c => consent'[d] = consent[d]
  BY DEF TypeOK

(* What each step of a consent does to it. *)
LEMMA ConsentMoves ==
  ASSUME TypeOK, NEW c \in Consents
  PROVE  /\ Authorizes(c) => ConsentGoes(c, "away")
         /\ ComesBack(c) => ConsentGoes(c, "found") \/ ConsentGoes(c, "over")
         /\ Exchanges(c) => /\ ConsentGoes(c, "holds")
                            /\ \E says \in BOOLEAN :
                                 consent'[c].row = NewRow(c, network, says, now)
         /\ Clears(c) => /\ ConsentGoes(c, "cleared")
                         /\ consent'[c].row = consent[c].row /\ consent'[c].seen = Rows
         /\ Commits(c) \/ FallsThrough(c) => ConsentGoes(c, "over")
<1>1. Authorizes(c) => ConsentGoes(c, "away")
  <2> SUFFICES ASSUME Authorizes(c) PROVE ConsentGoes(c, "away")
    OBVIOUS
  <2>1. consent' = [consent EXCEPT ![c] = [consent[c] EXCEPT !.step = "away", !.at = now]]
    BY DEF Authorizes
  <2>2. consent[c] \in Consent
    BY DEF TypeOK
  <2> QED
    <3>1. [consent[c] EXCEPT !.step = "away", !.at = now] \in Consent
      BY ConsentTypes
    <3> QED
      BY <2>1, <2>2, <3>1, ConsentIs DEF ConsentGoes, Consent
<1>2. ComesBack(c) => ConsentGoes(c, "found") \/ ConsentGoes(c, "over")
  <2>1. ASSUME consent' = [consent EXCEPT ![c] = IdleConsent("found")] PROVE ConsentGoes(c, "found")
    BY <2>1, ConsentTypes DEF ConsentGoes, TypeOK, IdleConsent
  <2> QED
    BY <2>1, IsOverEnds DEF ComesBack
<1>3. Exchanges(c) => /\ ConsentGoes(c, "holds")
                      /\ \E says \in BOOLEAN : consent'[c].row = NewRow(c, network, says, now)
  <2> SUFFICES ASSUME Exchanges(c)
               PROVE  /\ ConsentGoes(c, "holds")
                      /\ \E says \in BOOLEAN : consent'[c].row = NewRow(c, network, says, now)
    OBVIOUS
  <2>1. PICK says \in BOOLEAN :
          consent' = [consent EXCEPT ![c].step = "holds", ![c].row = NewRow(c, network, says, now)]
    BY DEF Exchanges
  <2> DEFINE r == NewRow(c, network, says, now)
  <2>2. r \in Row
    BY NewRowIsRow DEF TypeOK, Grants
  <2> HIDE DEF r
  <2>3. consent' = [consent EXCEPT ![c] = [consent[c] EXCEPT !.step = "holds", !.row = r]]
    BY <2>1 DEF r
  <2>4. consent[c] \in Consent
    BY DEF TypeOK
  <2>5. ConsentGoes(c, "holds") /\ consent'[c].row = r
    <3>1. [consent[c] EXCEPT !.step = "holds", !.row = r] \in Consent
      BY <2>2, ConsentTypes
    <3> QED
      BY <2>3, <2>4, <3>1, ConsentIs DEF ConsentGoes, Consent
  <2> QED
    BY <2>5 DEF r
<1>4. Clears(c) => /\ ConsentGoes(c, "cleared")
                   /\ consent'[c].row = consent[c].row /\ consent'[c].seen = Rows
  <2> SUFFICES ASSUME Clears(c)
               PROVE  /\ ConsentGoes(c, "cleared")
                      /\ consent'[c].row = consent[c].row /\ consent'[c].seen = Rows
    OBVIOUS
  <2>1. consent' = [consent EXCEPT ![c] = [consent[c] EXCEPT !.step = "cleared", !.seen = Rows]]
    BY DEF Clears, Sees
  <2>2. consent[c] \in Consent
    BY DEF TypeOK
  <2> QED
    <3>1. [consent[c] EXCEPT !.step = "cleared", !.seen = Rows] \in Consent
      BY ConsentTypes
    <3> QED
      BY <2>1, <2>2, <3>1, ConsentIs DEF ConsentGoes, Consent
<1>5. Commits(c) \/ FallsThrough(c) => ConsentGoes(c, "over")
  BY IsOverEnds DEF Commits, FallsThrough
<1> QED
  BY <1>1, <1>2, <1>3, <1>4, <1>5

(* What each step of a view does to it. *)
LEMMA ViewMoves ==
  ASSUME TypeOK, NEW v \in Views
  PROVE  /\ SkipsRefresh(v) => ViewGoes(v, "profile", view[v].row)
         /\ Saves(v) =>
              \/ /\ ViewGoes(v, "profile", view[v].row) /\ account[Of(v)] # NoRow
                 /\ account' = [account EXCEPT ![Of(v)] = view[v].row]
              \/ ViewEnds(v) /\ account[Of(v)] = NoRow /\ UNCHANGED account
         /\ IsRefused(v) \/ GetsProfile(v) \/ KeepsProfile(v) \/ ViewStops(v) => ViewEnds(v)
<1>0. Of(v) \in Grants
  BY DEF TypeOK, Of, View
<1>1. SkipsRefresh(v) => ViewGoes(v, "profile", view[v].row)
  BY GoesOn DEF SkipsRefresh
<1>2. ASSUME Saves(v)
      PROVE  \/ /\ ViewGoes(v, "profile", view[v].row) /\ account[Of(v)] # NoRow
                /\ account' = [account EXCEPT ![Of(v)] = view[v].row]
             \/ ViewEnds(v) /\ account[Of(v)] = NoRow /\ UNCHANGED account
  <2>1. CASE account[Of(v)] = NoRow
    <3>1. Target(Of(v)) = {}
      BY <2>1 DEF Target, Rows
    <3> QED
      BY <1>2, <2>1, <3>1, DoneEnds DEF Saves
  <2>2. CASE account[Of(v)] # NoRow
    <3>1. Target(Of(v)) = {Of(v)}
      BY <1>0, <2>2 DEF Target, Rows
    <3>2. account' = [g \in Grants |-> IF g = Of(v) THEN view[v].row ELSE account[g]]
      BY <1>2, <3>1 DEF Saves, Saved
    <3>3. account' = [account EXCEPT ![Of(v)] = view[v].row]
      BY <3>2 DEF TypeOK
    <3>4. Goes(v, "profile")
      BY <1>2, <3>1 DEF Saves
    <3> QED
      BY <2>2, <3>3, <3>4, GoesOn
  <2> QED
    BY <2>1, <2>2
<1>3. IsRefused(v) \/ GetsProfile(v) \/ KeepsProfile(v) \/ ViewStops(v) => ViewEnds(v)
  BY DoneEnds DEF IsRefused, GetsProfile, KeepsProfile, ViewStops
<1> QED
  BY <1>1, <1>2, <1>3

(* GetsProfile writes the row it read at, if it is still there. *)
LEMMA ProfileWrites ==
  ASSUME TypeOK, NEW v \in Views, GetsProfile(v)
  PROVE  \/ UNCHANGED account
         \/ \E r \in Row :
              /\ account[Of(v)] # NoRow /\ account' = [account EXCEPT ![Of(v)] = r]
              /\ r.access = account[Of(v)].access /\ r.refresh = account[Of(v)].refresh
              /\ r.expires = view[v].row.expires
<1>0. Of(v) \in Grants /\ account[Of(v)] \in Row \cup {NoRow} /\ view[v].row \in Row
  BY DEF TypeOK, Of, View, GetsProfile, IsAt
<1>1. CASE account[Of(v)] = NoRow
  <2>1. Target(Of(v)) = {}
    BY <1>1 DEF Target, Rows
  <2> QED
    BY <2>1 DEF GetsProfile, TypeOK
<1>2. CASE account[Of(v)] # NoRow
  <2>1. Target(Of(v)) = {Of(v)}
    BY <1>0, <1>2 DEF Target, Rows
  <2> DEFINE r == [account[Of(v)] EXCEPT !.expires = view[v].row.expires, !.fetched = now]
  <2>2. r \in Row /\ r.access = account[Of(v)].access /\ r.refresh = account[Of(v)].refresh
        /\ r.expires = view[v].row.expires
    BY <1>0, <1>2 DEF TypeOK, Row
  <2>3. account' = [g \in Grants |-> IF g = Of(v) THEN r ELSE account[g]]
    BY <2>1 DEF GetsProfile
  <2> HIDE DEF r
  <2>4. account' = [account EXCEPT ![Of(v)] = r]
    BY <2>3 DEF TypeOK
  <2> QED
    BY <1>2, <2>2, <2>4
<1> QED
  BY <1>1, <1>2

-----------------------------------------------------------------------------
(* The types *)

(* Who is looking has a row in hand. *)
LEMMA HandsKept ==
  ASSUME TypeOK, NEW v \in Views, view' \in [Views -> View],
         \A w \in Views : w # v => view'[w] = view[w],
         view'[v].step = "idle" \/ view'[v].row # NoRow
  PROVE  \A w \in Views : view'[w].step # "idle" => view'[w].row # NoRow
  BY DEF TypeOK

LEMMA CountsKept ==
  ASSUME TypeOK, Faulty \/ Sound
  PROVE  looks' \in 0 .. MaxLooks /\ faults' \in 0 .. MaxFaults
  BY Bounds DEF TypeOK, Faulty, Sound, bounds

LEMMA TypeKept ==
  ASSUME TypeOK, [Next]_vars
  PROVE  TypeOK'
<1> USE DEF provider, history
<1>1. ASSUME Disconnects \/ Erases PROVE TypeOK'
  <2>1. account' \in [Grants -> Row \cup {NoRow}]
    BY <1>1 DEF Disconnects, Erases, TypeOK
  <2>2. looks' \in 0 .. MaxLooks /\ faults' \in 0 .. MaxFaults
    BY <1>1, CountsKept DEF Disconnects, Erases
  <2> QED
    BY <1>1, <2>1, <2>2 DEF Disconnects, Erases, TypeOK
<1>2. ASSUME Ticks PROVE TypeOK'
  <2>1. now' \in 0 .. MaxNow
    BY <1>2, Bounds DEF Ticks, TypeOK
  <2> QED
    BY <1>2, <2>1, CountsKept DEF Ticks, TypeOK
<1>3. ASSUME NEW c \in Consents, Authorizes(c) \/ ComesBack(c) \/ Clears(c) \/ FallsThrough(c)
      PROVE  TypeOK'
  <2>1. consent' \in [Consents -> Consent]
    BY <1>3, ConsentMoves DEF ConsentGoes
  <2>2. looks' \in 0 .. MaxLooks /\ faults' \in 0 .. MaxFaults
    BY <1>3, CountsKept DEF Authorizes, ComesBack, Clears, FallsThrough
  <2>3. overlapped' \in BOOLEAN /\ UNCHANGED <<now, network, there, account, issued, honoured, view,
                                              left, crossed, cut>>
    BY <1>3 DEF Authorizes, ComesBack, Clears, FallsThrough, TypeOK
  <2> QED
    BY <2>1, <2>2, <2>3 DEF TypeOK
<1>4. ASSUME NEW c \in Consents, Exchanges(c) PROVE TypeOK'
  <2>1. consent' \in [Consents -> Consent]
    BY <1>4, ConsentMoves DEF ConsentGoes
  <2>2. looks' \in 0 .. MaxLooks /\ faults' \in 0 .. MaxFaults
    BY <1>4, CountsKept DEF Exchanges
  <2>3. issued' = [issued EXCEPT ![c] = <<now + Life>>]
        /\ honoured' = [honoured EXCEPT ![c] = IF Holds(network) THEN 1 ELSE 0]
    BY <1>4 DEF Exchanges
  <2>4. <<now + Life>> \in Seq(Nat) /\ Len(<<now + Life>>) <= MaxGen
    BY Bounds DEF TypeOK
  <2>5. issued' \in [Grants -> Seq(Nat)] /\ \A g \in Grants : Len(issued'[g]) <= MaxGen
    BY <2>3, <2>4 DEF TypeOK
  <2>6. honoured' \in [Grants -> 0 .. MaxGen]
    <3>1. (IF Holds(network) THEN 1 ELSE 0) \in 0 .. MaxGen
      BY Bounds
    <3> QED
      BY <2>3, <3>1 DEF TypeOK
  <2> QED
    BY <1>4, <2>1, <2>2, <2>5, <2>6 DEF Exchanges, TypeOK
<1>5. ASSUME NEW c \in Consents, Commits(c) PROVE TypeOK'
  <2>1. consent' \in [Consents -> Consent]
    BY <1>5, ConsentMoves DEF ConsentGoes
  <2>2. looks' \in 0 .. MaxLooks /\ faults' \in 0 .. MaxFaults
    BY <1>5, CountsKept DEF Commits
  <2>3. consent[c].row \in Row \cup {NoRow}
    BY DEF TypeOK, Consent
  <2>4. account' \in [Grants -> Row \cup {NoRow}]
    BY <1>5, <2>3 DEF Commits, TypeOK
  <2> QED
    BY <1>5, <2>1, <2>2, <2>4 DEF Commits, TypeOK
<1>6. ASSUME NEW v \in Views, NEW g \in Grants, Looks(v, g) PROVE TypeOK'
  <2> DEFINE x == [step |-> "read", of |-> g, row |-> account[g]]
  <2>1. x \in View
    BY DEF TypeOK, View
  <2>2. view' = [view EXCEPT ![v] = x] /\ account[g] # NoRow
    BY <1>6 DEF Looks, ReadBy
  <2>3. view' \in [Views -> View] /\ \A w \in Views : view'[w].step # "idle" => view'[w].row # NoRow
    BY <2>1, <2>2 DEF TypeOK
  <2>4. looks' \in 0 .. MaxLooks /\ faults' \in 0 .. MaxFaults
    BY <1>6, Bounds DEF Looks, ReadBy, TypeOK
  <2>5. crossed' \subseteq Grants
    BY <1>6 DEF Looks, ReadBy, TypeOK
  <2> QED
    BY <1>6, <2>3, <2>4, <2>5 DEF Looks, ReadBy, TypeOK
<1>7. ASSUME NEW v \in Views, SkipsRefresh(v) PROVE TypeOK'
  <2>1. view' \in [Views -> View] /\ \A w \in Views : view'[w].step # "idle" => view'[w].row # NoRow
    <3>1. view[v].row # NoRow
      BY <1>7 DEF TypeOK, SkipsRefresh, IsAt
    <3> QED
      BY <1>7, <3>1, ViewMoves, HandsKept DEF ViewGoes
  <2> QED
    BY <1>7, <2>1, CountsKept DEF SkipsRefresh, TypeOK
<1>8. ASSUME NEW v \in Views, IsIssued(v) PROVE TypeOK'
  <2>1. PICK g \in Grants, n \in 1 .. MaxGen, rotates \in BOOLEAN, r \in Row :
           /\ Answer(v, g, n, rotates, r)
           /\ \/ ViewGoes(v, "holds", r) /\ UNCHANGED cut
              \/ ViewEnds(v) /\ cut' = cut \cup {g}
    BY <1>8, IsIssuedAnswers
  <2>2. r # NoRow
    BY RowIsRow
  <2>3. view' \in [Views -> View] /\ \A w \in Views : view'[w].step # "idle" => view'[w].row # NoRow
    BY <2>1, <2>2, HandsKept DEF ViewGoes, ViewEnds
  <2>4. issued' \in [Grants -> Seq(Nat)] /\ \A h \in Grants : Len(issued'[h]) <= MaxGen
    <3>1. issued' = [issued EXCEPT ![g] = Append(@, now + Life)] /\ n = Len(issued[g]) + 1
      BY <2>1 DEF Answer
    <3>2. issued[g] \in Seq(Nat) /\ now + Life \in Nat
      BY Bounds DEF TypeOK
    <3>3. Append(issued[g], now + Life) \in Seq(Nat) /\ Len(Append(issued[g], now + Life)) <= MaxGen
      BY <3>1, <3>2, Bounds
    <3> QED
      BY <3>1, <3>3 DEF TypeOK
  <2>5. honoured' \in [Grants -> 0 .. MaxGen]
    <3>1. honoured' = [honoured EXCEPT ![g] = IF rotates THEN n ELSE @]
      BY <2>1 DEF Answer
    <3>2. (IF rotates THEN n ELSE honoured[g]) \in 0 .. MaxGen
      BY Bounds DEF TypeOK
    <3> QED
      BY <3>1, <3>2 DEF TypeOK
  <2>6. looks' \in 0 .. MaxLooks /\ faults' \in 0 .. MaxFaults
    BY <1>8, CountsKept DEF IsIssued
  <2>7. cut' \subseteq Grants
    BY <2>1 DEF TypeOK
  <2>8. UNCHANGED <<now, network, there, account, consent, left, overlapped, crossed>>
    BY <1>8 DEF IsIssued
  <2> QED
    BY <2>3, <2>4, <2>5, <2>6, <2>7, <2>8 DEF TypeOK
<1>9. ASSUME NEW v \in Views, Saves(v) PROVE TypeOK'
  <2>1. view[v].row # NoRow /\ view[v].row \in Row \cup {NoRow} /\ Of(v) \in Grants
    BY <1>9 DEF TypeOK, Saves, IsAt, View, Of
  <2>2. view' \in [Views -> View] /\ \A w \in Views : view'[w].step # "idle" => view'[w].row # NoRow
    BY <1>9, <2>1, ViewMoves, HandsKept DEF ViewGoes, ViewEnds
  <2>3. account' \in [Grants -> Row \cup {NoRow}]
    BY <1>9, <2>1, ViewMoves DEF TypeOK
  <2>4. looks' \in 0 .. MaxLooks /\ faults' \in 0 .. MaxFaults
    BY <1>9, CountsKept DEF Saves
  <2> QED
    BY <1>9, <2>2, <2>3, <2>4 DEF Saves, TypeOK
<1>10. ASSUME NEW v \in Views, IsRefused(v) \/ GetsProfile(v) \/ KeepsProfile(v) \/ ViewStops(v)
       PROVE  TypeOK'
  <2>1. view' \in [Views -> View] /\ \A w \in Views : view'[w].step # "idle" => view'[w].row # NoRow
    BY <1>10, ViewMoves, HandsKept DEF ViewEnds
  <2>2. account' \in [Grants -> Row \cup {NoRow}]
    <3>1. CASE GetsProfile(v)
      BY <3>1, ProfileWrites DEF TypeOK
    <3>2. CASE IsRefused(v) \/ KeepsProfile(v) \/ ViewStops(v)
      BY <3>2 DEF IsRefused, KeepsProfile, ViewStops, TypeOK
    <3> QED
      BY <1>10, <3>1, <3>2
  <2>3. looks' \in 0 .. MaxLooks /\ faults' \in 0 .. MaxFaults
    BY <1>10, CountsKept DEF IsRefused, GetsProfile, KeepsProfile, ViewStops
  <2>4. cut' \subseteq Grants
    <3>1. Of(v) \in Grants /\ cut \subseteq Grants
      BY DEF TypeOK, Of, View
    <3>2. cut' \subseteq cut \cup {Of(v)}
      BY <1>10 DEF IsRefused, GetsProfile, KeepsProfile, ViewStops
    <3> QED
      BY <3>1, <3>2
  <2>5. UNCHANGED <<now, network, there, issued, honoured, consent, left, overlapped, crossed>>
    BY <1>10 DEF IsRefused, GetsProfile, KeepsProfile, ViewStops
  <2> QED
    BY <2>1, <2>2, <2>3, <2>4, <2>5 DEF TypeOK
<1>11. CASE UNCHANGED vars
  BY <1>11 DEF vars, TypeOK, bounds
<1> QED
  BY <1>1, <1>2, <1>3, <1>4, <1>5, <1>6, <1>7, <1>8, <1>9, <1>10, <1>11 DEF Next

-----------------------------------------------------------------------------
(* One account, and none that was disconnected *)

(* Only a consent that commits makes a row: whatever else is under way     *)
(* writes to rows that are there, or removes some.                         *)
LEMMA OnlyConsentsMakeRows ==
  ASSUME TypeOK, [Next]_vars, \A c \in Consents : ~Commits(c)
  PROVE  Rows' \subseteq Rows
<1>1. ASSUME Disconnects \/ Erases PROVE Rows' \subseteq Rows
  BY <1>1 DEF Disconnects, Erases, Rows
<1>2. ASSUME UNCHANGED account PROVE Rows' \subseteq Rows
  BY <1>2 DEF Rows
<1>3. ASSUME NEW c \in Consents,
             Authorizes(c) \/ ComesBack(c) \/ Exchanges(c) \/ Clears(c) \/ FallsThrough(c)
      PROVE  Rows' \subseteq Rows
  BY <1>2, <1>3 DEF Authorizes, ComesBack, Exchanges, Clears, FallsThrough
<1>4. ASSUME NEW v \in Views,
             \/ SkipsRefresh(v) \/ IsIssued(v) \/ IsRefused(v) \/ KeepsProfile(v) \/ ViewStops(v)
             \/ \E g \in Grants : Looks(v, g)
      PROVE  Rows' \subseteq Rows
  BY <1>2, <1>4 DEF SkipsRefresh, IsIssued, IsRefused, KeepsProfile, ViewStops, Looks, ReadBy
<1>5. ASSUME NEW v \in Views, Saves(v) PROVE Rows' \subseteq Rows
  BY <1>2, <1>5, ViewMoves DEF Rows, TypeOK
<1>6. ASSUME NEW v \in Views, GetsProfile(v) PROVE Rows' \subseteq Rows
  BY <1>2, <1>6, ProfileWrites DEF Rows, TypeOK
<1>7. CASE Ticks \/ UNCHANGED vars
  BY <1>2, <1>7 DEF Ticks, vars
<1> QED
  BY <1>1, <1>3, <1>4, <1>5, <1>6, <1>7 DEF Next

(* A consent comes between its two statements only by the first of them.   *)
LEMMA OnlyClearsClears ==
  ASSUME TypeOK, [Next]_vars, \A c \in Consents : ~Clears(c)
  PROVE  /\ overlapped' = overlapped
         /\ \A c \in Consents : consent'[c].step = "cleared" => consent'[c] = consent[c]
<1>1. ASSUME NEW d \in Consents,
             Authorizes(d) \/ ComesBack(d) \/ Exchanges(d) \/ Commits(d) \/ FallsThrough(d)
      PROVE  \A c \in Consents : consent'[c].step = "cleared" => consent'[c] = consent[c]
  BY <1>1, ConsentMoves DEF ConsentGoes
<1>2. ASSUME NEW d \in Consents,
             Authorizes(d) \/ ComesBack(d) \/ Exchanges(d) \/ Commits(d) \/ FallsThrough(d)
      PROVE  overlapped' = overlapped
  BY <1>2 DEF Authorizes, ComesBack, Exchanges, Commits, FallsThrough, history
<1>3. ASSUME Disconnects \/ Erases \/ Ticks \/ UNCHANGED vars
      PROVE  UNCHANGED <<overlapped, consent>>
  BY <1>3 DEF Disconnects, Erases, Ticks, vars, history
<1>4. ASSUME NEW v \in Views,
             \/ SkipsRefresh(v) \/ IsIssued(v) \/ IsRefused(v) \/ Saves(v) \/ GetsProfile(v)
             \/ KeepsProfile(v) \/ ViewStops(v) \/ \E g \in Grants : Looks(v, g)
      PROVE  UNCHANGED <<overlapped, consent>>
  BY <1>4 DEF SkipsRefresh, IsIssued, IsRefused, Saves, GetsProfile, KeepsProfile, ViewStops,
     Looks, ReadBy, history
<1> QED
  BY <1>1, <1>2, <1>3, <1>4 DEF Next

LEMMA OverlapKept ==
  ASSUME TypeOK, OverlapIsNoted, [Next]_vars
  PROVE  OverlapIsNoted'
<1> SUFFICES ASSUME ~overlapped'
             PROVE  /\ \A g, h \in Rows' : g = h
                    /\ \A c \in Consents : consent'[c].step = "cleared" =>
                         /\ Rows' \subseteq consent'[c].seen
                         /\ \A d \in Consents : consent'[d].step = "cleared" => d = c
  BY DEF OverlapIsNoted
<1>1. ASSUME NEW c \in Consents, Commits(c)
      PROVE  /\ \A g, h \in Rows' : g = h
             /\ \A d \in Consents : consent'[d].step # "cleared"
  <2>1. ~overlapped /\ consent[c].step = "cleared"
    BY <1>1 DEF Commits, history
  <2>2. \A g \in Rows : g \in consent[c].seen
    BY <2>1 DEF OverlapIsNoted
  <2>3. \A g \in Rows' : g = c
    BY <1>1, <2>2 DEF Commits, Rows, TypeOK
  <2>4. \A d \in Consents : consent'[d].step # "cleared"
    <3>1. consent'[c].step = "over" /\ \A d \in Consents : d # c => consent'[d] = consent[d]
      BY <1>1, ConsentMoves DEF ConsentGoes
    <3> QED
      BY <2>1, <3>1 DEF OverlapIsNoted
  <2> QED
    BY <2>3, <2>4
<1>2. ASSUME NEW c \in Consents, Clears(c)
      PROVE  /\ \A g, h \in Rows' : g = h
             /\ \A d \in Consents : consent'[d].step = "cleared" =>
                  d = c /\ Rows' \subseteq consent'[d].seen
  <2>1. ~overlapped /\ \A d \in Consents : consent[d].step # "cleared"
    BY <1>2 DEF Clears
  <2>2. Rows' = Rows
    BY <1>2 DEF Clears, Rows
  <2>3. consent'[c].seen = Rows /\ \A d \in Consents : d # c => consent'[d] = consent[d]
    BY <1>2, ConsentMoves DEF ConsentGoes
  <2> QED
    BY <2>1, <2>2, <2>3 DEF OverlapIsNoted
<1>3. CASE \A c \in Consents : ~Commits(c) /\ ~Clears(c)
  <2>1. Rows' \subseteq Rows
    BY <1>3, OnlyConsentsMakeRows
  <2>2. overlapped' = overlapped
        /\ \A c \in Consents : consent'[c].step = "cleared" => consent'[c] = consent[c]
    BY <1>3, OnlyClearsClears
  <2> QED
    BY <2>1, <2>2 DEF OverlapIsNoted
<1> QED
  BY <1>1, <1>2, <1>3

(* Who has disconnected has no row; the next consent takes that back. *)
LEMMA DisconnectKept ==
  ASSUME TypeOK, DisconnectStands, [Next]_vars
  PROVE  DisconnectStands'
<1>1. ASSUME NEW c \in Consents, Commits(c) PROVE ~left'
  BY <1>1 DEF Commits
<1>2. ASSUME Disconnects PROVE Rows' = {}
  BY <1>2 DEF Disconnects, Disconnected, Rows
<1>3. ASSUME ~Disconnects, \A c \in Consents : ~Commits(c) PROVE left' = left
  <2>1. ASSUME NEW c \in Consents,
               Authorizes(c) \/ ComesBack(c) \/ Exchanges(c) \/ Clears(c) \/ FallsThrough(c)
        PROVE  left' = left
    BY <2>1 DEF Authorizes, ComesBack, Exchanges, Clears, FallsThrough
  <2>2. ASSUME NEW v \in Views,
               \/ SkipsRefresh(v) \/ IsIssued(v) \/ IsRefused(v) \/ Saves(v) \/ GetsProfile(v)
               \/ KeepsProfile(v) \/ ViewStops(v) \/ \E g \in Grants : Looks(v, g)
        PROVE  left' = left
    BY <2>2 DEF SkipsRefresh, IsIssued, IsRefused, Saves, GetsProfile, KeepsProfile, ViewStops,
       Looks, ReadBy
  <2>3. ASSUME Erases \/ Ticks \/ UNCHANGED vars PROVE left' = left
    BY <2>3 DEF Erases, Ticks, vars
  <2> QED
    BY <1>3, <2>1, <2>2, <2>3 DEF Next
<1>4. CASE \A c \in Consents : ~Commits(c)
  <2>1. Rows' \subseteq Rows
    BY <1>4, OnlyConsentsMakeRows
  <2> QED
    BY <1>2, <1>3, <1>4, <2>1 DEF DisconnectStands
<1> QED
  BY <1>1, <1>4 DEF DisconnectStands

(* Rows that are all one and the same are one at most. *)
LEMMA OneRow ==
  ASSUME OverlapIsNoted
  PROVE  OneAccount
<1> SUFFICES ASSUME ~overlapped PROVE ~(Cardinality(Rows) > 1)
  BY DEF OneAccount
<1>1. CASE Rows = {}
  BY <1>1, FS_EmptySet
<1>2. CASE Rows # {}
  <2>1. PICK g \in Rows : TRUE
    BY <1>2
  <2>2. Rows = {g}
    BY <2>1 DEF OverlapIsNoted
  <2>3. Cardinality({g}) = 1
    BY FS_Singleton
  <2> QED
    BY <2>2, <2>3
<1> QED
  BY <1>1, <1>2

LEMMA InitTypes ==
  ASSUME Init
  PROVE  TypeOK
<1>1. PICK had \in BOOLEAN, says \in BOOLEAN :
        /\ account = [g \in Grants |->
             IF had /\ g = FromDraft THEN NewRow(g, network, says, 0) ELSE NoRow]
        /\ issued = [g \in Grants |-> IF had /\ g = FromDraft THEN <<Life>> ELSE <<>>]
        /\ honoured = [g \in Grants |-> IF had /\ g = FromDraft /\ Holds(network) THEN 1 ELSE 0]
  BY DEF Init
<1>2. FromDraft \in Grants /\ 0 \in 0 .. MaxNow /\ 0 \in 0 .. MaxLooks /\ 0 \in 0 .. MaxFaults
  BY Bounds DEF Grants
<1>3. account \in [Grants -> Row \cup {NoRow}]
  <2>1. NewRow(FromDraft, network, says, 0) \in Row
    BY <1>2, NewRowIsRow
  <2> QED
    BY <1>1, <2>1
<1>4. issued \in [Grants -> Seq(Nat)] /\ \A g \in Grants : Len(issued[g]) <= MaxGen
  <2>1. <<Life>> \in Seq(Nat) /\ Len(<<Life>>) = 1 /\ <<>> \in Seq(Nat) /\ Len(<<>>) = 0
    BY Bounds
  <2> QED
    BY <1>1, <2>1, Bounds
<1>5. honoured \in [Grants -> 0 .. MaxGen]
  <2>1. 1 \in 0 .. MaxGen /\ 0 \in 0 .. MaxGen
    BY Bounds
  <2> QED
    BY <1>1, <2>1
<1>6. consent \in [Consents -> Consent]
  <2>1. IdleConsent("none") \in Consent
    BY <1>2 DEF IdleConsent, Consent
  <2> QED
    BY <2>1 DEF Init
<1>7. view \in [Views -> View] /\ \A v \in Views : view[v].step = "idle"
  <2>1. IdleView \in View /\ IdleView.step = "idle"
    BY <1>2 DEF IdleView, View
  <2> QED
    BY <2>1 DEF Init
<1> QED
  BY <1>2, <1>3, <1>4, <1>5, <1>6, <1>7 DEF Init, TypeOK

(* A person has one account of a network unless two consents overlapped,   *)
(* and none once disconnected (handleCallback, disconnect).                *)
THEOREM AccountsAreSafe == Spec => []AccountsInv
<1>1. Init => AccountsInv
  <2> SUFFICES ASSUME Init PROVE AccountsInv
    OBVIOUS
  <2>1. TypeOK
    BY InitTypes
  <2>2. OverlapIsNoted
    <3>1. \A g \in Rows : g = FromDraft
      BY DEF Init, Rows
    <3>2. \A c \in Consents : consent[c].step # "cleared"
      BY DEF Init, IdleConsent
    <3> QED
      BY <3>1, <3>2 DEF OverlapIsNoted
  <2>3. OneAccount /\ DisconnectStands
    BY <2>2, OneRow DEF Init, DisconnectStands
  <2> QED
    BY <2>1, <2>2, <2>3 DEF AccountsInv
<1>2. AccountsInv /\ [Next]_vars => AccountsInv'
  <2> SUFFICES ASSUME AccountsInv, [Next]_vars PROVE AccountsInv'
    OBVIOUS
  <2>1. TypeOK' /\ OverlapIsNoted' /\ DisconnectStands'
    BY TypeKept, OverlapKept, DisconnectKept DEF AccountsInv
  <2>2. OneAccount'
    BY <2>1, OneRow, PTL
  <2> QED
    BY <2>1, <2>2 DEF AccountsInv
<1> QED
  BY <1>1, <1>2, PTL DEF Spec

-----------------------------------------------------------------------------
(* The tokens, one grant, one consent and one view at a time.  What a row  *)
(* of grant g says is compared with the times at which the network lets    *)
(* its tokens die and with the refresh token it honours.                   *)

Known(row, g, times) == OfGrant(row, g) /\ row.access[2] \in 1 .. Len(times)
Timely(row, times)   == row.expires <= times[row.access[2]]
Taken(row, token)    == row.refresh # NoToken => row.refresh[2] = token

TimesFit(g) == \A n \in 1 .. Len(issued[g]) : issued[g][n] <= now + Life

RowFits(g) ==
  account[g] # NoRow =>
    /\ Known(account[g], g, issued[g])
    /\ g \notin crossed => Timely(account[g], issued[g])
    /\ (g \notin crossed \cup cut /\ \A w \in Views : view[w].step = "holds" => view[w].of # g)
         => Taken(account[g], honoured[g])

HoldsRow(c) == consent[c].step \in {"holds", "cleared"}

ConsentFits(c) ==
  /\ consent[c].step # "over" =>
       account[c] = NoRow /\ \A v \in Views : view[v].step # "idle" => view[v].of # c
  /\ HoldsRow(c) =>
       /\ consent[c].row # NoRow
       /\ Known(consent[c].row, c, issued[c]) /\ Timely(consent[c].row, issued[c])
       /\ Taken(consent[c].row, honoured[c])

ViewFits(v) ==
  LET row == view[v].row
      g   == view[v].of IN
  view[v].step # "idle" =>
    /\ Known(row, g, issued[g])
    /\ g \notin crossed => Timely(row, issued[g])
    /\ g \notin crossed \cup cut => Taken(row, honoured[g])
    /\ g \notin crossed /\ view[v].step # "holds" => account[g] \in {row, NoRow}

Apart(v, w) ==
  (v # w /\ view[v].step # "idle" /\ view[w].step # "idle" /\ view[v].of = view[w].of)
    => view[v].of \in crossed

Fits ==
  /\ \A g \in Grants : TimesFit(g) /\ RowFits(g)
  /\ \A c \in Consents : ConsentFits(c)
  /\ \A v \in Views : ViewFits(v)
  /\ \A v, w \in Views : Apart(v, w)

(* Of a row of grant g the two forms say the same. *)
LEMMA SameForARow ==
  ASSUME NEW row, NEW g, OfGrant(row, g)
  PROVE  /\ WasIssued(row) <=> row.access[2] \in 1 .. Len(issued[g])
         /\ NotLate(row) <=> Timely(row, issued[g])
         /\ Lives(row) <=> Taken(row, honoured[g])
  BY DEF OfGrant, WasIssued, NotLate, Lives, Timely, Taken

LEMMA KeptIsFits ==
  ASSUME TypeOK
  PROVE  TokensAreKept <=> Fits
<1> USE DEF Known, IsAt, Of
<1>0. Consents \subseteq Grants
  BY DEF Grants
<1>1. ASSUME TokensAreKept PROVE Fits
  <2>1. ASSUME NEW g \in Grants PROVE TimesFit(g) /\ RowFits(g)
    <3>1. TimesFit(g)
      BY <1>1 DEF TokensAreKept, IssuesAreSound, TimesFit
    <3>2. ASSUME account[g] # NoRow
          PROVE  /\ OfGrant(account[g], g) /\ WasIssued(account[g])
                 /\ g \notin crossed => NotLate(account[g])
                 /\ (g \notin crossed \cup cut /\ \A w \in Views : view[w].step = "holds" => view[w].of # g)
                      => Lives(account[g])
      BY <1>1, <3>2 DEF TokensAreKept, IssuesAreSound, TokensAreOfTheirGrant, ExpiryIsNotLate,
         RefreshTokenLives, Rows, Holding
    <3> QED
      BY <3>1, <3>2, SameForARow DEF RowFits
  <2>2. ASSUME NEW c \in Consents PROVE ConsentFits(c)
    BY <1>1, SameForARow DEF TokensAreKept, ConsentsAreSound, ConsentFits, HoldsRow
  <2>3. ASSUME NEW v \in Views PROVE ViewFits(v)
    BY <1>1, SameForARow DEF TokensAreKept, ViewsAreSound, ViewFits
  <2>4. ASSUME NEW v \in Views, NEW w \in Views PROVE Apart(v, w)
    BY <1>1 DEF TokensAreKept, ViewsAreSound, Apart
  <2> QED
    BY <2>1, <2>2, <2>3, <2>4 DEF Fits
<1>2. ASSUME Fits PROVE TokensAreKept
  <2>1. ASSUME NEW g \in Rows
        PROVE  /\ OfGrant(account[g], g) /\ WasIssued(account[g])
               /\ g \notin crossed => NotLate(account[g])
               /\ (g \notin crossed \cup cut /\ \A w \in Views : view[w].step = "holds" => view[w].of # g)
                    => Lives(account[g])
    BY <1>2, SameForARow DEF Fits, RowFits, Rows
  <2>2. TokensAreOfTheirGrant /\ ExpiryIsNotLate /\ RefreshTokenLives
    BY <2>1 DEF TokensAreOfTheirGrant, ExpiryIsNotLate, RefreshTokenLives, Holding
  <2>3. IssuesAreSound
    BY <1>2, <2>1 DEF IssuesAreSound, Fits, TimesFit
  <2>4. ConsentsAreSound
    <3>1. ASSUME NEW c \in Consents PROVE ConsentFits(c)
      BY <1>2 DEF Fits
    <3> QED
      BY <3>1, SameForARow DEF ConsentsAreSound, ConsentFits, HoldsRow
  <2>5. ViewsAreSound
    <3>1. ASSUME NEW v \in Views
          PROVE  ViewFits(v) /\ \A w \in Views : Apart(v, w)
      BY <1>2 DEF Fits
    <3> QED
      BY <3>1, SameForARow DEF ViewsAreSound, ViewFits, Apart
  <2> QED
    BY <2>2, <2>3, <2>4, <2>5 DEF TokensAreKept
<1> QED
  BY <1>1, <1>2

(* What was known and timely stays so when the network issues more.        *)
LEMMA TimesGrow ==
  ASSUME NEW row, NEW g, NEW times \in Seq(Nat), NEW at \in Nat,
         NEW later, later = Append(times, at), Known(row, g, times)
  PROVE  /\ Known(row, g, later)
         /\ Timely(row, times) => Timely(row, later)
<1>1. Len(later) = Len(times) + 1 /\ \A n \in 1 .. Len(times) : later[n] = times[n]
  OBVIOUS
<1> QED
  BY <1>1 DEF Known, Timely

-----------------------------------------------------------------------------
(* A consent's steps and what they leave *)

LEMMA FitsAfterRemoval ==
  ASSUME TypeOK, Fits, Disconnects \/ Erases \/ Ticks \/ UNCHANGED vars
  PROVE  Fits'
<1>1. /\ UNCHANGED <<issued, honoured, consent, view, crossed, cut>>
      /\ \A g \in Grants : account'[g] \in {account[g], NoRow}
      /\ now' \in {now, now + 1}
  BY DEF Disconnects, Erases, Ticks, vars, provider, history, TypeOK
<1>2. ASSUME NEW g \in Grants PROVE TimesFit(g)'
  <2>1. \A n \in 1 .. Len(issued[g]) : issued[g][n] \in Nat /\ issued[g][n] <= now + Life
    <3>1. issued[g] \in Seq(Nat)
      BY DEF TypeOK
    <3>2. \A n \in 1 .. Len(issued[g]) : issued[g][n] \in Nat
      BY <3>1
    <3> QED
      BY <3>2 DEF Fits, TimesFit
  <2>2. now \in Nat /\ Life \in Nat
    BY Bounds DEF TypeOK
  <2>3. issued' = issued /\ now' \in Nat /\ now <= now'
    BY <1>1, <2>2
  <2>4. \A n \in 1 .. Len(issued[g]) : issued[g][n] <= now' + Life
    BY <2>1, <2>2, <2>3
  <2> QED
    BY <2>3, <2>4 DEF TimesFit
<1>3. ASSUME NEW g \in Grants PROVE RowFits(g)'
  BY <1>1 DEF Fits, RowFits
<1>4. ASSUME NEW c \in Consents PROVE ConsentFits(c)'
  BY <1>1 DEF Fits, ConsentFits, HoldsRow, Grants
<1>5. ASSUME NEW v \in Views PROVE ViewFits(v)'
  <2>1. view[v].of \in Grants
    BY DEF TypeOK, View
  <2> QED
    BY <1>1, <2>1 DEF Fits, ViewFits
<1>6. ASSUME NEW v \in Views, NEW w \in Views PROVE Apart(v, w)'
  BY <1>1 DEF Fits, Apart
<1> QED
  BY <1>2, <1>3, <1>4, <1>5, <1>6 DEF Fits

LEMMA FitsAfterConsentMoves ==
  ASSUME TypeOK, Fits, NEW c \in Consents,
         Authorizes(c) \/ ComesBack(c) \/ Clears(c) \/ FallsThrough(c)
  PROVE  Fits'
<1>1. UNCHANGED <<now, issued, honoured, account, view, crossed, cut>>
  BY DEF Authorizes, ComesBack, Clears, FallsThrough, provider, history
<1>2. /\ \A d \in Consents : d # c => consent'[d] = consent[d]
      /\ consent[c].step # "over"
      /\ HoldsRow(c)' => HoldsRow(c) /\ consent'[c].row = consent[c].row
  BY ConsentMoves DEF ConsentGoes, Authorizes, ComesBack, Clears, FallsThrough, HoldsRow
<1>3. ASSUME NEW g \in Grants PROVE TimesFit(g)' /\ RowFits(g)'
  BY <1>1 DEF Fits, TimesFit, RowFits
<1>4. ASSUME NEW d \in Consents PROVE ConsentFits(d)'
  <2>1. ConsentFits(d)
    BY DEF Fits
  <2>2. CASE d = c
    BY <1>1, <1>2, <2>1, <2>2 DEF ConsentFits, HoldsRow
  <2>3. CASE d # c
    BY <1>1, <1>2, <2>1, <2>3 DEF ConsentFits, HoldsRow
  <2> QED
    BY <2>2, <2>3
<1>5. ASSUME NEW v \in Views PROVE ViewFits(v)'
  BY <1>1 DEF Fits, ViewFits
<1>6. ASSUME NEW v \in Views, NEW w \in Views PROVE Apart(v, w)'
  BY <1>1 DEF Fits, Apart
<1> QED
  BY <1>3, <1>4, <1>5, <1>6 DEF Fits

(* The exchange makes the grant: nobody has a row or a copy of it yet. *)
LEMMA FitsAfterExchange ==
  ASSUME TypeOK, Fits, NEW c \in Consents, Exchanges(c)
  PROVE  Fits'
<1>0. c \in Grants /\ consent[c].step = "found"
  BY DEF Exchanges, Grants
<1>1. /\ UNCHANGED <<now, account, view, crossed, cut>>
      /\ issued' = [issued EXCEPT ![c] = <<now + Life>>]
      /\ honoured' = [honoured EXCEPT ![c] = IF Holds(network) THEN 1 ELSE 0]
  BY DEF Exchanges, history
<1>2. PICK says \in BOOLEAN :
        /\ consent'[c].row = NewRow(c, network, says, now)
        /\ consent'[c].step = "holds"
        /\ \A d \in Consents : d # c => consent'[d] = consent[d]
  BY ConsentMoves DEF ConsentGoes, Exchanges
<1> DEFINE r == NewRow(c, network, says, now)
<1>3. /\ r \in Row /\ r # NoRow /\ r.access = <<c, 1>> /\ r.refresh \in {<<c, 1>>, NoToken}
      /\ (r.refresh # NoToken => Holds(network)) /\ r.expires \in {Never, now + Life}
  <2>1. now \in 0 .. MaxNow
    BY DEF TypeOK
  <2>2. /\ r \in Row /\ r.access = <<c, 1>> /\ r.refresh \in {<<c, 1>>, NoToken}
        /\ (r.refresh # NoToken => Holds(network)) /\ r.expires \in {Never, now + Life}
    BY <1>0, <2>1, NewRowIsRow
  <2> QED
    BY <2>2, RowIsRow
<1> HIDE DEF r
<1>4. /\ issued'[c] = <<now + Life>>
      /\ \A g \in Grants : g # c => issued'[g] = issued[g] /\ honoured'[g] = honoured[g]
      /\ Holds(network) => honoured'[c] = 1
  BY <1>0, <1>1 DEF TypeOK
<1>5. now \in Nat /\ Life \in Nat /\ now + Life \in Nat
  BY Bounds DEF TypeOK
<1>6. ASSUME NEW g \in Grants PROVE TimesFit(g)'
  <2>1. CASE g = c
    BY <1>1, <1>4, <1>5, <2>1 DEF TimesFit
  <2>2. CASE g # c
    BY <1>1, <1>4, <2>2 DEF TimesFit, Fits
  <2> QED
    BY <2>1, <2>2
<1>7. account[c] = NoRow /\ \A v \in Views : view[v].step # "idle" => view[v].of # c
  BY <1>0 DEF Fits, ConsentFits
<1>8. ASSUME NEW g \in Grants PROVE RowFits(g)'
  BY <1>1, <1>4, <1>7 DEF Fits, RowFits
<1>9. ASSUME NEW d \in Consents PROVE ConsentFits(d)'
  <2>1. CASE d = c
    <3>1. <<c, 1>>[1] = c /\ <<c, 1>>[2] = 1 /\ <<c, 1>> # NoToken
      BY <1>0, Bounds, IssuedIsToken
    <3>2. Known(r, c, <<now + Life>>)
      BY <1>3, <1>5, <3>1 DEF Known, OfGrant
    <3>3. Timely(r, <<now + Life>>)
      BY <1>3, <1>5, <3>1 DEF Timely, Never
    <3>4. Taken(r, honoured'[c])
      BY <1>3, <1>4, <3>1 DEF Taken
    <3> QED
      BY <1>1, <1>2, <1>3, <1>4, <1>7, <2>1, <3>2, <3>3, <3>4 DEF ConsentFits, HoldsRow, r
  <2>2. CASE d # c
    <3>1. d \in Grants /\ ConsentFits(d)
      BY DEF Grants, Fits
    <3> QED
      BY <1>1, <1>2, <1>4, <2>2, <3>1 DEF ConsentFits, HoldsRow
  <2> QED
    BY <2>1, <2>2
<1>10. ASSUME NEW v \in Views PROVE ViewFits(v)'
  <2>1. view[v].of \in Grants
    BY DEF TypeOK, View
  <2> QED
    BY <1>1, <1>4, <1>7, <2>1 DEF Fits, ViewFits
<1>11. ASSUME NEW v \in Views, NEW w \in Views PROVE Apart(v, w)'
  BY <1>1 DEF Fits, Apart
<1> QED
  BY <1>6, <1>8, <1>9, <1>10, <1>11 DEF Fits

(* The commit makes the row, of a grant that nobody has looked at. *)
LEMMA FitsAfterCommit ==
  ASSUME TypeOK, Fits, NEW c \in Consents, Commits(c)
  PROVE  Fits'
<1>0. c \in Grants /\ consent[c].step = "cleared" /\ ConsentFits(c)
  BY DEF Commits, Grants, Fits
<1>1. /\ UNCHANGED <<now, issued, honoured, view, crossed, cut>>
      /\ account'[c] = consent[c].row
      /\ \A g \in Grants : g # c => account'[g] \in {account[g], NoRow}
  BY <1>0 DEF Commits, provider, history
<1>2. consent'[c].step = "over" /\ \A d \in Consents : d # c => consent'[d] = consent[d]
  BY ConsentMoves DEF ConsentGoes
<1>3. ASSUME NEW g \in Grants PROVE TimesFit(g)' /\ RowFits(g)'
  <2>1. TimesFit(g)'
    BY <1>1 DEF Fits, TimesFit
  <2>2. CASE g = c
    <3>1. /\ Known(consent[c].row, c, issued[c]) /\ Timely(consent[c].row, issued[c])
          /\ Taken(consent[c].row, honoured[c])
      BY <1>0 DEF ConsentFits, HoldsRow
    <3>2. /\ Known(account'[c], c, issued'[c]) /\ Timely(account'[c], issued'[c])
          /\ Taken(account'[c], honoured'[c])
      BY <1>1, <3>1
    <3> QED
      BY <2>1, <2>2, <3>2 DEF RowFits
  <2>3. CASE g # c
    <3>1. account'[g] \in {account[g], NoRow} /\ RowFits(g)
      BY <1>1, <2>3 DEF Fits
    <3> QED
      BY <1>1, <2>1, <3>1 DEF RowFits
  <2> QED
    BY <2>1, <2>2, <2>3
<1>4. ASSUME NEW d \in Consents PROVE ConsentFits(d)'
  <2>1. d \in Grants /\ ConsentFits(d)
    BY DEF Grants, Fits
  <2>2. CASE d = c
    BY <1>2, <2>2 DEF ConsentFits, HoldsRow
  <2>3. CASE d # c
    BY <1>1, <1>2, <2>1, <2>3 DEF ConsentFits, HoldsRow
  <2> QED
    BY <2>2, <2>3
<1>5. ASSUME NEW v \in Views PROVE ViewFits(v)'
  <2>1. view[v].of \in Grants /\ (view[v].step # "idle" => view[v].of # c)
    BY <1>0 DEF TypeOK, View, ConsentFits
  <2> QED
    BY <1>1, <2>1 DEF Fits, ViewFits
<1>6. ASSUME NEW v \in Views, NEW w \in Views PROVE Apart(v, w)'
  BY <1>1 DEF Fits, Apart
<1> QED
  BY <1>3, <1>4, <1>5, <1>6 DEF Fits

-----------------------------------------------------------------------------
(* A view's steps and what they leave *)

(* A view reads the row of a grant; if another is at it, they cross.       *)
LEMMA FitsAfterLook ==
  ASSUME TypeOK, Fits, NEW v \in Views, NEW g \in Grants, Looks(v, g)
  PROVE  Fits'
<1>1. /\ UNCHANGED <<now, issued, honoured, account, consent, cut>>
      /\ account[g] # NoRow /\ view[v].step = "idle"
      /\ crossed' = crossed \cup { h \in {g} : \E w \in Views : ~IsAt(w, "idle") /\ Of(w) = h }
  BY DEF Looks, ReadBy, IsAt, provider
<1>2. /\ view'[v].step = "read" /\ view'[v].of = g /\ view'[v].row = account[g]
      /\ \A w \in Views : w # v => view'[w] = view[w]
  BY DEF Looks, ReadBy, TypeOK
<1>3. crossed \subseteq crossed'
      /\ \A w \in Views : view[w].step # "idle" /\ view[w].of = g => g \in crossed'
  BY <1>1 DEF IsAt, Of
<1>4. ASSUME NEW h \in Grants PROVE TimesFit(h)' /\ RowFits(h)'
  <2>1. TimesFit(h)'
    BY <1>1 DEF Fits, TimesFit
  <2>2. (\A w \in Views : view'[w].step = "holds" => view'[w].of # h)
        => \A w \in Views : view[w].step = "holds" => view[w].of # h
    BY <1>1, <1>2
  <2>3. RowFits(h)
    BY DEF Fits
  <2> QED
    BY <1>1, <1>3, <2>1, <2>2, <2>3 DEF RowFits
<1>5. ASSUME NEW c \in Consents PROVE ConsentFits(c)'
  BY <1>1, <1>2 DEF Fits, ConsentFits, HoldsRow
<1>6. ASSUME NEW w \in Views PROVE ViewFits(w)'
  <2>1. CASE w = v
    <3>1. g \notin crossed' => \A x \in Views : view[x].step = "holds" => view[x].of # g
      BY <1>3
    <3>2. /\ Known(account[g], g, issued[g])
          /\ g \notin crossed' => Timely(account[g], issued[g])
          /\ g \notin crossed' \cup cut => Taken(account[g], honoured[g])
      BY <1>1, <1>3, <3>1 DEF Fits, RowFits
    <3> QED
      BY <1>1, <1>2, <2>1, <3>2 DEF ViewFits
  <2>2. CASE w # v
    BY <1>1, <1>2, <1>3, <2>2 DEF Fits, ViewFits
  <2> QED
    BY <2>1, <2>2
<1>7. ASSUME NEW x \in Views, NEW y \in Views PROVE Apart(x, y)'
  BY <1>2, <1>3 DEF Fits, Apart
<1> QED
  BY <1>4, <1>5, <1>6, <1>7 DEF Fits

(* A view comes to its end: what it held and had not saved is noted, or    *)
(* has no row to go to.                                                    *)
LEMMA FitsAfterEnd ==
  ASSUME TypeOK, Fits, NEW v \in Views, ViewEnds(v),
         UNCHANGED <<now, issued, honoured, account, consent, crossed>>, cut \subseteq cut',
         view[v].step = "holds" => Of(v) \in cut' \/ account[Of(v)] = NoRow
  PROVE  Fits'
<1>1. view'[v].step = "idle" /\ \A w \in Views : w # v => view'[w] = view[w]
  BY DEF ViewEnds
<1>2. ASSUME NEW g \in Grants PROVE TimesFit(g)' /\ RowFits(g)'
  <2>1. TimesFit(g)'
    BY DEF Fits, TimesFit
  <2>2. ASSUME account[g] # NoRow, g \notin cut',
               \A w \in Views : view'[w].step = "holds" => view'[w].of # g
        PROVE  \A w \in Views : view[w].step = "holds" => view[w].of # g
    BY <1>1, <2>2 DEF Of
  <2>3. RowFits(g)
    BY DEF Fits
  <2> QED
    BY <2>1, <2>2, <2>3 DEF RowFits
<1>3. ASSUME NEW c \in Consents PROVE ConsentFits(c)'
  BY <1>1 DEF Fits, ConsentFits, HoldsRow
<1>4. ASSUME NEW w \in Views PROVE ViewFits(w)'
  <2>1. CASE w = v
    BY <1>1, <2>1 DEF ViewFits
  <2>2. CASE w # v
    BY <1>1, <2>2 DEF Fits, ViewFits
  <2> QED
    BY <2>1, <2>2
<1>5. ASSUME NEW x \in Views, NEW y \in Views PROVE Apart(x, y)'
  BY <1>1 DEF Fits, Apart
<1> QED
  BY <1>2, <1>3, <1>4, <1>5 DEF Fits

(* A token that lives is not refreshed. *)
LEMMA FitsAfterSkip ==
  ASSUME TypeOK, Fits, NEW v \in Views, SkipsRefresh(v)
  PROVE  Fits'
<1>1. /\ UNCHANGED <<now, issued, honoured, account, consent, crossed, cut>>
      /\ view[v].step = "read"
  BY DEF SkipsRefresh, IsAt, provider, history
<1>2. /\ view'[v].step = "profile" /\ view'[v].of = view[v].of /\ view'[v].row = view[v].row
      /\ \A w \in Views : w # v => view'[w] = view[w]
  BY ViewMoves DEF ViewGoes, Of
<1>3. \A w \in Views :
        /\ view'[w].of = view[w].of /\ view'[w].row = view[w].row
        /\ view'[w].step = "holds" <=> view[w].step = "holds"
        /\ view'[w].step = "idle" <=> view[w].step = "idle"
  BY <1>1, <1>2
<1>4. ASSUME NEW g \in Grants PROVE TimesFit(g)' /\ RowFits(g)'
  <2>1. TimesFit(g)'
    BY <1>1 DEF Fits, TimesFit
  <2>2. RowFits(g)
    BY DEF Fits
  <2> QED
    BY <1>1, <1>3, <2>1, <2>2 DEF RowFits
<1>5. ASSUME NEW c \in Consents PROVE ConsentFits(c)'
  BY <1>1, <1>3 DEF Fits, ConsentFits, HoldsRow
<1>6. ASSUME NEW w \in Views PROVE ViewFits(w)'
  BY <1>1, <1>3 DEF Fits, ViewFits
<1>7. ASSUME NEW x \in Views, NEW y \in Views PROVE Apart(x, y)'
  BY <1>1, <1>3 DEF Fits, Apart
<1> QED
  BY <1>4, <1>5, <1>6, <1>7 DEF Fits

(* The network answers a refresh.  Who else works on the grant has crossed *)
(* with this view; the row keeps its older token until the view saves, and *)
(* the refresh token it has may be dead: the view holds the one that lives *)
(* or the grant is noted as cut.                                           *)
LEMMA FitsAfterIssue ==
  ASSUME TypeOK, Fits, NEW v \in Views, IsIssued(v)
  PROVE  Fits'
<1>1. PICK g \in Grants, n \in 1 .. MaxGen, rotates \in BOOLEAN, r \in Row :
         /\ Answer(v, g, n, rotates, r)
         /\ \/ ViewGoes(v, "holds", r) /\ UNCHANGED cut
            \/ ViewEnds(v) /\ cut' = cut \cup {g}
  BY IsIssuedAnswers
<1> DEFINE old == view[v].row
<1>2. UNCHANGED <<now, account, consent, crossed>> /\ view[v].step = "read"
  BY DEF IsIssued, IsAt
<1>3. ViewFits(v)
  BY DEF Fits
<1>4. Known(old, view[v].of, issued[view[v].of])
  BY <1>2, <1>3 DEF ViewFits
<1>5. g = view[v].of
  BY <1>1, <1>4 DEF Known, OfGrant, Answer
<1>6. /\ Known(old, g, issued[g])
      /\ g \notin crossed => Timely(old, issued[g])
      /\ g \notin crossed \cup cut => Taken(old, honoured[g])
  BY <1>2, <1>3, <1>5 DEF ViewFits
<1>7. /\ view'[v].step \in {"holds", "idle"}
      /\ view'[v].step = "holds" => view'[v].of = g /\ view'[v].row = r
      /\ view'[v].step = "idle" => g \in cut'
      /\ \A w \in Views : w # v => view'[w] = view[w]
      /\ cut \subseteq cut' /\ cut' \subseteq cut \cup {g}
  BY <1>1, <1>5 DEF ViewGoes, ViewEnds, Of
<1>8. /\ \A h \in Grants : h # g => issued'[h] = issued[h] /\ honoured'[h] = honoured[h]
      /\ issued'[g] = Append(issued[g], now + Life) /\ n = Len(issued[g]) + 1
      /\ honoured'[g] = IF rotates THEN n ELSE honoured[g]
      /\ issued[g] \in Seq(Nat) /\ now + Life \in Nat
  <2>1. /\ issued' = [issued EXCEPT ![g] = Append(@, now + Life)] /\ n = Len(issued[g]) + 1
        /\ honoured' = [honoured EXCEPT ![g] = IF rotates THEN n ELSE @]
    BY <1>1 DEF Answer
  <2>2. issued \in [Grants -> Seq(Nat)] /\ honoured \in [Grants -> 0 .. MaxGen] /\ now \in Nat
    BY Bounds DEF TypeOK
  <2> QED
    BY <2>1, <2>2, Bounds
<1>9. /\ Len(issued'[g]) = n /\ issued'[g][n] = now + Life
      /\ \A m \in 1 .. Len(issued[g]) : issued'[g][m] = issued[g][m]
  BY <1>8
<1>10. ASSUME NEW h \in Grants PROVE TimesFit(h)'
  <2>1. TimesFit(h)
    BY DEF Fits
  <2>2. CASE h = g
    <3>1. \A m \in 1 .. n : m = n \/ m \in 1 .. Len(issued[g])
      BY <1>8
    <3>2. now + Life \in Int /\ now + Life <= now + Life
      BY <1>8
    <3>3. \A m \in 1 .. n : issued'[g][m] <= now + Life
      BY <1>9, <2>1, <2>2, <3>1, <3>2 DEF TimesFit
    <3> QED
      BY <1>2, <1>9, <2>2, <3>3 DEF TimesFit
  <2>3. CASE h # g
    BY <1>2, <1>8, <2>1, <2>3 DEF TimesFit
  <2> QED
    BY <2>2, <2>3
<1>11. ASSUME NEW h \in Grants PROVE RowFits(h)'
  <2>1. RowFits(h)
    BY DEF Fits
  <2>2. CASE h = g
    <3>1. account[g] # NoRow =>
            Known(account[g], g, issued'[g]) /\ (g \notin crossed => Timely(account[g], issued'[g]))
      BY <1>8, <2>1, <2>2, TimesGrow DEF RowFits
    <3>2. g \in cut' \/ (view'[v].step = "holds" /\ view'[v].of = g)
      BY <1>7
    <3> QED
      BY <1>2, <2>2, <3>1, <3>2 DEF RowFits
  <2>3. CASE h # g
    <3>1. (\A w \in Views : view'[w].step = "holds" => view'[w].of # h)
          => \A w \in Views : view[w].step = "holds" => view[w].of # h
      BY <1>2, <1>7
    <3> QED
      BY <1>2, <1>7, <1>8, <2>1, <2>3, <3>1 DEF RowFits
  <2> QED
    BY <2>2, <2>3
<1>12. ASSUME NEW c \in Consents PROVE ConsentFits(c)'
  <2>1. ConsentFits(c) /\ c \in Grants
    BY DEF Fits, Grants
  <2>2. consent[c].step # "over" => c # g
    BY <1>2, <1>5, <2>1 DEF ConsentFits
  <2>3. \A w \in Views : view'[w].step # "idle" => view[w].step # "idle" /\ view'[w].of = view[w].of
    BY <1>2, <1>5, <1>7
  <2>4. consent[c].step # "over" =>
          account[c] = NoRow /\ \A w \in Views : view'[w].step # "idle" => view'[w].of # c
    BY <2>1, <2>3 DEF ConsentFits
  <2> QED
    BY <1>2, <1>8, <2>1, <2>2, <2>4 DEF ConsentFits, HoldsRow
<1>13. ASSUME NEW w \in Views PROVE ViewFits(w)'
  <2>1. CASE w = v /\ view'[v].step = "holds"
    <3>0. r.access = <<g, n>> /\ r.refresh = IF rotates THEN <<g, n>> ELSE old.refresh
      BY <1>1 DEF Answer
    <3>2. <<g, n>>[1] = g /\ <<g, n>>[2] = n
      OBVIOUS
    <3>1. r.access[1] = g /\ r.access[2] = n /\ (r.refresh = <<g, n>> \/ r.refresh = old.refresh)
      BY <3>0, <3>2
    <3>3. Known(r, g, issued'[g])
      BY <1>6, <1>9, <3>1, <3>2 DEF Known, OfGrant
    <3>4. ASSUME g \notin crossed PROVE Timely(r, issued'[g])
      <4>1. TimesFit(g) /\ old.access[2] \in 1 .. Len(issued[g]) /\ Timely(old, issued[g])
        BY <1>6, <3>4 DEF Fits, Known
      <4>2. old.expires <= issued[g][old.access[2]] /\ issued[g][old.access[2]] <= now + Life
        BY <4>1 DEF TimesFit, Timely
      <4>3. issued[g][old.access[2]] \in Nat
        <5>1. \A m \in 1 .. Len(issued[g]) : issued[g][m] \in Nat
          <6>1. \A q \in Seq(Nat) : \A m \in 1 .. Len(q) : q[m] \in Nat
            OBVIOUS
          <6>2. issued[g] \in Seq(Nat)
            BY <1>8
          <6> QED
            BY <6>1, <6>2
        <5> QED
          BY <4>1, <5>1
      <4>4. old.expires \in Int
        <5>1. view[v] \in View /\ old # NoRow
          BY <1>2 DEF TypeOK
        <5>2. old \in Row
          BY <5>1 DEF View
        <5>3. old.expires \in {Never} \cup 0 .. MaxNow + Life
          BY <5>2 DEF Row
        <5> QED
          BY <5>3, Bounds DEF Never
      <4>5. r.expires \in {now + Life, old.expires}
        BY <1>1 DEF Answer
      <4>6. r.expires <= now + Life
        <5>1. now + Life \in Nat
          BY <1>8
        <5>2. \A a, m, e \in Int : a <= m /\ m <= e => a <= e
          OBVIOUS
        <5>3. old.expires <= now + Life
          BY <4>2, <4>3, <4>4, <5>1, <5>2
        <5> HIDE DEF old
        <5> QED
          BY <4>5, <5>1, <5>3
      <4> QED
        BY <1>9, <3>1, <4>6 DEF Timely
    <3>5. ASSUME g \notin crossed \cup cut' PROVE Taken(r, honoured'[g])
      <4>1. Taken(old, honoured[g])
        BY <1>6, <1>7, <3>5
      <4>2. r.refresh = IF rotates THEN <<g, n>> ELSE old.refresh
        BY <1>1 DEF Answer
      <4> QED
        BY <1>8, <3>2, <4>1, <4>2 DEF Taken
    <3> QED
      BY <1>2, <1>7, <2>1, <3>3, <3>4, <3>5 DEF ViewFits
  <2>2. CASE w = v /\ view'[v].step = "idle"
    BY <2>2 DEF ViewFits
  <2>3. CASE w # v
    <3>1. ViewFits(w) /\ view'[w] = view[w] /\ view[w].of \in Grants
      BY <1>7, <2>3 DEF Fits, TypeOK, View
    <3>2. CASE view[w].of # g
      BY <1>2, <1>7, <1>8, <3>1, <3>2 DEF ViewFits
    <3>3. CASE view[w].of = g /\ view[w].step # "idle"
      <4>1. g \in crossed
        <5>1. Apart(v, w)
          BY DEF Fits
        <5> QED
          BY <1>2, <1>5, <2>3, <3>3, <5>1 DEF Apart
      <4>2. Known(view[w].row, g, issued[g])
        BY <3>1, <3>3 DEF ViewFits
      <4>3. Known(view[w].row, g, issued'[g])
        BY <1>8, <4>2, TimesGrow
      <4> QED
        BY <1>2, <3>1, <3>3, <4>1, <4>3 DEF ViewFits
    <3> QED
      BY <3>1, <3>2, <3>3 DEF ViewFits
  <2> QED
    BY <1>7, <2>1, <2>2, <2>3
<1>14. ASSUME NEW x \in Views, NEW y \in Views PROVE Apart(x, y)'
  <2>1. \A w \in Views : view'[w].step # "idle" => view[w].step # "idle" /\ view'[w].of = view[w].of
    BY <1>2, <1>5, <1>7
  <2> QED
    BY <1>2, <2>1 DEF Fits, Apart
<1> HIDE DEF old
<1> QED
  BY <1>10, <1>11, <1>12, <1>13, <1>14 DEF Fits

(* A row is written that a view worked on, and the view goes on or ends:   *)
(* whoever else works on it has crossed with this view, and no consent is  *)
(* waiting to make it.                                                     *)
LEMMA FitsAfterWrite ==
  ASSUME TypeOK, Fits, NEW v \in Views, NEW g \in Grants, NEW r \in Row,
         UNCHANGED <<now, issued, honoured, consent, crossed, cut>>,
         view[v].step # "idle", view[v].of = g, account[g] # NoRow,
         account' = [account EXCEPT ![g] = r],
         \A w \in Views : w # v => view'[w] = view[w],
         view'[v].step # "idle" =>
           /\ view'[v].step = "profile" /\ view'[v].of = g /\ view'[v].row = view[v].row
           /\ r = view[v].row,
         Known(r, g, issued[g]), g \notin crossed => Timely(r, issued[g]),
         (g \notin crossed \cup cut /\ \A w \in Views : view'[w].step = "holds" => view'[w].of # g)
           => Taken(r, honoured[g])
  PROVE  Fits'
<1>1. account'[g] = r /\ \A h \in Grants : h # g => account'[h] = account[h]
  BY DEF TypeOK
<1>2. \A w \in Views : view'[w].step # "idle" => view[w].step # "idle" /\ view'[w].of = view[w].of
  OBVIOUS
<1>3. ASSUME NEW h \in Grants PROVE TimesFit(h)' /\ RowFits(h)'
  <2>1. TimesFit(h)' /\ RowFits(h)
    BY DEF Fits, TimesFit
  <2>2. CASE h = g
    BY <1>1, <2>1, <2>2 DEF RowFits
  <2>3. CASE h # g
    <3>1. (\A w \in Views : view'[w].step = "holds" => view'[w].of # h)
          => \A w \in Views : view[w].step = "holds" => view[w].of # h
      BY <2>3
    <3> QED
      BY <1>1, <2>1, <2>3, <3>1 DEF RowFits
  <2> QED
    BY <2>2, <2>3
<1>4. ASSUME NEW c \in Consents PROVE ConsentFits(c)'
  <2>1. ConsentFits(c) /\ c \in Grants
    BY DEF Fits, Grants
  <2>2. consent[c].step # "over" => c # g
    BY <2>1 DEF ConsentFits
  <2>3. consent[c].step # "over" =>
          account'[c] = NoRow /\ \A w \in Views : view'[w].step # "idle" => view'[w].of # c
    BY <1>1, <1>2, <2>1, <2>2 DEF ConsentFits
  <2> QED
    BY <2>1, <2>3 DEF ConsentFits, HoldsRow
<1>5. ASSUME NEW w \in Views PROVE ViewFits(w)'
  <2>1. CASE w = v
    <3>1. view'[v].step # "idle" => account'[g] = view'[v].row
      BY <1>1
    <3>2. view'[v].step # "idle" =>
            /\ Known(view'[v].row, g, issued[g])
            /\ g \notin crossed => Timely(view'[v].row, issued[g])
            /\ g \notin crossed \cup cut => Taken(view'[v].row, honoured[g])
      <4>1. ViewFits(v)
        BY DEF Fits
      <4> QED
        BY <4>1 DEF ViewFits
    <3> QED
      BY <2>1, <3>1, <3>2 DEF ViewFits
  <2>2. CASE w # v
    <3>1. ViewFits(w) /\ Apart(v, w) /\ view'[w] = view[w] /\ view[w].of \in Grants
      BY <2>2 DEF Fits, TypeOK, View
    <3>2. CASE view[w].of = g
      BY <2>2, <3>1, <3>2 DEF ViewFits, Apart
    <3>3. CASE view[w].of # g
      BY <1>1, <3>1, <3>3 DEF ViewFits
    <3> QED
      BY <3>2, <3>3
  <2> QED
    BY <2>1, <2>2
<1>6. ASSUME NEW x \in Views, NEW y \in Views PROVE Apart(x, y)'
  BY <1>2 DEF Fits, Apart
<1> QED
  BY <1>3, <1>4, <1>5, <1>6 DEF Fits

(* The tokens that the view holds go to the row, if it is there. *)
LEMMA FitsAfterSave ==
  ASSUME TypeOK, Fits, NEW v \in Views, Saves(v)
  PROVE  Fits'
<1>1. UNCHANGED <<now, issued, honoured, consent, crossed, cut>> /\ view[v].step = "holds"
  BY DEF Saves, IsAt, provider, history
<1>2. CASE ViewEnds(v) /\ account[Of(v)] = NoRow /\ UNCHANGED account
  BY <1>1, <1>2, FitsAfterEnd
<1>3. CASE /\ ViewGoes(v, "profile", view[v].row) /\ account[Of(v)] # NoRow
           /\ account' = [account EXCEPT ![Of(v)] = view[v].row]
  <2> DEFINE g == Of(v)
             r == view[v].row
  <2>1. g \in Grants /\ r \in Row
    BY <1>1 DEF TypeOK, Of, View
  <2>2. ViewFits(v)
    BY DEF Fits
  <2>3. /\ Known(r, g, issued[g])
        /\ g \notin crossed => Timely(r, issued[g])
        /\ g \notin crossed \cup cut => Taken(r, honoured[g])
    BY <1>1, <2>2 DEF ViewFits, Of
  <2>4. /\ view'[v].step = "profile" /\ view'[v].of = g /\ view'[v].row = r
        /\ \A w \in Views : w # v => view'[w] = view[w]
        /\ account[g] # NoRow /\ account' = [account EXCEPT ![g] = r]
    BY <1>3 DEF ViewGoes
  <2>5. view[v].of = g
    BY DEF Of
  <2> HIDE DEF g
  <2> QED
    BY <1>1, <2>1, <2>3, <2>4, <2>5, FitsAfterWrite
<1> QED
  BY <1>2, <1>3, ViewMoves

(* The profile is written with the expiry of the copy, which is that of    *)
(* the row unless two views crossed.                                       *)
LEMMA FitsAfterProfile ==
  ASSUME TypeOK, Fits, NEW v \in Views, GetsProfile(v)
  PROVE  Fits'
<1>1. UNCHANGED <<now, issued, honoured, consent, crossed, cut>> /\ view[v].step = "profile"
  BY DEF GetsProfile, IsAt, provider, history
<1>2. ViewEnds(v)
  BY ViewMoves
<1>3. CASE UNCHANGED account
  BY <1>1, <1>2, <1>3, FitsAfterEnd
<1>4. CASE ~UNCHANGED account
  <2> DEFINE g == Of(v)
             row == view[v].row
  <2>1. PICK r \in Row :
          /\ account[g] # NoRow /\ account' = [account EXCEPT ![g] = r]
          /\ r.access = account[g].access /\ r.refresh = account[g].refresh
          /\ r.expires = row.expires
    BY <1>4, ProfileWrites
  <2>2. g \in Grants /\ view[v].of = g
    BY DEF TypeOK, Of, View
  <2> HIDE DEF g
  <2>3. ViewFits(v) /\ RowFits(g)
    BY <2>2 DEF Fits
  <2>4. Known(r, g, issued[g])
    BY <2>1, <2>3 DEF RowFits, Known, OfGrant
  <2>5. g \notin crossed => Timely(r, issued[g])
    <3>1. g \notin crossed => account[g] = row /\ Timely(row, issued[g])
      BY <1>1, <2>1, <2>2, <2>3 DEF ViewFits
    <3> QED
      BY <2>1, <3>1 DEF Timely
  <2>6. /\ view'[v].step = "idle"
        /\ \A w \in Views : w # v => view'[w] = view[w]
    BY <1>2 DEF ViewEnds
  <2>7. (g \notin crossed \cup cut /\ \A w \in Views : view'[w].step = "holds" => view'[w].of # g)
          => Taken(r, honoured[g])
    <3>1. (\A w \in Views : view'[w].step = "holds" => view'[w].of # g)
          => \A w \in Views : view[w].step = "holds" => view[w].of # g
      BY <1>1, <2>6
    <3> QED
      BY <2>1, <2>3, <3>1 DEF RowFits, Taken
  <2> QED
    BY <1>1, <2>1, <2>2, <2>4, <2>5, <2>6, <2>7, FitsAfterWrite
<1> QED
  BY <1>3, <1>4

(* The other ends of a view leave the row as it is. *)
LEMMA FitsAfterGivingUp ==
  ASSUME TypeOK, Fits, NEW v \in Views, IsRefused(v) \/ KeepsProfile(v) \/ ViewStops(v)
  PROVE  Fits'
<1>1. UNCHANGED <<now, issued, honoured, account, consent, crossed>>
  BY DEF IsRefused, KeepsProfile, ViewStops, provider, history
<1>2. cut \subseteq cut' /\ (view[v].step = "holds" => Of(v) \in cut')
  BY DEF IsRefused, KeepsProfile, ViewStops, IsAt, history
<1>3. ViewEnds(v)
  BY ViewMoves
<1> QED
  BY <1>1, <1>2, <1>3, FitsAfterEnd

(* The row of the draft, if the network was connected then, is fresh. *)
LEMMA FitsInit ==
  ASSUME Init
  PROVE  Fits
<1>1. PICK had \in BOOLEAN, says \in BOOLEAN :
        /\ account = [g \in Grants |->
             IF had /\ g = FromDraft THEN NewRow(g, network, says, 0) ELSE NoRow]
        /\ issued = [g \in Grants |-> IF had /\ g = FromDraft THEN <<Life>> ELSE <<>>]
        /\ honoured = [g \in Grants |-> IF had /\ g = FromDraft /\ Holds(network) THEN 1 ELSE 0]
  BY DEF Init
<1>2. /\ now = 0 /\ crossed = {} /\ cut = {}
      /\ \A c \in Consents : consent[c].step = "none"
      /\ \A v \in Views : view[v].step = "idle"
  BY DEF Init, IdleConsent, IdleView
<1>3. FromDraft \notin Consents /\ FromDraft \in Grants /\ Consents \subseteq Grants
  BY DEF Grants
<1>4. ASSUME NEW g \in Grants PROVE TimesFit(g)
  <2>1. issued[g] \in {<<Life>>, <<>>}
    BY <1>1
  <2> QED
    BY <1>2, <2>1, Bounds DEF TimesFit
<1>5. ASSUME NEW g \in Grants, account[g] # NoRow PROVE RowFits(g)
  <2> DEFINE r == NewRow(g, network, says, 0)
  <2>1. /\ account[g] = r /\ issued[g] = <<Life>>
        /\ Holds(network) => honoured[g] = 1
    BY <1>1, <1>5
  <2>2. 0 \in 0 .. MaxNow
    BY Bounds
  <2>3. /\ r.access = <<g, 1>> /\ r.refresh \in {<<g, 1>>, NoToken}
        /\ (r.refresh # NoToken => Holds(network)) /\ r.expires \in {Never, 0 + Life}
    BY <2>2, NewRowIsRow
  <2>4. <<g, 1>>[1] = g /\ <<g, 1>>[2] = 1
    OBVIOUS
  <2> HIDE DEF r
  <2>5. Known(r, g, <<Life>>) /\ Timely(r, <<Life>>)
    BY <2>3, <2>4, Bounds DEF Known, OfGrant, Timely, Never
  <2>6. Taken(r, honoured[g])
    BY <2>1, <2>3, <2>4 DEF Taken
  <2> QED
    BY <2>1, <2>5, <2>6 DEF RowFits
<1>6. ASSUME NEW c \in Consents PROVE ConsentFits(c)
  BY <1>1, <1>2, <1>3 DEF ConsentFits, HoldsRow
<1>7. \A v, w \in Views : ViewFits(v) /\ Apart(v, w)
  BY <1>2 DEF ViewFits, Apart
<1>8. ASSUME NEW g \in Grants PROVE RowFits(g)
  BY <1>5 DEF RowFits
<1> QED
  BY <1>4, <1>6, <1>7, <1>8 DEF Fits

LEMMA FitsKept ==
  ASSUME TypeOK, Fits, [Next]_vars
  PROVE  Fits'
<1>1. ASSUME NEW c \in Consents,
             \/ Authorizes(c) \/ ComesBack(c) \/ Exchanges(c) \/ Clears(c) \/ Commits(c)
             \/ FallsThrough(c)
      PROVE  Fits'
  BY <1>1, FitsAfterConsentMoves, FitsAfterExchange, FitsAfterCommit
<1>2. ASSUME NEW v \in Views,
             \/ SkipsRefresh(v) \/ IsIssued(v) \/ IsRefused(v) \/ Saves(v)
             \/ GetsProfile(v) \/ KeepsProfile(v) \/ ViewStops(v)
      PROVE  Fits'
  BY <1>2, FitsAfterSkip, FitsAfterIssue, FitsAfterGivingUp, FitsAfterSave, FitsAfterProfile
<1>3. ASSUME NEW v \in Views, NEW g \in Grants, Looks(v, g) PROVE Fits'
  BY <1>3, FitsAfterLook
<1>4. CASE Disconnects \/ Erases \/ Ticks \/ UNCHANGED vars
  BY <1>4, FitsAfterRemoval
<1> QED
  BY <1>1, <1>2, <1>3, <1>4 DEF Next

(* The tokens on record are those of the consent that made the row; their  *)
(* expiry is never later than the network's unless two views refreshed the *)
(* row at once, and the network takes the refresh token unless besides an  *)
(* answer of its was not kept (refreshAccessTokenIfNeeded).                *)
THEOREM TokensStayKept == Spec => []TokensAreKept
<1>1. Init => Fits
  BY FitsInit
<1>2. TypeOK /\ Fits /\ [Next]_vars => Fits'
  BY FitsKept
<1>3. AccountsInv => TypeOK
  BY DEF AccountsInv
<1>4. TypeOK /\ Fits => TokensAreKept
  BY KeptIsFits
<1> QED
  BY <1>1, <1>2, <1>3, <1>4, AccountsAreSafe, PTL DEF Spec

=============================================================================
