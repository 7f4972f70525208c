------------------------------- MODULE Tracking -------------------------------
(***************************************************************************)
(* The candidate's tracking page and the API behind it: a proposal looked  *)
(* up by protocol and token, the token sent after a one-time code, what is *)
(* pending, a network disconnected, a document sent, the data erased.      *)
(*                                                                         *)
(* The page's state is its URL and the last answer; every request is built *)
(* from one of the two, or from the fields of protocol and token, typed    *)
(* into when they are used.  The token of a proposal stands for itself: a  *)
(* pair opens the proposal when its two halves are of the same one.  The   *)
(* proposals are one person's, so a code sent for one proves the telephone *)
(* of all.                                                                 *)
(***************************************************************************)
EXTENDS Naturals, Sequences

CONSTANTS
  Protocols, Nets,
  NoValue, Gone,
  MaxVisits,       \* bounds: the URLs the page goes to
  MaxTurns         \*         its buttons pressed and the analysts' requests
                   \*         for documents, together

Entered == [status : {"review", "docs"}, nets : SUBSET Nets]
Answers == [of : Protocols, status : {"review", "docs"}, nets : SUBSET Nets,
            request : Nat, pending : Nat \cup {NoValue}, founded : BOOLEAN]

ASSUME TrackingAssumption ==
  /\ {MaxVisits, MaxTurns} \subseteq Nat
  /\ NoValue \notin Protocols \cup Nat \cup Answers
  /\ Gone \notin Entered

VARIABLES
  proposal,              \* [status, nets], or Gone
  docRequests,           \* how many requests for documents were made
  request, logs, logged, \* the last of each proposal; its log; is the last in it
  writing,               \* requests with their status written and no log yet
  code,                  \* a code was sent to the telephone
  address,               \* the page: its URL
  tracking,              \*   what is shown
  fetches, fetched, arrived, fetchFailed,   \* the loads
  otp, removal, asks, pressed, visits,
  proved, strayed        \* history

requestVars  == <<docRequests, request, logs, logged, writing>>
storeVars    == <<proposal, requestVars, code>>
screenVars   == <<address, tracking, fetches, fetched, arrived, fetchFailed>>
buttonVars   == <<otp, removal, asks, pressed, visits>>
wasVars      == <<proved, strayed>>
trackingVars == <<storeVars, screenVars, buttonVars, wasVars>>

Empty    == [protocol |-> NoValue, token |-> NoValue]
Pair(p)  == [protocol |-> p, token |-> p]
Whole(u) == NoValue \notin {u.protocol, u.token}
Opens(p, token) == p = token /\ proposal[p] # Gone

----------------------------------------------------------------------------
(* The effects that run when the URL changes: the proposal is loaded.  A load
   under way is not cancelled. *)
GoesTo(u) ==
  /\ address' = u
  /\ fetched' = fetched + 1
  /\ IF Whole(u)
     THEN /\ fetches' = fetches \cup {[n |-> fetched + 1, of |-> u, answer |-> NoValue]}
          /\ fetchFailed' = FALSE
          /\ UNCHANGED <<tracking, arrived>>
     ELSE /\ tracking' = NoValue /\ arrived' = fetched + 1
          /\ UNCHANGED <<fetches, fetchFailed>>

Visits(u) == GoesTo(u)

Search(u) ==
  /\ Whole(u) /\ u # address /\ visits < MaxVisits
  /\ Visits(u) /\ visits' = visits + 1 /\ proved' = FALSE
  /\ UNCHANGED <<storeVars, otp, removal, asks, pressed, strayed>>

----------------------------------------------------------------------------
(* The latest log of a request names the items; 0 is the general phrase. *)
LatestLog(p) == IF logs[p] = <<>> THEN 0 ELSE logs[p][Len(logs[p])]

Found(p) == [of |-> p, status |-> proposal[p].status, nets |-> proposal[p].nets,
             request |-> request[p], pending |-> NoValue, founded |-> FALSE]

(* trackProposal reads the proposal, writes an audit row, then reads the log;
   the audit row of a proposal erased meanwhile is refused by its key. *)
ApiFinds(f) ==
  /\ f.answer = NoValue /\ Opens(f.of.protocol, f.of.token)
  /\ fetches' = (fetches \ {f}) \cup {[f EXCEPT !.answer = Found(f.of.protocol)]}
  /\ UNCHANGED <<storeVars, address, tracking, fetched, arrived, fetchFailed,
                 buttonVars, wasVars>>

ApiTracks(f) ==
  LET p == f.of.protocol IN
  /\ f.answer # NoValue /\ f.answer.pending = NoValue /\ proposal[p] # Gone
  /\ fetches' = (fetches \ {f}) \cup
       {[f EXCEPT !.answer =
          [@ EXCEPT !.pending = IF f.answer.status = "docs" THEN LatestLog(p) ELSE 0,
                    !.founded = logged[p]]]}
  /\ UNCHANGED <<storeVars, address, tracking, fetched, arrived, fetchFailed,
                 buttonVars, wasVars>>

FetchAnswers(f) ==
  /\ f.answer # NoValue /\ f.answer.pending # NoValue
  /\ tracking' = f.answer /\ arrived' = f.n
  /\ fetches' = fetches \ {f}
  /\ UNCHANGED <<storeVars, address, fetched, fetchFailed, buttonVars, wasVars>>

FetchFails(f) ==
  /\ fetches' = fetches \ {f} /\ fetchFailed' = TRUE
  /\ UNCHANGED <<storeVars, address, tracking, fetched, arrived, buttonVars,
                 wasVars>>

----------------------------------------------------------------------------
(* The buttons.  A request about what is shown takes its protocol from there
   and its token from the URL. *)
Shown == IF tracking = NoValue THEN NoValue ELSE tracking.of

Ask(what, p, net) ==
  [what |-> what, of |-> p, token |-> address.token, shown |-> Shown, net |-> net,
   at |-> "sent", n |-> pressed + 1]

Presses(r) ==
  /\ pressed + docRequests < MaxTurns /\ pressed' = pressed + 1 /\ asks' = asks \cup {r}
  /\ UNCHANGED <<storeVars, screenVars, visits, wasVars>>

(* The panel of the code is there while the field of the token is empty. *)
SendCode(p) ==
  /\ otp # "sending"
  /\ Presses(Ask("send", p, NoValue))
  /\ otp' = "sending" /\ UNCHANGED removal

VerifyCode(p) ==
  /\ otp = "sent"
  /\ Presses(Ask("verify", p, NoValue))
  /\ otp' = "verifying" /\ UNCHANGED removal

TargetShown == tracking.of

CanAsk == tracking # NoValue /\ address.token # NoValue

EraseData ==
  /\ CanAsk /\ removal # "deleting"
  /\ Presses(Ask("erase", TargetShown, NoValue))
  /\ removal' = "deleting" /\ UNCHANGED otp

Disconnect(net) ==
  /\ CanAsk /\ net \in tracking.nets
  /\ Presses(Ask("disconnect", TargetShown, net))
  /\ UNCHANGED <<otp, removal>>

(* Only where a document is pending. *)
SendDocument ==
  /\ CanAsk /\ tracking.status = "docs"
  /\ Presses(Ask("upload", TargetShown, NoValue))
  /\ UNCHANGED <<otp, removal>>

----------------------------------------------------------------------------
(* The API's handlers. *)
IsDone(r) == asks' = (asks \ {r}) \cup {[r EXCEPT !.at = "done"]}
PageStays == UNCHANGED <<screenVars, otp, removal, pressed, visits, proved>>
IsAsked(r, what) == r.at = "sent" /\ r.what = what

ApiSendsCode(r) ==
  /\ IsAsked(r, "send") /\ proposal[r.of] # Gone
  /\ code' = TRUE /\ IsDone(r)
  /\ UNCHANGED <<proposal, requestVars, strayed>> /\ PageStays

ApiVerifies(r) ==
  /\ IsAsked(r, "verify") /\ proposal[r.of] # Gone /\ code
  /\ IsDone(r)
  /\ UNCHANGED <<storeVars, strayed>> /\ PageStays

Accepts(r, what) == IsAsked(r, what) /\ Opens(r.of, r.token)

ApiErases(r) ==
  /\ Accepts(r, "erase")
  /\ proposal' = [proposal EXCEPT ![r.of] = Gone] /\ IsDone(r)
  /\ UNCHANGED <<requestVars, code, strayed>> /\ PageStays

(* An answer that was read before shows the network again. *)
ApiDisconnects(r) ==
  /\ Accepts(r, "disconnect")
  /\ proposal' = [proposal EXCEPT ![r.of].nets = @ \ {r.net}]
  /\ strayed' = (strayed \/ \E f \in fetches : f.answer # NoValue)
  /\ IsDone(r)
  /\ UNCHANGED <<requestVars, code>> /\ PageStays

ApiReceives(r) ==
  /\ Accepts(r, "upload")
  /\ proposal' = [proposal EXCEPT ![r.of].status = IF @ = "docs" THEN "review" ELSE @]
  /\ IsDone(r)
  /\ UNCHANGED <<requestVars, code, strayed>> /\ PageStays

----------------------------------------------------------------------------
(* The answers, each to the page as it is by then. *)
Over(r) == asks' = asks \ {r} /\ UNCHANGED pressed
Answered(r, what) == r.at = "done" /\ r.what = what /\ Over(r)

CodeSent(r) ==
  /\ Answered(r, "send") /\ otp' = "sent"
  /\ UNCHANGED <<storeVars, screenVars, removal, visits, wasVars>>

ProvedPair(r) == Pair(r.of)

(* Nothing puts "verifying" back, but the panel is hidden by the token. *)
CodeProved(r) ==
  /\ Answered(r, "verify")
  /\ IF ProvedPair(r) = address THEN UNCHANGED screenVars ELSE Visits(ProvedPair(r))
  /\ proved' = TRUE
  /\ UNCHANGED <<storeVars, otp, removal, visits, strayed>>

DataErased(r) ==
  /\ Answered(r, "erase") /\ removal' = "done"
  /\ IF address = Empty
     THEN /\ tracking' = NoValue
          /\ UNCHANGED <<address, fetches, fetched, arrived, fetchFailed>>
     ELSE Visits(Empty)
  /\ proved' = FALSE
  /\ UNCHANGED <<storeVars, otp, visits, strayed>>

Without(nets, net) == nets \ {net}

(* The network is taken off whichever proposal is shown by then. *)
NetworkGone(r) ==
  /\ Answered(r, "disconnect")
  /\ tracking' = IF tracking = NoValue THEN NoValue
                 ELSE [tracking EXCEPT !.nets = Without(@, r.net)]
  /\ strayed' = (strayed \/ Shown # r.of)
  /\ UNCHANGED <<storeVars, address, fetches, fetched, arrived, fetchFailed, otp,
                 removal, visits, proved>>

(* The page does not load again: what is pending stays on the screen. *)
DocumentSent(r) ==
  /\ Answered(r, "upload")
  /\ UNCHANGED <<storeVars, screenVars, otp, removal, visits, wasVars>>

(* A refusal, or an answer that is lost. *)
AskFails(r) ==
  /\ Over(r)
  /\ otp' = CASE r.what = "send" -> "idle"
              [] r.what = "verify" -> "sent"
              [] OTHER -> otp
  /\ removal' = IF r.what = "erase" THEN "idle" ELSE removal
  /\ strayed' = (strayed \/ r.what = "disconnect")
  /\ UNCHANGED <<storeVars, screenVars, visits, proved>>

----------------------------------------------------------------------------
(* The back office.  requestChanges writes the status and then the log; the
   bulk action writes the status and no log that names the items. *)
NewRequest(p) ==
  /\ proposal[p] # Gone /\ pressed + docRequests < MaxTurns
  /\ proposal' = [proposal EXCEPT ![p].status = "docs"]
  /\ docRequests' = docRequests + 1
  /\ request' = [request EXCEPT ![p] = docRequests + 1]
  /\ logged' = [logged EXCEPT ![p] = FALSE]
  /\ UNCHANGED <<logs, code, screenVars, buttonVars, wasVars>>

RequestChanges(p) ==
  /\ NewRequest(p)
  /\ writing' = writing \cup {[of |-> p, n |-> docRequests + 1]}

BulkPending(p) == NewRequest(p) /\ UNCHANGED writing

WritesLog(r) ==
  /\ writing' = writing \ {r}
  /\ proposal[r.of] # Gone
  /\ logs' = [logs EXCEPT ![r.of] = Append(@, r.n)]
  /\ logged' = [logged EXCEPT ![r.of] =
                  request[r.of] = r.n /\ \A o \in writing' : o.of # r.of]
  /\ UNCHANGED <<proposal, docRequests, request, code, screenVars, buttonVars, wasVars>>

----------------------------------------------------------------------------
TrackingClosed ==
  /\ proposal = [p \in Protocols |-> [status |-> "review", nets |-> Nets]]
  /\ docRequests = 0 /\ request = [p \in Protocols |-> 0]
  /\ logs = [p \in Protocols |-> <<>>] /\ logged = [p \in Protocols |-> FALSE]
  /\ writing = {} /\ code = FALSE
  /\ tracking = NoValue
  /\ arrived = 0 /\ fetchFailed = FALSE
  /\ otp = "idle" /\ removal = "idle" /\ asks = {} /\ pressed = 0 /\ visits = 0
  /\ proved = FALSE /\ strayed = FALSE

Unvisited == address = Empty /\ fetches = {} /\ fetched = 0

(* Opened without a protocol, or with the link of a message. *)
TrackingInit ==
  /\ \/ Unvisited
     \/ \E p \in Protocols :
          /\ address = Pair(p) /\ fetched = 1
          /\ fetches = {[n |-> 1, of |-> Pair(p), answer |-> NoValue]}
  /\ TrackingClosed

TrackingNext ==
  \/ \E u \in [protocol : Protocols, token : Protocols] : Search(u)
  \/ \E p \in Protocols : SendCode(p) \/ VerifyCode(p)
  \/ EraseData \/ SendDocument
  \/ \E net \in Nets : Disconnect(net)
  \/ \E f \in fetches : ApiFinds(f) \/ ApiTracks(f) \/ FetchAnswers(f) \/ FetchFails(f)
  \/ \E r \in asks :
       \/ ApiSendsCode(r) \/ ApiVerifies(r) \/ ApiErases(r) \/ ApiDisconnects(r)
       \/ ApiReceives(r) \/ CodeSent(r) \/ CodeProved(r) \/ DataErased(r)
       \/ NetworkGone(r) \/ DocumentSent(r) \/ AskFails(r)
  \/ \E p \in Protocols : RequestChanges(p) \/ BulkPending(p)
  \/ \E r \in writing : WritesLog(r)

TrackingSpec == TrackingInit /\ [][TrackingNext]_trackingVars

----------------------------------------------------------------------------
Links   == [protocol : Protocols \cup {NoValue}, token : Protocols \cup {NoValue}]
Buttons == [what : {"send", "verify", "erase", "disconnect", "upload"}, of : Protocols,
            token : Protocols \cup {NoValue}, shown : Protocols \cup {NoValue},
            net : Nets \cup {NoValue}, at : {"sent", "done"}, n : Nat]

(* The type invariant of the tracking page. *)
TrackingTypeOK ==
  /\ proposal \in [Protocols -> Entered \cup {Gone}] /\ docRequests \in Nat
  /\ request \in [Protocols -> 0..docRequests] /\ logged \in [Protocols -> BOOLEAN]
  /\ logs \in [Protocols -> Seq(1..docRequests)]
  /\ writing \subseteq [of : Protocols, n : 1..docRequests]
  /\ address \in Links /\ tracking \in Answers \cup {NoValue}
  /\ tracking # NoValue => tracking.pending \in 0..docRequests
  /\ {fetched, pressed, visits} \subseteq Nat /\ arrived \in 0..fetched
  /\ fetches \subseteq [n : 1..fetched, of : Links, answer : Answers \cup {NoValue}]
  /\ asks \subseteq Buttons
  /\ {code, fetchFailed, proved, strayed} \subseteq BOOLEAN
  /\ otp \in {"idle", "sending", "sent", "verifying"}
  /\ removal \in {"idle", "deleting", "done"}

(* Once the load of the URL has answered, last of all, the page shows the
   proposal of its URL or an error; with half a URL, and so after an erasure,
   nothing, unless an earlier load answers then. *)
TrackedIsOfUrl ==
  arrived = fetched =>
    IF Whole(address) THEN fetchFailed \/ Shown = address.protocol ELSE Shown = NoValue

(* The items shown as pending are those of the last request for documents,
   or of a later one, unless that one is not in the log by then: it was made
   in bulk, its log is not written, or two were made at once. *)
PendingIsOfLastRequest ==
  tracking # NoValue /\ tracking.status = "docs" /\ tracking.founded =>
    tracking.pending >= tracking.request

(* With nothing on its way, the networks shown as connected are those of the
   proposal, unless a disconnection failed, or answered to a page that showed
   another proposal, or a load that read before it answered after it. *)
NetworksShownAreThere ==
  tracking # NoValue /\ fetches = {} /\ ~strayed
    /\ asks = {} =>
      proposal[tracking.of] = Gone \/ tracking.nets = proposal[tracking.of].nets

(* The URL that the page goes to after a code was proved has the token of its
   own protocol, whatever was typed while the code was being looked at. *)
VerifiedUrlOpens == proved => address.protocol = address.token

(* Nothing is erased, disconnected or added but in the proposal that was on
   the screen when the button was pressed, even when the URL was of another. *)
OnlyShownIsChanged ==
  \A r \in asks :
    r.what \in {"erase", "disconnect", "upload"} /\ r.at = "done" =>
      r.of = r.shown
(***************************************************************************)
(* What those rest on.  A load that was asked for last is of the URL; what *)
(* was read of a proposal stays true of it but for what is disconnected.   *)
(***************************************************************************)
PendingIsOf(a) ==
  a.pending \in 0..docRequests /\ (a.status = "docs" /\ a.founded => a.pending >= a.request)

NetsAreOf(a) == proposal[a.of] = Gone \/ a.nets = proposal[a.of].nets

LoadsAreSound ==
  \A f \in fetches :
    /\ Whole(f.of) /\ (f.n = fetched => f.of = address)
    /\ f.answer # NoValue =>
         /\ f.answer.of = f.of.protocol /\ f.answer.request <= request[f.of.protocol]
         /\ f.answer.pending # NoValue => PendingIsOf(f.answer)
         /\ ~strayed => NetsAreOf(f.answer)

LoggedIsLast == \A p \in Protocols : logged[p] => LatestLog(p) = request[p]

AsksAreSound ==
  \A r \in asks :
    /\ r.what \in {"erase", "disconnect", "upload"} => r.of = r.shown
    /\ r.what = "disconnect" /\ r.at = "done" =>
         proposal[r.of] = Gone \/ r.net \notin proposal[r.of].nets

(* A network is shown that is gone only while the page is not yet told. *)
ShownNetsAreThere ==
  tracking # NoValue /\ ~strayed /\ proposal[tracking.of] # Gone =>
    /\ proposal[tracking.of].nets \subseteq tracking.nets
    /\ \A net \in tracking.nets \ proposal[tracking.of].nets :
         \E r \in asks : /\ r.what = "disconnect" /\ r.at = "done"
                         /\ r.of = tracking.of /\ r.net = net

ShownIsSound == tracking # NoValue => PendingIsOf(tracking)

TrackingInv ==
  /\ TrackingTypeOK /\ LoadsAreSound /\ LoggedIsLast /\ AsksAreSound
  /\ ShownNetsAreThere /\ ShownIsSound
  /\ TrackedIsOfUrl /\ VerifiedUrlOpens
=============================================================================
